---------------------------- MODULE Sponsorship ----------------------------
(***************************************************************************)
(* Sponsored user operations: the wallet executes an operation for a relay *)
(* and has the AAPaymaster contract reimburse the relay from a sponsor's   *)
(* GAS deposit, within the sponsor's policies and within the fees the      *)
(* relay pays for the transaction.                                         *)
(*                                                                         *)
(* ExecuteSponsoredUserOp reserves the reimbursement, executes the         *)
(* operation and settles.  While an operation executes, contracts outside  *)
(* have the processor and may do anything, sponsored operations on other   *)
(* accounts included, so an operation that has not settled is a frame.     *)
(* The payout of a settlement or a withdrawal runs the receiver's code     *)
(* after every write of the call: it needs no frame.  What the executed    *)
(* operations do is module UserOpExecution; here they hold their accounts' *)
(* execution locks.                                                        *)
(*                                                                         *)
(* The paymaster is bound to this core (authorizedCore), so only           *)
(* settlements of frames reach SettleReimbursement.                        *)
(***************************************************************************)
EXTENDS Integers, Sequences, FiniteSetsExt

CONSTANTS
  Account,      \* abstract accounts
  Sponsor,      \* principals that deposit GAS and set policies
  Relay,        \* principals that send sponsored operations
  Global,       \* UInt160.Zero as an account id: the sponsor's global policy
  Paymaster,    \* the paymaster's script hash
  None,         \* a missing storage entry
  Operation,    \* kinds of operation: target contract and method
  Policy,       \* policies in use
  Amount,       \* deposits, withdrawals and requests in use
  Fee,          \* system fee plus network fee of a transaction
  Day,          \* OneDayMs
  VmMax,        \* largest integer of the VM
  Funds,        \* GAS of each principal at the start
  MaxTime, MaxTx, MaxNesting  \* bounds: block time, transactions, frames

Scope == Account \cup {Global}

(* Target and method restrict a policy to a set of operations; a budget or  *)
(* expiry of zero is none.                                                  *)
SponsorshipPolicy ==
  [allows: SUBSET Operation, maxPerOp: Nat \ {0}, dailyBudget: Nat,
   totalBudget: Nat, validUntil: Nat]

ASSUME SponsorshipAssumption ==
  /\ Policy \subseteq SponsorshipPolicy
  /\ Amount \subseteq Nat \ {0} /\ Fee \subseteq Nat
  /\ IsFiniteSet(Sponsor)
  /\ Day \in Nat \ {0} /\ VmMax \in Nat /\ Funds \in Nat
  /\ MaxTime \in Nat /\ Day <= MaxTime /\ MaxTx \in Nat /\ MaxNesting \in Nat
  /\ Paymaster \notin Sponsor \cup Relay /\ Global \notin Account

Time == 0 .. MaxTime
Principal == Sponsor \cup Relay

VARIABLES
  now,         \* Runtime.Time
  deposit,     \* GAS deposit of each sponsor
  policy,      \* policy of each sponsor per scope
  dailySpent, dailyReset, totalSpent,  \* spending counters per sponsor, scope
  reservation, \* TransactionReimbursement: hash and amount reserved
  gas,         \* GAS balances
  tx,          \* transaction in progress
  txCount,     \* transactions begun; a transaction's hash is its number
  frames,      \* sponsored operations that execute, newest last
  paid,        \* history: reimbursed in this transaction
  spent        \* history: reimbursed per sponsor, scope and time since RevokePolicy

counters == <<dailySpent, dailyReset, totalSpent, spent>>
paymasterVars == <<deposit, policy, counters, gas>>
coreVars == <<reservation, frames, paid>>
vars == <<now, paymasterVars, coreVars, tx, txCount>>

PerScope(x) == [s \in Sponsor |-> [k \in Scope |-> x]]
Idle == tx = None

Init ==
  /\ now = Day
  /\ deposit = [s \in Sponsor |-> 0]
  /\ policy = PerScope(None)
  /\ dailySpent = PerScope(0) /\ dailyReset = PerScope(0) /\ totalSpent = PerScope(0)
  /\ reservation = [hash |-> 0, reserved |-> 0]
  /\ gas = [p \in Principal \cup {Paymaster} |-> IF p = Paymaster THEN 0 ELSE Funds]
  /\ tx = None /\ txCount = 0
  /\ frames = <<>>
  /\ paid = 0
  /\ spent = PerScope([t \in Time |-> 0])

-----------------------------------------------------------------------------
(* Transactions *)

Tick ==
  /\ Idle /\ now < MaxTime
  /\ now' = now + 1
  /\ UNCHANGED <<paymasterVars, coreVars, tx, txCount>>

Snapshot ==
  [deposit |-> deposit, policy |-> policy, counters |-> counters, gas |-> gas,
   reservation |-> reservation, paid |-> paid]

Restore(saved) ==
  /\ deposit' = saved.deposit /\ policy' = saved.policy
  /\ dailySpent' = saved.counters[1] /\ dailyReset' = saved.counters[2]
  /\ totalSpent' = saved.counters[3] /\ spent' = saved.counters[4]
  /\ gas' = saved.gas /\ reservation' = saved.reservation /\ paid' = saved.paid

(* The sender is the relay of every operation in the transaction.           *)
Begin(sender, fee) ==
  /\ Idle /\ txCount < MaxTx
  /\ tx' = [sender |-> sender, fee |-> fee, saved |-> Snapshot]
  /\ txCount' = txCount + 1
  /\ UNCHANGED <<now, paymasterVars, coreVars>>

(* A transaction without fees is an estimation that never reaches a block.  *)
Commit ==
  /\ ~Idle /\ frames = <<>> /\ tx.fee > 0
  /\ tx' = None /\ paid' = 0
  /\ UNCHANGED <<now, paymasterVars, reservation, frames, txCount>>

Abort ==
  /\ ~Idle
  /\ Restore(tx.saved)
  /\ frames' = <<>> /\ tx' = None
  /\ UNCHANGED <<now, txCount>>

(* An exception of an operation's target or plugin, caught by the contract  *)
(* that called frame i: everything since is undone.                         *)
Throw(i) ==
  /\ ~Idle
  /\ Restore(frames[i].saved)
  /\ frames' = SubSeq(frames, 1, i - 1)
  /\ UNCHANGED <<now, tx, txCount>>

-----------------------------------------------------------------------------
(* Deposits and policies *)

Transfer(from, to, amount) ==
  /\ gas[from] >= amount
  /\ gas' = [gas EXCEPT ![from] = @ - amount, ![to] = @ + amount]

OnNEP17Payment_Overwrites(from, amount) ==
  /\ ~Idle
  /\ Transfer(from, Paymaster, amount)
  /\ deposit' = [deposit EXCEPT ![from] = amount]
  /\ UNCHANGED <<now, policy, counters, coreVars, tx, txCount>>
OnNEP17Payment(from, amount) ==
  /\ ~Idle
  /\ Transfer(from, Paymaster, amount)
  /\ deposit' = [deposit EXCEPT ![from] = @ + amount]
  /\ UNCHANGED <<now, policy, counters, coreVars, tx, txCount>>

WithdrawDeposit(amount) ==
  /\ ~Idle /\ tx.sender \in Sponsor
  /\ amount <= deposit[tx.sender]
  /\ deposit' = [deposit EXCEPT ![tx.sender] = @ - amount]
  /\ Transfer(Paymaster, tx.sender, amount)
  /\ UNCHANGED <<now, policy, counters, coreVars, tx, txCount>>

(* A policy for every account must have both budgets; a new one inherits    *)
(* the counters of the one it replaces.                                     *)
SetPolicy(scope, p) ==
  /\ ~Idle /\ tx.sender \in Sponsor
  /\ scope = Global => p.dailyBudget > 0 /\ p.totalBudget > 0
  /\ policy' = [policy EXCEPT ![tx.sender][scope] = p]
  /\ UNCHANGED <<now, deposit, counters, gas, coreVars, tx, txCount>>

ClearSpendingCounters(s, scope) ==
  /\ dailySpent' = [dailySpent EXCEPT ![s][scope] = 0]
  /\ dailyReset' = [dailyReset EXCEPT ![s][scope] = 0]
  /\ totalSpent' = [totalSpent EXCEPT ![s][scope] = 0]
  /\ spent' = [spent EXCEPT ![s][scope] = [t \in Time |-> 0]]

RevokePolicy(scope) ==
  /\ ~Idle /\ tx.sender \in Sponsor
  /\ policy' = [policy EXCEPT ![tx.sender][scope] = None]
  /\ ClearSpendingCounters(tx.sender, scope)
  /\ UNCHANGED <<now, deposit, gas, coreVars, tx, txCount>>

-----------------------------------------------------------------------------
(* Settlement in the paymaster *)

(* The account's own policy, expired or not, hides the global one; spending *)
(* counts against the policy that applies.                                  *)
SpendingKey(s, a) == IF policy[s][a] # None THEN a ELSE Global
ResolvePolicy(s, a) == policy[s][SpendingKey(s, a)]

WindowOver_Early(s, key) == now >= dailyReset[s][key] + Day - 1
WindowOver(s, key) == now >= dailyReset[s][key] + Day

GetDailySpent(s, key) == IF WindowOver(s, key) THEN 0 ELSE dailySpent[s][key]

(* ValidatePaymasterOp: the relay's preflight. *)
ValidatePaymasterOp_CountsPerAccount(s, a, op, amount) ==
  LET p == ResolvePolicy(s, a)
  IN /\ amount > 0
     /\ p # None
     /\ p.validUntil > 0 => now <= p.validUntil
     /\ op \in p.allows
     /\ amount <= p.maxPerOp
     /\ p.dailyBudget > 0 => GetDailySpent(s, a) + amount <= p.dailyBudget
     /\ p.totalBudget > 0 => totalSpent[s][a] + amount <= p.totalBudget
     /\ deposit[s] >= amount
ValidatePaymasterOp(s, a, op, amount) ==
  LET p   == ResolvePolicy(s, a)
      key == SpendingKey(s, a)
  IN /\ amount > 0
     /\ p # None
     /\ p.validUntil > 0 => now <= p.validUntil
     /\ op \in p.allows
     /\ amount <= p.maxPerOp
     /\ p.dailyBudget > 0 => GetDailySpent(s, key) + amount <= p.dailyBudget
     /\ p.totalBudget > 0 => totalSpent[s][key] + amount <= p.totalBudget
     /\ deposit[s] >= amount

(* The assertions of SettleReimbursement. *)
SettlementAccepted(s, a, op, amount) ==
  LET p   == ResolvePolicy(s, a)
      key == SpendingKey(s, a)
  IN /\ amount > 0
     /\ p # None
     /\ ~(p.validUntil > 0 /\ now > p.validUntil)
     /\ op \in p.allows
     /\ amount <= p.maxPerOp
     /\ p.dailyBudget = 0 \/ GetDailySpent(s, key) + amount <= p.dailyBudget
     /\ p.totalBudget = 0 \/ totalSpent[s][key] + amount <= p.totalBudget
     /\ amount <= deposit[s]

UpdateDailySpent_WindowNotStarted(s, key, amount) ==
  /\ UNCHANGED dailyReset
  /\ dailySpent' = [dailySpent EXCEPT ![s][key] =
                      (IF WindowOver(s, key) THEN 0 ELSE @) + amount]
UpdateDailySpent(s, key, amount) ==
  /\ dailyReset' = IF WindowOver(s, key)
                   THEN [dailyReset EXCEPT ![s][key] = now] ELSE dailyReset
  /\ dailySpent' = [dailySpent EXCEPT ![s][key] =
                      (IF WindowOver(s, key) THEN 0 ELSE @) + amount]

UpdateTotalSpent(s, key, amount) ==
  totalSpent' = [totalSpent EXCEPT ![s][key] = @ + amount]

SettleReimbursement(s, a, op, relay, amount) ==
  LET key == SpendingKey(s, a) IN
  /\ SettlementAccepted(s, a, op, amount)
  /\ deposit' = [deposit EXCEPT ![s] = @ - amount]
  /\ UpdateDailySpent(s, key, amount)
  /\ UpdateTotalSpent(s, key, amount)
  /\ Transfer(Paymaster, relay, amount)
  /\ spent' = [spent EXCEPT ![s][key][now] = @ + amount]
  /\ UNCHANGED policy

-----------------------------------------------------------------------------
(* Sponsored operations in the wallet *)

Lesser(x, y)  == IF x < y THEN x ELSE y
Greater(x, y) == IF x > y THEN x ELSE y

(* What this transaction has reserved: another hash starts again at zero.   *)
Reserved == IF reservation.hash = txCount THEN reservation.reserved ELSE 0

(* CapReimbursementToActualCost: at most what the fees have left. *)
Settled(requested) ==
  LET estimationFlag == 1 - Lesser(tx.fee, 1)
      cap == Greater(tx.fee - Reserved, 0) + estimationFlag * requested
  IN Lesser(requested, cap)

Reserve_Forgotten(amount) == UNCHANGED reservation
Reserve_Unbounded(amount) ==
  reservation' = [hash |-> txCount, reserved |-> Reserved + amount]
Reserve(amount) ==
  /\ Reserved <= VmMax - amount
  /\ reservation' = [hash |-> txCount, reserved |-> Reserved + amount]

(* Up to the execution of the operation (or of a batch on one target and    *)
(* method, which settles once).                                             *)
ExecuteSponsoredUserOp(a, op, s, requested) ==
  LET amount == Settled(requested) IN
  /\ ~Idle /\ tx.sender \in Relay /\ Len(frames) < MaxNesting
  /\ \A i \in DOMAIN frames : frames[i].account # a
  /\ amount > 0
  /\ Reserve(amount)
  /\ frames' = Append(frames,
       [account |-> a, op |-> op, sponsor |-> s, amount |-> amount,
        saved |-> Snapshot])
  /\ UNCHANGED <<now, paymasterVars, tx, txCount, paid>>

(* The operation is done: the paymaster settles with the relay. *)
SettleSponsoredUserOp ==
  LET frame == frames[Len(frames)] IN
  /\ ~Idle /\ frames # <<>>
  /\ SettleReimbursement(frame.sponsor, frame.account, frame.op, tx.sender, frame.amount)
  /\ frames' = SubSeq(frames, 1, Len(frames) - 1)
  /\ paid' = paid + frame.amount
  /\ UNCHANGED <<now, reservation, tx, txCount>>

Next ==
  \/ Tick \/ Commit \/ Abort
  \/ \E p \in Principal, fee \in Fee : Begin(p, fee)
  \/ \E p \in Sponsor, x \in Amount : OnNEP17Payment(p, x)
  \/ \E x \in Amount : WithdrawDeposit(x)
  \/ \E k \in Scope : RevokePolicy(k) \/ \E p \in Policy : SetPolicy(k, p)
  \/ \E a \in Account, op \in Operation, s \in Sponsor, x \in Amount :
       ExecuteSponsoredUserOp(a, op, s, x)
  \/ SettleSponsoredUserOp
  \/ \E i \in DOMAIN frames : Throw(i)

Spec == Init /\ [][Next]_vars
-----------------------------------------------------------------------------
(* Safety *)

SponsorshipTypeOK ==
  /\ now \in Nat /\ txCount \in Nat /\ paid \in Nat
  /\ deposit \in [Sponsor -> Nat]
  /\ policy \in [Sponsor -> [Scope -> Policy \cup {None}]]
  /\ dailySpent \in [Sponsor -> [Scope -> Nat]]
  /\ dailyReset \in [Sponsor -> [Scope -> Time]]
  /\ totalSpent \in [Sponsor -> [Scope -> Nat]]
  /\ spent \in [Sponsor -> [Scope -> [Time -> Nat]]]
  /\ reservation \in [hash: 0 .. txCount, reserved: 0 .. VmMax]
  /\ gas \in [Principal \cup {Paymaster} -> Nat]

SumOver(f, S) == MapThenSumSet(LAMBDA x : f[x], S)

(* The paymaster holds exactly the GAS its sponsors have left: no order of  *)
(* deposits, withdrawals and nested settlements spends one sponsor's GAS    *)
(* for another.                                                             *)
DepositsBacked == gas[Paymaster] = SumOver(deposit, Sponsor)

(* A relay is never reimbursed more than the fees it paid, however its      *)
(* operations nest and whoever sponsors them; what executing operations     *)
(* have been promised is included.                                          *)
ReimbursedAtMostFees ==
  ~Idle /\ tx.fee > 0 =>
    paid + SumOver([i \in DOMAIN frames |-> frames[i].amount], DOMAIN frames) <= tx.fee

(* The counters hold what was paid: in total since the policy was revoked,  *)
(* per day since the window opened.                                         *)
CountersMatchHistory ==
  \A s \in Sponsor, k \in Scope :
    /\ totalSpent[s][k] = SumOver(spent[s][k], Time)
    /\ dailySpent[s][k] = SumOver(spent[s][k], dailyReset[s][k] .. MaxTime)

(* The paymaster's books agree with its GAS and with what it has paid.      *)
BooksBalance == SponsorshipTypeOK /\ DepositsBacked /\ CountersMatchHistory

-----------------------------------------------------------------------------
(* What a step may never do *)

PromiseStands ==
  \A s \in Sponsor, a \in Account, op \in Operation, x \in Amount :
    ValidatePaymasterOp(s, a, op, x) /\ ~SettlementAccepted(s, a, op, x)' =>
      \/ deposit'[s] < deposit[s] \/ policy'[s] # policy[s]
      \/ totalSpent'[s] # totalSpent[s]
      \/ ResolvePolicy(s, a).validUntil \in now .. now' - 1

(* A relay that was told yes by the preflight is paid by the settlement,    *)
(* which has a copy of the rules, whatever others did in between: only the  *)
(* sponsor's own deposit, policies or spending, or the policy's expiry, can *)
(* turn it into a refusal.                                                  *)
PreflightHolds == [][PromiseStands]_vars

Paying(s, k) == paid' > paid /\ spent'[s][k][now] > spent[s][k][now]

BudgetKept ==
  \A s \in Sponsor, k \in Scope : Paying(s, k) =>
    LET p == policy[s][k]
        opened == dailyReset'[s][k]
    IN /\ p.totalBudget > 0 => SumOver(spent'[s][k], Time) <= p.totalBudget
       /\ p.dailyBudget > 0 => SumOver(spent'[s][k], opened .. now) <= p.dailyBudget
       /\ opened # dailyReset[s][k] => opened >= dailyReset[s][k] + Day
       /\ opened > now - Day

(* A sponsor pays only what the policy in force allows for everything paid  *)
(* in its scope, under earlier policies included: in total since it was     *)
(* revoked, and per window of a day, where windows do not overlap.          *)
PaymentsWithinBudget == [][BudgetKept]_vars
=============================================================================
