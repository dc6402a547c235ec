--------------------------- MODULE RelayEnvelope ---------------------------
(***************************************************************************)
(* What the relay, the wallet and the SDK all decide about an invocation   *)
(* of the account core before anybody signs it: whether it may be relayed, *)
(* what a paymaster is asked, which signers and witness it gets, and       *)
(* whether a result of it is a transfer that moved nothing.                *)
(*                                                                         *)
(* An invocation is [contract, operation, account, ops], its operations    *)
(* [target, method, from]; a stack item is "false", "true" or "other", and *)
(* the first one the VM returned is [array, items].                        *)
(***************************************************************************)
EXTENDS Integers, Sequences, FiniteSets, SequencesExt

CONSTANTS
  Core,       \* the configured account core
  Contract,   \* contracts an invocation or an operation may name
  Account,
  RelayAccount, \* the account of the relay's own key
  Proxy,      \* what a transfer from the account's own proxy address names
  Null        \* no value

SingleCalls == {"executeUserOp", "executeSponsoredUserOp"}
BatchCalls == {"executeUserOps", "executeSponsoredUserOps"}
EntryPoints == SingleCalls \cup BatchCalls
SponsoredCalls == {"executeSponsoredUserOp", "executeSponsoredUserOps"}

(* sanitizeMetaInvocationForRelay: well formed, the configured core, and an *)
(* operation its deployed ABI exports.                                      *)
Relayable(inv) ==
  /\ inv # Null
  /\ inv.contract = Core
  /\ inv.operation \in EntryPoints

(* resolveRelayMetaInvocationRefusal: the first reason that applies. *)
Refusal(inv) ==
  IF inv = Null THEN "malformed"
  ELSE IF inv.contract # Core THEN "other_contract"
  ELSE IF inv.operation \notin EntryPoints THEN "unsupported"
  ELSE Null

-----------------------------------------------------------------------------
(* What the paymaster is asked *)

(* A batch has a target and a method only when all its operations agree. *)
Common(inv, values) ==
  IF /\ inv.operation \in EntryPoints /\ values # <<>>
     /\ \A i \in DOMAIN values : values[i] = values[1]
  THEN values[1] ELSE Null

(* buildPaymasterRequest, Null when it throws. *)
PaymasterRequest(inv) ==
  LET targets == [i \in DOMAIN inv.ops |-> inv.ops[i].target]
      methods == [i \in DOMAIN inv.ops |-> inv.ops[i].method]
  IN IF inv.account = Null \/ Null \in {Common(inv, targets), Common(inv, methods)}
     THEN Null
     ELSE [account |-> inv.account, target |-> Common(inv, targets),
           method |-> Common(inv, methods), hash |-> inv,
           batch |-> IF inv.operation \in BatchCalls THEN Len(inv.ops) ELSE 0]

-----------------------------------------------------------------------------
(* The account's own witness *)

(* resolveProxyTransferWitness: which operations move an asset out of the   *)
(* account's proxy address.                                                 *)
ProxyTransfers(inv) ==
  {i \in DOMAIN inv.ops : inv.ops[i].method = "transfer" /\ inv.ops[i].from = Proxy}

FeePayerOnly(payer) == [signers |-> {payer}, rules |-> {}, witness |-> FALSE]

(* buildProxyWitnessTransaction: one account-bound call, whose operations   *)
(* all target the scope the core holds for the account; Null is a refusal.  *)
ProxyTransaction(inv, scope, proxyOfCore, payer) ==
  LET targets == {inv.ops[i].target : i \in DOMAIN inv.ops} IN
  IF /\ scope \notin {Null, Core}
     /\ inv.contract = Core /\ inv.operation \in EntryPoints \ SponsoredCalls
     /\ targets = {scope}
     /\ proxyOfCore = Proxy /\ payer # Proxy
  THEN [signers |-> {payer, Proxy}, rules |-> {Core, scope}, witness |-> TRUE]
  ELSE Null

(* The transaction's authority.  Scope and proxy address are read from the  *)
(* node that will receive it, never from the request.                       *)
Authority(inv, enabled, scope, proxyOfCore, payer) ==
  IF ~enabled \/ inv.operation \notin EntryPoints \/ ProxyTransfers(inv) = {}
  THEN FeePayerOnly(payer)
  ELSE ProxyTransaction(inv, scope, proxyOfCore, payer)

-----------------------------------------------------------------------------
(* Transfers that returned false *)

Methods(inv) ==
  IF inv.operation \in EntryPoints THEN [i \in DOMAIN inv.ops |-> inv.ops[i].method] ELSE <<>>

(* findFailedTransferResults: results that cannot be attributed to the      *)
(* operations all count once a transfer is among these.                     *)
FailedTransfers(methods, head, batch) ==
  LET results == IF batch /\ head.array THEN head.items
                 ELSE IF head.array THEN <<"other">> ELSE head.items
      false == {i \in DOMAIN results : results[i] = "false"}
  IN IF "transfer" \notin ToSet(methods) THEN {}
     ELSE IF Len(results) # Len(methods) THEN false
     ELSE {i \in false : methods[i] = "transfer"}

(* findFailedTransferInInvocation: what a simulation says. *)
FailedInSimulation(inv, head) ==
  FailedTransfers(Methods(inv), head, inv.operation \in BatchCalls)

(* findFailedTransferInExecution: what the log of a sent transaction says,  *)
(* its operations read from the UserOpExecuted events, nested ones first.   *)
FailedInLog(events, head) ==
  IF events = <<>> THEN {}
  ELSE IF head.array THEN FailedTransfers(events, head, TRUE)
  ELSE FailedTransfers(<<Last(events)>>, head, FALSE)
=============================================================================
