--------------------------- MODULE RelayRequests ---------------------------
(***************************************************************************)
(* POST /api/relay-transaction: the relay signs and pays for a client's    *)
(* meta invocation, or forwards a raw transaction, or only simulates.      *)
(* Requests are those of DurableRequests; here are the route's own phases, *)
(* one for each service it awaits, and the chain it sends to.              *)
(*                                                                         *)
(* A body is [raw, simulate, network, user, nonce, invocation]: the network *)
(* and the idempotency key its client names, the nonce its operation        *)
(* consumes and its invocation, Null when it is malformed.  The chain       *)
(* executes a nonce once; every further transaction that carries it faults  *)
(* and burns its fee.                                                       *)
(***************************************************************************)
EXTENDS DurableRequests, RelayEnvelope

CONSTANTS
  Nonce,        \* nonces of user operations
  Fee,          \* fees a simulation or the fee calculator returns
  Approval      \* ceilings an approval may carry; None: it carries none

VARIABLES
  approvedMax,  \* ceiling of the approval each request obtained
  approved,     \* what the paymaster approved for each request
  priced,       \* fees of the transaction each request has signed
  sent,         \* history: transactions accepted by the node
  executed      \* nonces the chain has executed

relayVars == <<approvedMax, approved, priced, sent, executed>>
vars == <<deployment, ask, durableVars, limiterVars, requestVars, relayVars>>

NoFee == [system |-> 0, network |-> 0]

(* resolveRelayExecutionConfig, resolvePaymasterConfig and the fee caps:    *)
(* server settings only.  None is a cap that is not configured.             *)
Settings ==
  [upstash: BOOLEAN, production: BOOLEAN, rpcUrl: BOOLEAN, wif: BOOLEAN,
   network: STRING, clientNetwork: BOOLEAN, rawForward: BOOLEAN,
   paymaster: BOOLEAN, unsponsored: BOOLEAN, proxyWitness: BOOLEAN,
   scope: Contract \cup {Null}, reserve: Nat \cup {None},
   maxSystem: Nat \cup {None}, maxNetwork: Nat \cup {None}, maxTotal: Nat \cup {None}]

(* deriveIdempotencyKey over relayFingerprint: the client's key, if any,    *)
(* and the body but for the network it names.                               *)
RelayKey(body) ==
  <<body.user, body.raw, body.simulate, body.nonce, body.invocation>>

Asked(s) == {r \in Request : s.ask[r] # None}

ASSUME RelayAssumption ==
  /\ \A s \in Scene :
       /\ s.deployment \in Settings
       /\ \A r, q \in Asked(s) :
            /\ s.ask[r].key \in Key /\ s.ask[r].client \in Client \cup {None}
            /\ s.ask[r].key = s.ask[q].key
                 <=> RelayKey(s.ask[r].body) = RelayKey(s.ask[q].body)
  /\ MaxRequests \in Nat \ {0} /\ MaxEntries \in Nat \ {0}
  /\ None \notin Request /\ Fee \subseteq Nat /\ Approval \subseteq Nat \cup {None}

Init ==
  /\ DurableInit
  /\ approvedMax = [r \in Request |-> None]
  /\ approved = [r \in Request |-> Null]
  /\ priced = [r \in Request |-> NoFee]
  /\ sent = {}
  /\ executed = {}

Fails_Completed(r, status, kind) == Judge(r, "complete", Verdict(r, status, kind))
Fails(r, status, kind) == Judge(r, "fail", Verdict(r, status, kind))
Completes(r, kind) == Judge(r, "complete", Verdict(r, 200, kind))

Within(fee, cap) == cap # None => fee <= cap

FeesAllowed_IgnoresApproval(fee, approval) ==
  /\ Within(fee.system, deployment.maxSystem)
  /\ Within(fee.network, deployment.maxNetwork)
  /\ Within(fee.system + fee.network, deployment.maxTotal)

(* enforceRelayFeePolicy *)
FeesAllowed(fee, approval) ==
  /\ Within(fee.system, deployment.maxSystem)
  /\ Within(fee.network, deployment.maxNetwork)
  /\ Within(fee.system + fee.network, deployment.maxTotal)
  /\ Within(fee.system + fee.network, approval)

Body(r) == ask[r].body

(* resolveNetwork: the client chooses only where that is switched on, and   *)
(* never in production.                                                     *)
NetworkOf(body) ==
  IF deployment.clientNetwork /\ ~deployment.production /\ body.network # None
  THEN body.network ELSE deployment.network

(* resolveInvocationWitnesses: Null when it throws. *)
WitnessesOf(inv) ==
  LET auth == Authority(inv, deployment.proxyWitness, deployment.scope, Proxy, RelayAccount) IN
  IF /\ auth # Null /\ auth.witness
     /\ \/ deployment.reserve = None
        \/ deployment.maxNetwork = None /\ deployment.maxTotal = None
  THEN Null ELSE auth

(* A proxy witness adds the operator's reserve to the calculated fee. *)
NetworkFee(inv, estimate) ==
  IF WitnessesOf(inv).witness THEN estimate + deployment.reserve ELSE estimate

HasFeeCeiling ==
  \E cap \in {deployment.maxSystem, deployment.maxNetwork, deployment.maxTotal} : cap # None

-----------------------------------------------------------------------------
(* The handler *)

(* The checks between the limiter and the first service, in their order. *)
Validate(r) ==
  /\ phase[r] = "route"
  /\ LET b == Body(r) IN
     IF ~deployment.rpcUrl THEN Fails(r, 501, "not_configured")
     ELSE IF b.raw THEN
       IF ~deployment.rawForward THEN Fails(r, 403, "not_enabled")
       ELSE IF b.invocation = Null THEN Fails(r, 400, "invalid")
       ELSE IF b.simulate THEN Completes(r, "unsupported")
       ELSE Go(r, "forward")
     ELSE IF ~Relayable(b.invocation) THEN Fails(r, 400, Refusal(b.invocation))
     ELSE IF ~deployment.wif THEN Fails(r, 501, "not_configured")
     ELSE IF ~b.simulate /\ ~deployment.paymaster /\ ~deployment.unsponsored
       THEN Fails(r, 402, "denied")
     ELSE IF ~b.simulate /\ ~HasFeeCeiling THEN Fails(r, 400, "no_ceiling")
     ELSE Go(r, "preview")
  /\ UNCHANGED <<durableVars, limiterVars, relayVars>>

(* What simulating an invocation can return: a spent nonce faults, a        *)
(* transfer may return false (transferRefusal).                             *)
Simulated(body) ==
  LET n == Len(body.invocation.ops)
      heads == {[array |-> body.invocation.operation \in BatchCalls, items |-> items]
                  : items \in [1 .. n -> {"false", "true"}]}
  IN IF body.nonce \in executed THEN {"fault"}
     ELSE {"fault"} \cup {IF FailedInSimulation(body.invocation, h) # {}
                          THEN "refused" ELSE "halt" : h \in heads}

(* simulateMetaInvocation; a node that cannot be read throws, and so does   *)
(* an envelope that no witness may cover.                                   *)
Preview(r) ==
  /\ phase[r] = "preview"
  /\ \/ \E result \in Simulated(Body(r)) :
          /\ WitnessesOf(Body(r).invocation) # Null
          /\ IF result = "halt" \/ Body(r).simulate
             THEN Judge(r, "authorize", Verdict(r, 200, result))
             ELSE Completes(r, "refused")
     \/ Fails(r, 502, "error")
  /\ UNCHANGED <<durableVars, limiterVars, relayVars>>

(* maybeAuthorizePaymaster and verifyPaymasterApproval: an approval is      *)
(* positive, echoes the hash of the request and may carry a ceiling.        *)
(* Without a paymaster a simulation alone may still be denied.              *)
Authorize(r) ==
  /\ phase[r] = "authorize"
  /\ LET request == PaymasterRequest(Body(r).invocation)
         after == IF Body(r).simulate THEN Go(r, "complete") ELSE Go(r, "price")
         denied == IF Body(r).simulate THEN Completes(r, "denied") ELSE Fails(r, 402, "denied")
     IN \/ /\ deployment.paymaster
           /\ \/ \E hash \in {Null, Body(r).invocation}, max \in Approval :
                   IF request # Null /\ hash = request.hash
                   THEN /\ approved' = [approved EXCEPT ![r] = request]
                        /\ approvedMax' = [approvedMax EXCEPT ![r] = max]
                        /\ after
                   ELSE Fails(r, 502, "error") /\ UNCHANGED <<approved, approvedMax>>
              \/ request # Null /\ denied /\ UNCHANGED <<approved, approvedMax>>
              \/ Fails(r, 502, "error") /\ UNCHANGED <<approved, approvedMax>>
        \/ /\ ~deployment.paymaster
           /\ IF deployment.unsponsored THEN after ELSE denied
           /\ UNCHANGED <<approved, approvedMax>>
  /\ UNCHANGED <<durableVars, limiterVars, priced, sent, executed>>

(* relayMetaInvocation up to the signature: the operation is simulated once *)
(* more, and the fees of that simulation are the ones the transaction pays. *)
Price(r) ==
  /\ phase[r] = "price"
  /\ \/ \E result \in Simulated(Body(r)), s, n \in Fee :
          LET fee == [system |-> s, network |-> NetworkFee(Body(r).invocation, n)] IN
          \/ result = "fault" /\ Fails(r, 502, "error") /\ UNCHANGED priced
          \/ result = "refused" /\ Completes(r, "refused") /\ UNCHANGED priced
          \/ /\ result = "halt"
             /\ IF FeesAllowed(fee, approvedMax[r])
                THEN priced' = [priced EXCEPT ![r] = fee] /\ Go(r, "send")
                ELSE Fails(r, 502, "error") /\ UNCHANGED priced
     \/ Fails(r, 502, "error") /\ UNCHANGED priced
  /\ UNCHANGED <<durableVars, limiterVars, approvedMax, approved, sent, executed>>

Submit_ErrorIgnored(r) ==
  /\ phase[r] \in {"send", "forward"}
  /\ \/ sent' = sent \cup {r} /\ (Completes(r, "sent") \/ Fails(r, 502, "error"))
     \/ UNCHANGED sent /\ Completes(r, "sent")
  /\ UNCHANGED <<durableVars, limiterVars, approvedMax, approved, priced, executed>>

(* sendRawTransaction, for the relay's transaction or the client's raw one: *)
(* the node takes it, refuses it, or takes it and its answer is lost.       *)
Submit(r) ==
  /\ phase[r] \in {"send", "forward"}
  /\ \/ sent' = sent \cup {r} /\ (Completes(r, "sent") \/ Fails(r, 502, "error"))
     \/ UNCHANGED sent /\ Fails(r, 502, "error")
  /\ UNCHANGED <<durableVars, limiterVars, approvedMax, approved, priced, executed>>

(* The chain executes a nonce that a transaction in its pool carries. *)
Execute(nonce) ==
  /\ nonce \notin executed
  /\ \E r \in sent : Body(r).nonce = nonce
  /\ executed' = executed \cup {nonce}
  /\ UNCHANGED <<durableVars, limiterVars, requestVars, approvedMax, approved, priced, sent>>

-----------------------------------------------------------------------------
(* The one completion outside a try block is the raw simulation's. *)
Caught(r) == ~(Body(r).raw /\ Body(r).simulate)

Await(r) ==
  \/ (Send(r) \/ LookUp(r) \/ Replay(r) \/ Claim(r) \/ Accept(r) \/ Limit(r) \/ Arm(r)
       \/ Complete(r, Caught(r)) \/ Completed(r, Caught(r)) \/ Fail(r) \/ Release(r))
     /\ UNCHANGED relayVars
  \/ Validate(r) \/ Preview(r) \/ Authorize(r) \/ Price(r) \/ Submit(r)

Expire ==
  /\ \/ \E k \in Key : LockExpires(k) \/ ResponseExpires(k)
     \/ \E c \in Client : WindowExpires(c) \/ HitExpires(c)
  /\ UNCHANGED relayVars

Next ==
  /\ \/ \E r \in Request : Await(r) \/ (Killed(r) /\ UNCHANGED relayVars)
     \/ \E nonce \in Nonce : Execute(nonce)
     \/ Expire
  /\ UNCHANGED <<deployment, ask>>

Spec == Init /\ [][Next]_vars

-----------------------------------------------------------------------------
(* Properties *)

Phases == Closed \cup
  {"lookup", "replay", "claim", "accept", "limit", "arm", "armFull", "route",
   "forward", "preview", "authorize", "price", "send",
   "complete", "completed", "fail", "release"}
Kinds ==
  {"sent", "halt", "fault", "refused", "denied", "error", "crashed", "busy", "limited",
   "not_configured", "not_enabled", "no_ceiling", "invalid", "malformed", "other_contract",
   "unsupported", None}
Verdicts == [status: Nat, kind: Kinds, by: Request \cup {None}]

(* Every variable keeps its type, and the instance's limiter holds each     *)
(* client once, none above the limit and no more clients than its bound.    *)
RelayTypeOK ==
  /\ lock \in [Key -> Request \cup {None}]
  /\ \A k \in Key : response[k] = None \/ response[k] \in Verdicts
  /\ journal \in [Request -> {None, "accepted", "replayed", "completed", "failed"}]
  /\ phase \in [Request -> Phases] /\ verdict \in [Request -> Verdicts]
  /\ window \in [Client -> [count: Nat, ttl: BOOLEAN]]
  /\ IsInjective([i \in DOMAIN memory |-> memory[i].client])
  /\ Len(memory) <= MaxEntries
  /\ \A i \in DOMAIN memory : memory[i].hits \in 0 .. MaxRequests
  /\ approvedMax \in [Request -> Approval \cup {None}]
  /\ \A r \in Request : approved[r] = Null \/ approved[r] = PaymasterRequest(Body(r).invocation)
  /\ priced \in [Request -> [system: Nat, network: Nat]]
  /\ sent \subseteq Request /\ executed \subseteq Nonce

(* A client can rely on what it is told: an answer that says a transaction  *)
(* was sent, replayed or not, comes from a request with the same key that   *)
(* sent one for the same operation; any other answer below 500 means that   *)
(* this request sent nothing.  (A 5xx may hide a transaction.)              *)
AnswersTellWhatWasSent ==
  \A r \in Request : phase[r] = "done" =>
    LET v == verdict[r] IN
    /\ v.kind = "sent" =>
         v.by \in sent /\ KeyOf(v.by) = KeyOf(r) /\ Body(v.by).nonce = Body(r).nonce
    /\ v.kind # "sent" /\ v.status < 500 => r \notin sent

(* What is stored for replay is the final answer of a request with that     *)
(* key: never an error, and never "not sent" by a request that did send.    *)
StoredAnswersAreFinal ==
  \A k \in Key : response[k] # None =>
    LET v == response[k] IN
    /\ KeyOf(v.by) = k /\ v.status = 200
    /\ v.kind = "sent" <=> v.by \in sent

(* The relay's own key signs only for what is paid for: the transaction's   *)
(* fees, taken from a simulation later than the approval, are within every  *)
(* configured cap and within the approval for this very invocation; and the *)
(* account's proxy signs along only inside the account's scope.             *)
RelayPaysWithinBounds ==
  \A r \in sent : ~Body(r).raw =>
    LET total == priced[r].system + priced[r].network IN
    /\ HasFeeCeiling /\ Body(r).invocation.contract = Core /\ ~Body(r).simulate
    /\ WitnessesOf(Body(r).invocation).rules \subseteq {Core, deployment.scope}
    /\ Within(priced[r].system, deployment.maxSystem)
    /\ Within(priced[r].network, deployment.maxNetwork)
    /\ Within(total, deployment.maxTotal)
    /\ IF deployment.paymaster
       THEN approved[r] # Null /\ approved[r].hash = Body(r).invocation /\ Within(total, approvedMax[r])
       ELSE deployment.unsponsored

(* AA-07: a production deployment whose Redis fails refuses requests; it    *)
(* never admits them on the count of a single instance.                     *)
ProductionCountsInRedis ==
  Store /\ deployment.production => memory = <<>>

(* The limiter's tables stay within their size, and are used only where     *)
(* they may be.                                                             *)
LimiterInBounds == RelayTypeOK /\ ProductionCountsInRedis
=============================================================================
