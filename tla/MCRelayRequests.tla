--------------------------- MODULE MCRelayRequests ---------------------------
(* Small instances of RelayRequests for TLC. *)
EXTENDS RelayRequests, TLC

CONSTANTS r1, r2, k1, k2, c1, c2, a1, gas, n1, n2

Op(target, method, from) == [target |-> target, method |-> method, from |-> from]
Configure == Op(Core, "arm", a1)
Move(from) == Op(gas, "transfer", from)
Call(entry, list) == [contract |-> Core, operation |-> entry, account |-> a1, ops |-> list]

Meta(invocation) ==
  [raw |-> FALSE, simulate |-> FALSE, network |-> "mainnet", user |-> Null,
   nonce |-> n1, invocation |-> invocation]
Single == Meta(Call("executeUserOp", <<Configure>>))
Proxied == Meta(Call("executeUserOps", <<Move(Proxy), Move(a1)>>))
Mixed == Meta(Call("executeUserOps", <<Move(Proxy), Configure>>))
Raw == [Single EXCEPT !.raw = TRUE]
Simulation(body) == [body EXCEPT !.simulate = TRUE]

Asks(key, client, body) == [key |-> key, client |-> client, body |-> body]
Once(body) == r1 :> Asks(k1, c1, body) @@ r2 :> Null
Twice(body) == r1 :> Asks(k1, c1, body) @@ r2 :> Asks(k1, c1, body)
Both(one, two) == r1 :> Asks(k1, c1, one) @@ r2 :> Asks(k2, c2, two)

Sponsoring ==
  [upstash |-> TRUE, production |-> TRUE, rpcUrl |-> TRUE, wif |-> TRUE,
   network |-> "mainnet", clientNetwork |-> FALSE, rawForward |-> TRUE,
   paymaster |-> TRUE, unsponsored |-> FALSE, proxyWitness |-> TRUE,
   scope |-> gas, reserve |-> 1,
   maxSystem |-> Null, maxNetwork |-> 2, maxTotal |-> Null]
Local == [Sponsoring EXCEPT !.upstash = FALSE, !.production = FALSE]
Unsponsored ==
  [Local EXCEPT !.paymaster = FALSE, !.unsponsored = TRUE, !.maxSystem = 1, !.maxTotal = 2]

In(d, asked) == {[deployment |-> d, ask |-> asked]}

(* A retry under the same key, on each kind of deployment; then two         *)
(* clients, and every refusal.                                              *)
Scenes ==
  In(Sponsoring, Twice(Single))
  \cup In([Sponsoring EXCEPT !.production = FALSE], Twice(Raw))
  \cup In(Unsponsored, Twice(Single))
  \cup In(Local, Both(Proxied, Simulation(Proxied)))
  \cup In(Local, Both(Mixed, Meta(Call("executeSponsoredUserOp", <<Move(Proxy)>>))))
  \cup In(Local, Both(Simulation(Raw), [Raw EXCEPT !.invocation = Null]))
  \cup In([Local EXCEPT !.reserve = Null], Once(Proxied))
  \cup In([Local EXCEPT !.maxNetwork = Null], Both(Simulation(Single), Single))
  \cup In([Local EXCEPT !.paymaster = FALSE, !.rawForward = FALSE],
          Both(Simulation(Single), Raw))
  \cup In([Local EXCEPT !.paymaster = FALSE], Once(Single))
  \cup In([Local EXCEPT !.wif = FALSE], Both(Single, Meta(Null)))
  \cup In([Local EXCEPT !.rpcUrl = FALSE],
          r1 :> Asks(k1, None, Single) @@ r2 :> Asks(k2, c1, Raw))
  \cup In(Local, Both(Meta(Call("transfer", <<Configure>>)),
                      Meta([Call("executeUserOp", <<Configure>>) EXCEPT !.contract = gas])))
=============================================================================
