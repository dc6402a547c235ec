--------------------------- MODULE SignedInvocation ---------------------------
(***************************************************************************)
(* What a draft submits: the one signed invocation that its transaction    *)
(* body and its signature records agree on, the payload built from it for  *)
(* the relay, and the invocation handed to a wallet                        *)
(* (features/operations/signedInvocation.js, execution.js).                *)
(*                                                                         *)
(* An invocation is a call of executeUserOp, for an account, of one        *)
(* operation, with a proof or without.  A record is sound unless some      *)
(* check of its metadata finds a mismatch: layout, network, signature      *)
(* bytes, nonce, deadline, typed data, verifier or recovered signer.       *)
(***************************************************************************)
EXTENDS Naturals, FiniteSets

CONSTANTS
  Null,                 \* no value
  Refused,              \* the code throws
  ProxyOps,             \* operations that move the account's own assets
  RelayRawEnabled,      \* runtime.relayRawEnabled
  RelayMetaEnabled,     \* runtime.relayMetaEnabled
  WalletAttachesProxy   \* walletService.supportsProxyWitness

Invocation(account, op, proof) == [account |-> account, op |-> op, proof |-> proof]

SameIntent(i, j) == i.account = j.account /\ i.op = j.op

(* The anchor carries both clientInvocation and v3Invocation, which every   *)
(* writer of a body sets together.                                          *)
StagedBody(account, op, raw, paymaster) ==
  [account |-> account, anchor |-> Invocation(account, op, Null),
   raw |-> raw, paymaster |-> paymaster]

Candidates(body, records) ==
  {r.invocation : r \in {s \in records : s.invocation # Null}}
    \cup (IF body.anchor.proof = Null THEN {} ELSE {body.anchor})

AgreesWith_AnyIntent(body, i) == i.proof # Null /\ i.account = body.account
AgreesWith(body, i) ==
  i.proof # Null /\ SameIntent(i, body.anchor) /\ i.account = body.account

SelectSignedInvocation(body, records) ==
  IF \/ body = Null
     \/ \E r \in records : r.invocation # Null /\ ~r.sound
     \/ \E i \in Candidates(body, records) : ~AgreesWith(body, i)
     \/ Cardinality(Candidates(body, records)) > 1
    THEN Refused
    ELSE IF Candidates(body, records) = {}
           THEN Null
           ELSE CHOOSE i \in Candidates(body, records) : TRUE

Selected(body, records) == SelectSignedInvocation(body, records) \notin {Null, Refused}

RelayPayloadOptions(body, records) ==
  IF SelectSignedInvocation(body, records) = Refused
    THEN {}
    ELSE {o \in {"raw", "meta"} :
            IF o = "raw" THEN body.raw /\ RelayRawEnabled ELSE Selected(body, records)}

ResolveRelayPayloadMode(mode, options) ==
  IF mode \in options THEN mode
  ELSE IF "raw" \in options THEN "raw"
  ELSE IF "meta" \in options THEN "meta" ELSE "none"

(* The payload of a relay request; preflight and submission build it alike. *)
BuildRelayRequest(mode, body, records) ==
  LET resolved == ResolveRelayPayloadMode(mode, RelayPayloadOptions(body, records))
      Request(content) ==
        [mode |-> resolved, content |-> content, paymaster |-> body.paymaster]
  IN  IF body # Null /\ body.raw /\ ~RelayRawEnabled /\ mode # "meta" THEN Refused
      ELSE IF resolved = "raw" THEN Request(body.anchor)
      ELSE IF resolved = "meta" THEN Request(SelectSignedInvocation(body, records))
      ELSE Refused

(* The relay answers by the transaction it would send, so the readiness of  *)
(* a payload is that of the raw transaction when there is one.              *)
PayloadReady(body, records) ==
  /\ SelectSignedInvocation(body, records) # Refused
  /\ IF body.raw THEN RelayRawEnabled ELSE Selected(body, records) /\ RelayMetaEnabled

(* The answer unlocks submission for the payload it was asked for only.     *)
CanRelayBroadcast_AnyPayload(mode, body, records, check, checkRequest) ==
  PayloadReady(body, records) /\ check = "ok" /\ checkRequest # Null
CanRelayBroadcast(mode, body, records, check, checkRequest) ==
  /\ PayloadReady(body, records)
  /\ check = "ok"
  /\ checkRequest # Null
  /\ BuildRelayRequest(mode, body, records) = checkRequest

(* What the client asks the wallet to invoke. *)
ClientInvocation(body, records) ==
  LET selected == SelectSignedInvocation(body, records)
      staged   == IF selected = Null THEN body.anchor ELSE selected
  IN  IF selected = Refused \/ (staged.op \in ProxyOps /\ ~WalletAttachesProxy)
        THEN Refused
        ELSE staged

(* A record a signer may leave: one per signer, the first one kept. *)
AppendSignature(records, r) ==
  IF \E s \in records : s.signer = r.signer THEN records ELSE records \cup {r}
===============================================================================
