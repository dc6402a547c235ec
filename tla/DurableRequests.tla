-------------------------- MODULE DurableRequests --------------------------
(***************************************************************************)
(* How an API route remembers a request (requestDurability.js) and limits  *)
(* its callers (rateLimiter.js).  Both keep their state in Redis, reached  *)
(* over HTTP: other requests run between any two calls, a call may fail,   *)
(* its answer may be lost after it took effect, entries expire, and the    *)
(* serverless instance that runs a request may be killed.                  *)
(*                                                                         *)
(* A request moves through phases, one for each call it awaits.  A route   *)
(* takes over at "route" and hands back at "complete" or "fail" with its   *)
(* verdict.                                                                *)
(***************************************************************************)
EXTENDS Integers, Sequences, SequencesExt

CONSTANTS
  Request,      \* requests a client may send, retries included
  Key,          \* idempotency keys
  Client,       \* addresses the limiter tells apart
  None,
  MaxRequests,  \* MAX_REQUESTS
  MaxEntries,   \* AA_RATE_LIMIT_IN_MEMORY_MAX
  Scene         \* deployments with what their clients ask

VARIABLES
  deployment,   \* settings: [upstash, production, ...]
  ask,          \* what each request asks: [key, client, body]
  lock,         \* request lock of each key
  response,     \* stored response of each key
  journal,      \* journal entry of each request
  phase,        \* where a request is
  verdict,      \* what a request answers
  window,       \* Redis counter of each client: [count, ttl]
  memory        \* limiter of the instance: [client, hits], least recent first

durableVars == <<lock, response, journal>>
limiterVars == <<window, memory>>
requestVars == <<phase, verdict>>

KeyOf(r) == ask[r].key         \* None: replay is off
ClientOf(r) == ask[r].client   \* None: it has no address
NoVerdict == [status |-> 0, kind |-> None, by |-> None]
Verdict(r, status, kind) == [status |-> status, kind |-> kind, by |-> r]
Closed == {"absent", "unsent", "done", "killed"}
Store == deployment.upstash
Keyed(r) == Store /\ KeyOf(r) # None

DurableInit ==
  /\ \E s \in Scene : deployment = s.deployment /\ ask = s.ask
  /\ lock = [k \in Key |-> None]
  /\ response = [k \in Key |-> None]
  /\ journal = [r \in Request |-> None]
  /\ phase = [r \in Request |-> IF ask[r] = None THEN "absent" ELSE "unsent"]
  /\ verdict = [r \in Request |-> NoVerdict]
  /\ window = [c \in Client |-> [count |-> 0, ttl |-> FALSE]]
  /\ memory = <<>>

Go(r, p) == phase' = [phase EXCEPT ![r] = p] /\ UNCHANGED verdict
Judge(r, p, v) ==
  /\ phase' = [phase EXCEPT ![r] = p]
  /\ verdict' = [verdict EXCEPT ![r] = v]
Write(var, k, v) == [var EXCEPT ![k] = v]

(* An exception nobody catches: the platform answers 500. *)
Throw(r) == Judge(r, "done", Verdict(r, 500, "crashed"))

-----------------------------------------------------------------------------
(* beginDurableRequest *)

Send(r) ==
  /\ phase[r] = "unsent"
  /\ Go(r, IF Store THEN "lookup" ELSE "limit")
  /\ UNCHANGED <<durableVars, limiterVars>>

(* A failed read is taken for a miss; a read that times out throws. *)
LookUp(r) ==
  /\ phase[r] = "lookup"
  /\ \/ /\ Keyed(r) /\ response[KeyOf(r)] # None
        /\ Judge(r, "replay", response[KeyOf(r)])
     \/ Go(r, IF Keyed(r) THEN "claim" ELSE "accept")
     \/ Keyed(r) /\ Throw(r)
  /\ UNCHANGED <<durableVars, limiterVars>>

Replay(r) ==
  /\ phase[r] = "replay"
  /\ \/ journal' = Write(journal, r, "replayed") /\ Go(r, "done")
     \/ UNCHANGED journal /\ Throw(r)
  /\ UNCHANGED <<lock, response, limiterVars>>

(* SET NX: one of the requests with this key gets the lock. *)
Claim(r) ==
  /\ phase[r] = "claim"
  /\ LET k == KeyOf(r) IN
     \/ /\ lock[k] = None /\ lock' = Write(lock, k, r)
        /\ Go(r, "accept") \/ Throw(r)
     \/ lock[k] # None /\ UNCHANGED lock /\ Judge(r, "done", Verdict(r, 409, "busy"))
     \/ UNCHANGED lock /\ Throw(r)
  /\ UNCHANGED <<response, journal, limiterVars>>

Accept(r) ==
  /\ phase[r] = "accept"
  /\ \/ journal' = Write(journal, r, "accepted") /\ Go(r, "limit")
     \/ UNCHANGED journal /\ Throw(r)
  /\ UNCHANGED <<lock, response, limiterVars>>

-----------------------------------------------------------------------------
(* checkRateLimit *)

Refused(r, status) == Judge(r, "fail", Verdict(r, status, "limited"))

Places(c) == {i \in DOMAIN memory : memory[i].client = c}
Position(c) == IF Places(c) = {} THEN 0 ELSE CHOOSE i \in Places(c) : TRUE
Without(c) == IF Position(c) = 0 THEN memory ELSE RemoveAt(memory, Position(c))
Hits(c) == IF Position(c) = 0 THEN 0 ELSE memory[Position(c)].hits

CountInMemory_OneMore(r) ==
  LET c == ClientOf(r)
      counted == Append(Without(c), [client |-> c, hits |-> Hits(c) + 1])
  IN IF Hits(c) > MaxRequests
     THEN Refused(r, 429) /\ UNCHANGED memory
     ELSE memory' = counted /\ Go(r, "route")

(* rateLimitInMemory: a hit moves its client to the recent end, and the     *)
(* least recent client is forgotten when there are too many.                *)
CountInMemory(r) ==
  LET c == ClientOf(r)
      counted == Append(Without(c), [client |-> c, hits |-> Hits(c) + 1])
  IN IF Hits(c) >= MaxRequests
     THEN Refused(r, 429) /\ UNCHANGED memory
     ELSE /\ memory' = IF Len(counted) > MaxEntries THEN Tail(counted) ELSE counted
          /\ Go(r, "route")

Fallback_Always(r) == CountInMemory(r)

(* Redis is gone: production closes, any other deployment counts itself. *)
Fallback(r) ==
  IF Store /\ deployment.production
  THEN Refused(r, 503) /\ UNCHANGED memory
  ELSE CountInMemory(r)

(* A window that has no expiry yet gets one, in a second call. *)
Limit(r) ==
  /\ phase[r] = "limit"
  /\ LET c == ClientOf(r)
         full == window[c].count + 1 > MaxRequests
     IN IF c = None THEN Refused(r, 400) /\ UNCHANGED limiterVars
        ELSE \/ /\ Store
                /\ window' = [window EXCEPT ![c].count = @ + 1]
                /\ \/ /\ UNCHANGED memory
                      /\ IF ~window[c].ttl THEN Go(r, IF full THEN "armFull" ELSE "arm")
                         ELSE IF full THEN Refused(r, 429)
                         ELSE Go(r, "route")
                   \/ Fallback(r)
             \/ UNCHANGED window /\ Fallback(r)
  /\ UNCHANGED durableVars

(* PEXPIRE does nothing to a key that is gone; an error status is ignored.  *)
(* The count that decides is the one the first call returned.               *)
Arm(r) ==
  /\ phase[r] \in {"arm", "armFull"}
  /\ LET c == ClientOf(r) IN
     /\ \/ window[c].count > 0 /\ window' = [window EXCEPT ![c].ttl = TRUE]
        \/ UNCHANGED window
     /\ \/ UNCHANGED memory /\ IF phase[r] = "arm" THEN Go(r, "route") ELSE Refused(r, 429)
        \/ Fallback(r)
  /\ UNCHANGED durableVars

-----------------------------------------------------------------------------
(* completeDurableRequest and failDurableRequest; `caught` says whether the *)
(* route calls them inside its try block, whose handler fails the request.  *)

Lost(r, caught) ==
  IF caught THEN Judge(r, "fail", Verdict(r, 502, "error")) ELSE Throw(r)

Complete(r, caught) ==
  /\ phase[r] = "complete"
  /\ IF ~Store THEN Go(r, "done") /\ UNCHANGED response
     ELSE \/ /\ response' = IF Keyed(r) /\ verdict[r].status < 500
                            THEN Write(response, KeyOf(r), verdict[r]) ELSE response
             /\ Go(r, "completed") \/ Lost(r, caught)
          \/ UNCHANGED response /\ Lost(r, caught)
  /\ UNCHANGED <<lock, journal, limiterVars>>

Completed(r, caught) ==
  /\ phase[r] = "completed"
  /\ \/ journal' = Write(journal, r, "completed") /\ Go(r, "release")
     \/ UNCHANGED journal /\ Lost(r, caught)
  /\ UNCHANGED <<lock, response, limiterVars>>

Fail(r) ==
  /\ phase[r] = "fail"
  /\ \/ ~Store /\ UNCHANGED journal /\ Go(r, "done")
     \/ Store /\ journal' = Write(journal, r, "failed") /\ Go(r, "release")
     \/ Store /\ UNCHANGED journal /\ Throw(r)
  /\ UNCHANGED <<lock, response, limiterVars>>

(* DEL removes the lock whoever holds it; its failure is ignored. *)
Release(r) ==
  /\ phase[r] = "release"
  /\ \/ Keyed(r) /\ lock' = Write(lock, KeyOf(r), None)
     \/ UNCHANGED lock
  /\ Go(r, "done")
  /\ UNCHANGED <<response, journal, limiterVars>>

-----------------------------------------------------------------------------
(* Expiry and death *)

(* lockTtlMs is 30 s; each call a request awaits may take 15 s. *)
LockExpires(k) ==
  /\ lock[k] # None
  /\ lock' = Write(lock, k, None)
  /\ UNCHANGED <<response, journal, limiterVars, requestVars>>

ResponseExpires(k) ==
  /\ response[k] # None
  /\ response' = Write(response, k, None)
  /\ UNCHANGED <<lock, journal, limiterVars, requestVars>>

WindowExpires(c) ==
  /\ window[c].ttl
  /\ window' = [window EXCEPT ![c] = [count |-> 0, ttl |-> FALSE]]
  /\ UNCHANGED <<durableVars, memory, requestVars>>

HitExpires(c) ==
  /\ Hits(c) > 0
  /\ memory' = [memory EXCEPT ![Position(c)].hits = @ - 1]
  /\ UNCHANGED <<durableVars, window, requestVars>>

Killed(r) ==
  /\ phase[r] \notin Closed
  /\ Go(r, "killed")
  /\ UNCHANGED <<durableVars, limiterVars>>
=============================================================================
