-------------------------------- MODULE Gateway --------------------------------
(***************************************************************************)
(* gateway-service in front of auth-service: the rate limiter, the cache   *)
(* of auth-service's public keys, and the check of the access token, for   *)
(* several replicas of the gateway.  JWKS_URL is set; the URL leads to any *)
(* replica of auth-service, or the fetch fails.                            *)
(*                                                                         *)
(* The limiter counts one client's requests, in each gateway's memory or   *)
(* in Redis, where a key that has expired is gone.  The two limiters and   *)
(* the cache compare with the clock each in its own way.                   *)
(***************************************************************************)
EXTENDS Sessions

CONSTANTS
  Gateways,
  CacheTTL,    \* JWKS_CACHE_SECONDS
  Limit,       \* RATE_LIMIT_PER_MINUTE
  Window       \* its minute

\* Instead of a replica: the public keys cannot be fetched.
Failed == "failed"

ASSUME GatewayAssumption ==
  /\ Failed \notin Replicas /\ IsFiniteSet(Gateways)
  /\ CacheTTL \in Nat \ {0} /\ Limit \in Nat \ {0} /\ Window \in Nat \ {0}

VARIABLES
  keys,        \* keys[g]: the key ids in g's cache
  expires,     \* expires[g]: when the cache must be refreshed
  removed,     \* removed[k]: when the last replica serving k stopped, 0: never
  store,       \* "memory" or "redis" (REDIS_ADDR)
  window,      \* window[b]: count and end of the client's window in bucket b
  passed,      \* times at which a request of the client passed the limiter
  failedOpen   \* how many of them because Redis failed

cacheVars == <<keys, expires, removed>>
limiterVars == <<store, window, passed, failedOpen>>
vars == <<authVars, cacheVars, limiterVars>>

Bucket(g) == IF store = "redis" THEN "redis" ELSE g
Buckets == Gateways \union {"redis"}

TypeOK ==
  /\ AuthTypeOK
  /\ keys \in [Gateways -> SUBSET Kids]
  /\ expires \in [Gateways -> 0..(MaxTime + CacheTTL)]
  /\ removed \in [Kids -> 0..MaxTime]
  /\ store \in {"memory", "redis"}
  /\ window \in [Buckets -> [count: Nat, ends: 0..(MaxTime + Window)]]
  /\ passed \in Seq(0..MaxTime)
  /\ failedOpen \in 0..MaxInputs

------------------------------------------------------------------------------
(* The limiter.                                                             *)

\* now.After(v.resetTime), or the key is gone from Redis.
Closed(b) ==
  \/ window[b].count = 0
  \/ store = "memory" /\ now > window[b].ends
  \/ store = "redis" /\ now >= window[b].ends

LimitPlusOne(b) == window[b].count <= Limit
\* allow, and "count > limit" after INCR.
WithinLimit(b) == window[b].count < Limit

\* A refused request counts in Redis and not in memory.
Count(b) ==
  LET counted == WithinLimit(b) \/ store = "redis" IN
  window' = [window EXCEPT ![b] =
    IF Closed(b) THEN [count |-> 1, ends |-> now + Window]
    ELSE [count |-> window[b].count + (IF counted THEN 1 ELSE 0), ends |-> window[b].ends]]

Admits(b) == Closed(b) \/ WithinLimit(b)

------------------------------------------------------------------------------
(* JWKSClient.Get and requireAuth.                                          *)

KnownIsEnough(g, k) == k \in keys[g]
\* Before c.expires, and with a key of that id.
Cached(g, k) == now < expires[g] /\ k \in keys[g]

\* What refresh brings: the keys of a replica, or an error that leaves the old.
KeysAfter(g, f) == IF f = Failed THEN keys[g] ELSE JWKS(f)

GetWithinTTL(g, k, f) == IF now < expires[g] THEN k \in keys[g] ELSE k \in KeysAfter(g, f)
Get(g, k, f) == Cached(g, k) \/ k \in KeysAfter(g, f)

\* A token that has expired fails VerifyRS256, but its error is kept in a
\* variable of an inner block: requireAuth sees none, and panics on the claims
\* that are not there.  net/http aborts the request.
Verdict(g, j, f) ==
  IF ~Get(g, j.kid, f) THEN "unauthorized"
  ELSE IF now > j.exp THEN "aborted" ELSE "forwarded"

\* The cache after a request with a key id.
Refreshed(g, k, f) ==
  IF Cached(g, k) \/ f = Failed
  THEN UNCHANGED <<keys, expires>>
  ELSE /\ keys' = [keys EXCEPT ![g] = JWKS(f)]
       /\ expires' = [expires EXCEPT ![g] = now + CacheTTL]

------------------------------------------------------------------------------
(* Requests.                                                                *)

\* A request with access token j passes the limiter and is checked.  Requests
\* without a token, and those to the public routes, end after the limiter.
Visit(g, j, f) ==
  /\ Input
  /\ Admits(Bucket(g)) /\ Count(Bucket(g))
  /\ passed' = Append(passed, now)
  /\ Refreshed(g, j.kid, f)
  /\ UNCHANGED <<now, tableVars, signerVars, removed, store, failedOpen>>

VisitPublic(g) ==
  /\ Input
  /\ Admits(Bucket(g)) /\ Count(Bucket(g))
  /\ passed' = Append(passed, now)
  /\ UNCHANGED <<now, tableVars, signerVars, cacheVars, store, failedOpen>>

\* 429.
Refuse(g) ==
  /\ Input
  /\ ~Admits(Bucket(g)) /\ Count(Bucket(g))
  /\ UNCHANGED <<now, tableVars, signerVars, cacheVars, store, passed, failedOpen>>

\* Redis does not answer, and RATE_LIMIT_FAIL_OPEN has its default.
FailOpen(g) ==
  /\ Input
  /\ store = "redis"
  /\ passed' = Append(passed, now) /\ failedOpen' = failedOpen + 1
  /\ UNCHANGED <<now, tableVars, signerVars, cacheVars, store, window>>

------------------------------------------------------------------------------
Tick ==
  /\ now < MaxTime
  /\ now' = now + 1
  /\ UNCHANGED <<tableVars, signerVars, inputs, cacheVars, limiterVars>>

\* The keys that nobody serves after this step of auth-service.
Auth ==
  /\ AuthNext
  /\ removed' = [k \in Kids |->
       IF (\E r \in Replicas : k \in JWKS(r)) /\ (\A r \in Replicas : k \notin JWKS(r)')
       THEN now ELSE removed[k]]
  /\ UNCHANGED <<keys, expires, limiterVars>>

Init ==
  /\ AuthInit
  /\ keys = [g \in Gateways |-> {}]
  /\ expires = [g \in Gateways |-> 0]
  /\ removed = [k \in Kids |-> 0]
  /\ store \in {"memory", "redis"}
  /\ window = [b \in Buckets |-> [count |-> 0, ends |-> 0]]
  /\ passed = <<>> /\ failedOpen = 0

Next ==
  \/ Auth
  \/ \E g \in Gateways :
       \/ \E j \in access, f \in Replicas \union {Failed} : Visit(g, j, f)
       \/ VisitPublic(g) \/ Refuse(g) \/ FailOpen(g)
  \/ Tick

Spec == Init /\ [][Next]_vars

------------------------------------------------------------------------------
(* Properties.                                                              *)

\* Between two requests as far apart as a window is long, at most twice the
\* limit pass, in every bucket; and those for which Redis failed.
BurstBounded ==
  LET buckets == IF store = "redis" THEN 1 ELSE Cardinality(Gateways) IN
  \A n \in DOMAIN passed :
    Cardinality({m \in n..Len(passed) : passed[m] <= passed[n] + Window})
      <= 2 * Limit * buckets + failedOpen

\* Rotating the active key, in whichever replica, and deploying keys in
\* whichever order, costs nobody a request: a token is refused or aborted only
\* if it has expired, or a replica does not serve its key, or the keys cannot
\* be fetched.
RotationCostsNoRequest ==
  \A g \in Gateways, j \in access, f \in Replicas :
    (now <= j.exp /\ \A r \in Replicas : j.kid \in JWKS(r)) => Verdict(g, j, f) = "forwarded"

\* A key that was taken out of every replica is accepted for the lifetime of
\* a cache and no longer, as long as the keys can be fetched.
RemovedKeyFades ==
  \A g \in Gateways, j \in access, f \in Replicas :
    ((\A r \in Replicas : j.kid \notin JWKS(r)) /\ now >= removed[j.kid] + CacheTTL)
      => Verdict(g, j, f) # "forwarded"
==============================================================================
