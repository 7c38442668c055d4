----------------------------- MODULE GatewayProofs -----------------------------
(***************************************************************************)
(* What holds of auth-service and gateway-service together, for every set  *)
(* of users, requests, replicas and gateways, every sequence of key sets,  *)
(* every limit and lifetime: all that module SessionsProofs shows of the   *)
(* tokens, and how long a key is accepted that was taken away.             *)
(***************************************************************************)
EXTENDS Gateway, SessionsProofs

GateTypes ==
  /\ keys \in [Gateways -> SUBSET Kids]
  /\ expires \in [Gateways -> 0..(MaxTime + CacheTTL)]
  /\ removed \in [Kids -> 0..MaxTime]
  /\ store \in {"memory", "redis"}
  /\ window \in [Buckets -> [count: Nat, ends: 0..(MaxTime + Window)]]
  /\ passed \in Seq(0..MaxTime)
  /\ failedOpen \in 0..inputs

Served(k) == \E r \in Replicas : k \in JWKS(r)

\* A cached key is served, or its cache ends in time after it was taken away.
KeyAge ==
  \A g \in Gateways :
    /\ expires[g] <= now + CacheTTL
    /\ \A k \in keys[g] : Served(k) \/ expires[g] <= removed[k] + CacheTTL

IInv == AuthInv /\ Room /\ GateTypes /\ KeyAge

LEMMA InitIInv == Init => IInv
  <1> SUFFICES ASSUME Init PROVE IInv
    OBVIOUS
  <1>1. AuthInv
    BY InitAuth DEF Init
  <1>2. Room
    BY DEF Init, AuthInit, Room
  <1>3. GateTypes
    BY <1>1, SessionsAssumption, GatewayAssumption DEF Init, AuthInit, GateTypes
  <1>4. KeyAge
    BY SessionsAssumption, GatewayAssumption DEF Init, AuthInit, KeyAge
  <1> QED BY <1>1, <1>2, <1>3, <1>4 DEF IInv

\* The step of auth-service, seen from the gateway.
LEMMA AuthInputs == ASSUME AuthInv, AuthNext PROVE now' = now /\ inputs' \in Nat /\ inputs <= inputs'
  <1>1. now \in Nat /\ inputs \in Nat
    BY SessionsAssumption DEF AuthInv, Tables
  <1>2. Input \/ inputs' = inputs
    BY DEF AuthNext, Handler, Register, Login, Refresh, Logout, RevokeForRefresh, CreateToken,
           Answer, RevokeForLogout, CallFails, Rotate, Deploy
  <1>3. now' = now
    BY DEF AuthNext, Handler, Register, Login, Refresh, Logout, RevokeForRefresh, CreateToken,
           Answer, RevokeForLogout, CallFails, Rotate, Deploy
  <1> QED BY <1>1, <1>2, <1>3 DEF Input

LEMMA AuthPart == ASSUME IInv, Auth PROVE IInv'
  <1>1. AuthInv'
    BY AuthStep DEF Auth, IInv
  <1>2. Room'
    BY <1>1, RoomStep DEF Auth, IInv
  <1>3. /\ now' = now /\ inputs' \in Nat /\ inputs <= inputs'
        /\ now \in 0..MaxTime /\ inputs \in Nat
        /\ UNCHANGED <<keys, expires, store, window, passed, failedOpen>>
    BY AuthInputs, SessionsAssumption DEF Auth, IInv, AuthInv, Tables, limiterVars
  <1>4. removed' = [k \in Kids |-> IF Served(k) /\ ~Served(k)' THEN now ELSE removed[k]]
    BY DEF Auth, Served
  <1>5. GateTypes'
    BY <1>3, <1>4 DEF IInv, GateTypes, Bucket, Buckets
  <1>6. KeyAge'
    <2> SUFFICES ASSUME NEW g \in Gateways
                 PROVE  /\ expires[g] <= now + CacheTTL
                        /\ \A k \in keys[g] : Served(k)' \/ expires[g] <= removed'[k] + CacheTTL
      BY <1>3 DEF KeyAge
    <2>1. expires[g] <= now + CacheTTL
      BY DEF IInv, KeyAge
    <2>2. ASSUME NEW k \in keys[g], ~Served(k)'
          PROVE  expires[g] <= removed'[k] + CacheTTL
      <3>1. k \in Kids
        BY DEF IInv, GateTypes
      <3>2. CASE Served(k)
        BY <1>4, <2>1, <2>2, <3>1, <3>2
      <3>3. CASE ~Served(k)
        BY <1>4, <2>2, <3>1, <3>3 DEF IInv, KeyAge
      <3> QED BY <3>2, <3>3
    <2> QED BY <2>1, <2>2
  <1> QED BY <1>1, <1>2, <1>5, <1>6 DEF IInv

LEMMA OutsideAuth ==
  ASSUME AuthInv, Room, UNCHANGED <<tableVars, signerVars>>, now' \in 0..MaxTime,
         inputs' \in 0..MaxInputs
  PROVE  AuthInv' /\ Room' /\ \A k : Served(k)' <=> Served(k)
  <1>1. Signers'
    BY DEF AuthInv, Signers, JWKS, signerVars
  <1>2. AuthInv'
    BY <1>1, OutsideInv
  <1>3. Room'
    BY DEF Room, Children, Pending, tableVars
  <1>4. \A k : Served(k)' <=> Served(k)
    BY DEF Served, JWKS, signerVars
  <1> QED BY <1>2, <1>3, <1>4

LEMMA CountTypes ==
  ASSUME GateTypes, now \in 0..MaxTime, NEW g \in Gateways, Count(Bucket(g))
  PROVE  window' \in [Buckets -> [count: Nat, ends: 0..(MaxTime + Window)]]
  <1> PICK b \in Buckets : b = Bucket(g)
    BY DEF Bucket, Buckets
  <1> DEFINE W == [count: Nat, ends: 0..(MaxTime + Window)]
  <1>1. window[b] \in W
    BY DEF GateTypes
  <1>2. [count |-> 1, ends |-> now + Window] \in W
    BY SessionsAssumption, GatewayAssumption
  <1>3. /\ [count |-> window[b].count, ends |-> window[b].ends] \in W
        /\ [count |-> window[b].count + 1, ends |-> window[b].ends] \in W
    BY <1>1
  <1> HIDE DEF W
  <1>4. PICK w \in W : window' = [window EXCEPT ![b] = w]
    <2> DEFINE counted == WithinLimit(b) \/ store = "redis"
               v == IF Closed(b) THEN [count |-> 1, ends |-> now + Window]
                    ELSE [count |-> window[b].count + (IF counted THEN 1 ELSE 0),
                          ends |-> window[b].ends]
    <2>1. v \in W
      <3>1. window[b].count + 0 = window[b].count
        BY <1>1 DEF W
      <3> QED BY <1>2, <1>3, <3>1
    <2>2. Count(b)
      OBVIOUS
    <2>3. window' = [window EXCEPT ![b] = v]
      BY <2>2 DEF Count
    <2> QED BY <2>1, <2>3
  <1>5. window \in [Buckets -> W]
    BY DEF GateTypes, W
  <1>6. window' \in [Buckets -> W]
    BY <1>4, <1>5
  <1> QED BY <1>6 DEF W

LEMMA GatePart ==
  ASSUME IInv, NEW g \in Gateways,
         \/ \E j \in access, f \in Replicas \union {Failed} : Visit(g, j, f)
         \/ VisitPublic(g) \/ Refuse(g) \/ FailOpen(g)
  PROVE  IInv'
  <1>1. /\ UNCHANGED <<now, tableVars, signerVars, removed, store>>
        /\ inputs' \in 0..MaxInputs /\ inputs' = inputs + 1 /\ inputs \in Nat
        /\ now \in 0..MaxTime
    BY SessionsAssumption DEF Visit, VisitPublic, Refuse, FailOpen, Input, cacheVars, IInv, AuthInv, Tables
  <1>2. AuthInv' /\ Room' /\ \A k : Served(k)' <=> Served(k)
    BY <1>1, OutsideAuth DEF IInv
  <1>3. window' \in [Buckets -> [count: Nat, ends: 0..(MaxTime + Window)]]
    BY <1>1, CountTypes DEF Visit, VisitPublic, Refuse, FailOpen, IInv, GateTypes
  <1>4. passed' \in Seq(0..MaxTime) /\ failedOpen' \in 0..inputs'
    <2>1. passed \in Seq(0..MaxTime) /\ failedOpen \in 0..inputs
      BY DEF IInv, GateTypes
    <2>2. passed' = passed \/ passed' = Append(passed, now)
      BY DEF Visit, VisitPublic, Refuse, FailOpen
    <2>3. failedOpen' = failedOpen \/ failedOpen' = failedOpen + 1
      BY DEF Visit, VisitPublic, Refuse, FailOpen
    <2>4. passed' \in Seq(0..MaxTime)
      <3> DEFINE S == 0..MaxTime
      <3>1. passed \in Seq(S) /\ now \in S
        BY <1>1, <2>1
      <3> HIDE DEF S
      <3>2. passed' \in Seq(S)
        BY <2>2, <3>1
      <3> QED BY <3>2 DEF S
    <2>5. failedOpen' \in 0..inputs'
      BY <1>1, <2>1, <2>3
    <2> QED BY <2>4, <2>5
  <1>5. CASE UNCHANGED <<keys, expires>>
    BY <1>1, <1>2, <1>3, <1>4, <1>5 DEF IInv, GateTypes, KeyAge, Buckets
  <1>6. ASSUME NEW r \in Replicas, keys' = [keys EXCEPT ![g] = JWKS(r)],
               expires' = [expires EXCEPT ![g] = now + CacheTTL]
        PROVE  IInv'
    <2>1. JWKS(r) \subseteq Kids
      BY KeySetFacts DEF IInv, AuthInv, Signers, JWKS
    <2>2. keys' \in [Gateways -> SUBSET Kids] /\ expires' \in [Gateways -> 0..(MaxTime + CacheTTL)]
      BY <1>1, <1>6, <2>1, GatewayAssumption, SessionsAssumption DEF IInv, GateTypes
    <2>3. GateTypes'
      BY <1>1, <1>3, <1>4, <2>2 DEF IInv, GateTypes, Buckets
    <2>4. \A k \in JWKS(r) : Served(k)
      BY DEF Served
    <2>5. KeyAge'
      <3>1. /\ keys'[g] = JWKS(r) /\ expires'[g] = now + CacheTTL
            /\ \A h \in Gateways \ {g} : keys'[h] = keys[h] /\ expires'[h] = expires[h]
        BY <1>6 DEF IInv, GateTypes
      <3>2. now + CacheTTL <= now + CacheTTL
        BY <1>1, GatewayAssumption
      <3> QED BY <1>1, <1>2, <2>4, <3>1, <3>2 DEF IInv, KeyAge
    <2> QED BY <1>2, <2>3, <2>5 DEF IInv
  <1> QED BY <1>5, <1>6 DEF Visit, Refreshed, VisitPublic, Refuse, FailOpen, cacheVars

LEMMA TickPart == ASSUME IInv, Tick PROVE IInv'
  <1>1. /\ now' = now + 1 /\ now' \in 0..MaxTime /\ now \in Nat
        /\ inputs' \in 0..MaxInputs /\ inputs' = inputs
        /\ UNCHANGED <<tableVars, signerVars, keys, expires, removed, store, window, passed, failedOpen>>
    BY SessionsAssumption DEF Tick, IInv, AuthInv, Tables, cacheVars, limiterVars
  <1>2. AuthInv' /\ Room' /\ \A k : Served(k)' <=> Served(k)
    BY <1>1, OutsideAuth DEF IInv
  <1>3. GateTypes'
    BY <1>1 DEF IInv, GateTypes, Buckets
  <1>4. KeyAge'
    BY <1>1, <1>2, GatewayAssumption, SessionsAssumption DEF IInv, KeyAge, GateTypes
  <1> QED BY <1>2, <1>3, <1>4 DEF IInv

LEMMA StutterPart == ASSUME IInv, UNCHANGED vars PROVE IInv'
  <1>1. /\ UNCHANGED <<tableVars, signerVars>> /\ now' \in 0..MaxTime /\ inputs' \in 0..MaxInputs
        /\ UNCHANGED <<now, inputs, keys, expires, removed, store, window, passed, failedOpen>>
    BY DEF vars, authVars, cacheVars, limiterVars, IInv, AuthInv, Tables
  <1>2. AuthInv' /\ Room' /\ \A k : Served(k)' <=> Served(k)
    BY <1>1, OutsideAuth DEF IInv
  <1> QED BY <1>1, <1>2 DEF IInv, GateTypes, KeyAge, Buckets

LEMMA Inductive == Spec => []IInv
  <1>1. IInv /\ [Next]_vars => IInv'
    BY AuthPart, GatePart, TickPart, StutterPart DEF Next
  <1> QED BY InitIInv, <1>1, PTL DEF Spec

\* The tables, signers, caches and limiters keep their types: the token of a
\* refresh is older than what comes of it, every replica signs with a key that
\* it serves, and no cache outlives its lifetime.
THEOREM AccessTypes == Spec => []TypeOK
  <1>1. IInv => TypeOK
    BY AuthTypes, SessionsAssumption DEF IInv, TypeOK, GateTypes, AuthInv, Tables
  <1> QED BY <1>1, Inductive, PTL

\* Refresh reads, revokes and inserts in three statements: as many tokens come
\* of one as requests had read it before the first of them revoked it.
THEOREM RotationIsBounded == Spec => []RotationBounded
  <1>1. IInv => RotationBounded
    BY RoomBounds DEF IInv
  <1> QED BY <1>1, Inductive, PTL

\* A session survives every interleaving of its refreshes and logouts.
THEOREM RotationKeepsSessions == Spec => []RotationKeepsSession
  <1>1. IInv => RotationKeepsSession
    BY DEF IInv, AuthInv
  <1> QED BY <1>1, Inductive, PTL

\* Once Logout has answered, the token yields nothing to a later Refresh.
THEOREM LogoutHolds == Spec => LogoutIsFinal
  <1>1. IInv /\ [Next]_vars =>
          [\A t \in loggedOut : Using(t) = {} => Children(t)' = Children(t) /\ Using(t)' = {}]_authVars
    <2> SUFFICES ASSUME IInv, [Next]_vars, ~UNCHANGED authVars,
                        NEW t \in loggedOut, Using(t) = {}
                 PROVE  Children(t)' = Children(t) /\ Using(t)' = {}
      OBVIOUS
    <2>1. CASE AuthNext
      BY <2>1, LogoutStep DEF IInv
    <2>2. CASE UNCHANGED tableVars
      BY <2>2 DEF tableVars, Children, Using
    <2> QED BY <2>1, <2>2 DEF Next, Auth, Visit, VisitPublic, Refuse, FailOpen, Tick, vars
  <1> QED BY <1>1, Inductive, PTL DEF Spec, LogoutIsFinal

\* JWKSClient.Get and Rotate: a token whose key every replica serves passes
\* whatever the cache holds, whichever key is active.
THEOREM RotationIsFree == Spec => []RotationCostsNoRequest
  <1>1. ASSUME IInv PROVE RotationCostsNoRequest
    <2> SUFFICES ASSUME NEW g \in Gateways, NEW j \in access, NEW f \in Replicas,
                        now <= j.exp, j.kid \in JWKS(f)
                 PROVE  Verdict(g, j, f) = "forwarded"
      BY DEF RotationCostsNoRequest
    <2>1. j.exp \in Nat /\ now \in Nat
      BY <1>1, SessionsAssumption DEF IInv, AuthInv, Tables, JWT
    <2>2. j.kid \in KeysAfter(g, f)
      BY GatewayAssumption DEF KeysAfter
    <2> QED BY <2>1, <2>2 DEF Verdict, Get
  <1> QED BY <1>1, Inductive, PTL

\* JWKSClient.Get and buildSigner: a key that no replica serves is accepted for
\* the lifetime of a cache, however often caches were filled before.
THEOREM RemovedKeysFade == Spec => []RemovedKeyFades
  <1>1. ASSUME IInv PROVE RemovedKeyFades
    <2> SUFFICES ASSUME NEW g \in Gateways, NEW j \in access, NEW f \in Replicas,
                        \A r \in Replicas : j.kid \notin JWKS(r),
                        now >= removed[j.kid] + CacheTTL
                 PROVE  Verdict(g, j, f) # "forwarded"
      BY DEF RemovedKeyFades
    <2>1. j.kid \in Kids
      BY <1>1 DEF IInv, AuthInv, Tables, JWT
    <2>2. j.kid \in keys[g] => ~(now < expires[g])
      <3>1. j.kid \in keys[g] => expires[g] <= removed[j.kid] + CacheTTL
        BY <1>1 DEF IInv, KeyAge, Served
      <3>2. removed[j.kid] \in Nat /\ expires[g] \in Nat /\ now \in Nat /\ CacheTTL \in Nat
        BY <1>1, <2>1, GatewayAssumption, SessionsAssumption DEF IInv, GateTypes, AuthInv, Tables
      <3> QED BY <3>1, <3>2
    <2>3. ~Cached(g, j.kid)
      BY <2>2 DEF Cached
    <2>4. j.kid \notin KeysAfter(g, f)
      BY GatewayAssumption DEF KeysAfter
    <2> QED BY <2>3, <2>4 DEF Verdict, Get
  <1> QED BY <1>1, Inductive, PTL

------------------------------------------------------------------------------
(* The limiter.  Every request that passed gets a place: a number within the *)
(* limit in a window of a bucket, or among those let through without Redis. *)
(* No two have the same place, and windows of a bucket do not overlap, so   *)
(* at most two of them meet a stretch of time as long as one of them.       *)

Used == IF store = "redis" THEN {"redis"} ELSE Gateways
Places == [by: {"limiter", "failure"}, bucket: Used, ends: Nat, slot: Nat \ {0}]

\* Of two windows with these ends the first is over when the second begins.
Apart(e, f) == IF store = "redis" THEN e + Window <= f ELSE e + Window < f
\* Time t is in the window that ends at e.
Within(t, e) == e <= t + Window /\ (IF store = "redis" THEN t < e ELSE t <= e)

\* The place of a request, seen from the windows now open.
PlaceOf(t, p) ==
  /\ p \in Places
  /\ p.by = "failure" => p.slot <= failedOpen /\ p.bucket = "redis" /\ p.ends = 0
  /\ p.by = "limiter" =>
       /\ Within(t, p.ends) /\ p.slot <= Limit
       /\ window[p.bucket].count > 0
       /\ \/ p.ends = window[p.bucket].ends /\ p.slot <= window[p.bucket].count
          \/ Apart(p.ends, window[p.bucket].ends)
\* Two places, of two requests.
DifferentPlaces(p, q) ==
  /\ p # q
  /\ p.by = "limiter" /\ q.by = "limiter" /\ p.bucket = q.bucket =>
       p.ends = q.ends \/ Apart(p.ends, q.ends) \/ Apart(q.ends, p.ends)
Placed(o) ==
  /\ DOMAIN o = DOMAIN passed
  /\ \A m \in DOMAIN passed : PlaceOf(passed[m], o[m])
  /\ \A m, n \in DOMAIN passed : m # n => DifferentPlaces(o[m], o[n])

LimiterInv ==
  /\ \A m \in DOMAIN passed : passed[m] <= now
  /\ \A m, n \in DOMAIN passed : m <= n => passed[m] <= passed[n]
  /\ \A b \in Used : window[b].count > 0 => window[b].ends <= now + Window
  /\ \E o : Placed(o)

\* What the proofs need of the types.
LEMMA LimiterTypes ==
  ASSUME IInv
  PROVE  /\ now \in Nat /\ Window \in Nat \ {0} /\ Limit \in Nat \ {0} /\ failedOpen \in Nat
         /\ store \in {"memory", "redis"} /\ passed \in Seq(0..MaxTime)
         /\ Used \subseteq Buckets /\ \A g \in Gateways : Bucket(g) \in Used
         /\ \A b \in Buckets : window[b].count \in Nat /\ window[b].ends \in Nat
  <1>1. now \in 0..MaxTime /\ MaxTime \in Nat /\ inputs \in Nat
    BY SessionsAssumption DEF IInv, AuthInv, Tables
  <1>2. \A b \in Buckets : window[b].count \in Nat /\ window[b].ends \in Nat
    <2>1. 0..(MaxTime + Window) \subseteq Nat
      BY <1>1, GatewayAssumption
    <2>2. window \in [Buckets -> [count: Nat, ends: 0..(MaxTime + Window)]]
      BY DEF IInv, GateTypes
    <2> HIDE DEF Buckets
    <2> QED BY <2>1, <2>2
  <1> QED BY <1>1, <1>2, GatewayAssumption DEF IInv, GateTypes, Used, Bucket, Buckets

\* What the limiter does to the windows, by what it finds.
LEMMA CountFacts ==
  ASSUME IInv, NEW b \in Buckets, Count(b)
  PROVE  /\ \A c \in Buckets \ {b} : window'[c] = window[c]
         /\ Closed(b) => window'[b].count = 1 /\ window'[b].ends = now + Window
         /\ ~Closed(b) =>
              /\ window'[b].ends = window[b].ends /\ window[b].count > 0
              /\ window'[b].count \in {window[b].count, window[b].count + 1}
              /\ WithinLimit(b) => window'[b].count = window[b].count + 1
  <1> DEFINE more == IF WithinLimit(b) \/ store = "redis" THEN 1 ELSE 0
             v == IF Closed(b) THEN [count |-> 1, ends |-> now + Window]
                  ELSE [count |-> window[b].count + more, ends |-> window[b].ends]
  <1>1. window' = [window EXCEPT ![b] = v]
    BY DEF Count
  <1>2. window'[b] = v /\ \A c \in Buckets \ {b} : window'[c] = window[c]
    <2> HIDE DEF v
    <2> QED BY <1>1 DEF IInv, GateTypes
  <1>3. window[b].count \in Nat
    BY LimiterTypes
  <1>4. ~Closed(b) => window[b].count > 0
    BY <1>3 DEF Closed
  <1> QED BY <1>2, <1>3, <1>4

\* A request more, in a place of its own.
LEMMA PlacedMore ==
  ASSUME IInv, NEW o, DOMAIN o = DOMAIN passed, passed' = Append(passed, now), NEW p,
         \A m \in DOMAIN passed : PlaceOf(passed[m], o[m])' /\ DifferentPlaces(o[m], p)' /\ DifferentPlaces(p, o[m])',
         \A m, n \in DOMAIN passed : m # n => DifferentPlaces(o[m], o[n])',
         PlaceOf(now, p)', now' = now
  PROVE  \E x : Placed(x)'
  <1> PICK x : x = [m \in DOMAIN passed' |-> IF m \in DOMAIN passed THEN o[m] ELSE p]
    OBVIOUS
  <1>1. /\ DOMAIN passed' = DOMAIN passed \union {Len(passed) + 1} /\ Len(passed) + 1 \notin DOMAIN passed
        /\ passed'[Len(passed) + 1] = now /\ \A m \in DOMAIN passed : passed'[m] = passed[m]
    <2>1. passed \in Seq(0..MaxTime)
      BY LimiterTypes
    <2>2. now \in 0..MaxTime
      BY DEF IInv, AuthInv, Tables
    <2> QED BY <2>1, <2>2
  <1>2. \A m \in DOMAIN passed : x[m] = o[m]
    BY <1>1
  <1>3. x[Len(passed) + 1] = p /\ DOMAIN x = DOMAIN passed'
    BY <1>1
  <1>4. ASSUME NEW m \in DOMAIN passed'  PROVE PlaceOf(passed[m], x[m])'
    <2>1. CASE m \in DOMAIN passed
      BY <1>2, <2>1
    <2>2. CASE m = Len(passed) + 1
      BY <1>1, <1>3, <2>2
    <2> QED BY <1>1, <2>1, <2>2
  <1>5. ASSUME NEW m \in DOMAIN passed', NEW n \in DOMAIN passed', m # n  PROVE DifferentPlaces(x[m], x[n])'
    <2>1. CASE m \in DOMAIN passed /\ n \in DOMAIN passed
      BY <1>2, <1>5, <2>1
    <2>2. CASE m \in DOMAIN passed /\ n = Len(passed) + 1
      BY <1>2, <1>3, <2>2
    <2>3. CASE m = Len(passed) + 1 /\ n \in DOMAIN passed
      BY <1>2, <1>3, <2>3
    <2> QED BY <1>1, <1>5, <2>1, <2>2, <2>3
  <1> QED BY <1>3, <1>4, <1>5 DEF Placed

\* Passing requests are in the order of their times, and none is of the future.
LEMMA OrderMore ==
  ASSUME IInv, LimiterInv, passed' = Append(passed, now), now' = now
  PROVE  /\ \A m \in DOMAIN passed' : passed'[m] <= now'
         /\ \A m, n \in DOMAIN passed' : m <= n => passed'[m] <= passed'[n]
  <1>1. passed \in Seq(0..MaxTime) /\ now \in 0..MaxTime /\ MaxTime \in Nat
    BY LimiterTypes, SessionsAssumption DEF IInv, AuthInv, Tables
  <1>2. /\ DOMAIN passed' = 1..(Len(passed) + 1) /\ DOMAIN passed = 1..Len(passed) /\ Len(passed) \in Nat
        /\ passed'[Len(passed) + 1] = now /\ \A m \in 1..Len(passed) : passed'[m] = passed[m]
    BY <1>1
  <1>3. /\ \A m \in 1..Len(passed) : passed[m] <= now
        /\ \A m, n \in 1..Len(passed) : m <= n => passed[m] <= passed[n]
    BY <1>2 DEF LimiterInv
  <1>4. \A m \in 1..(Len(passed) + 1) : m \in 1..Len(passed) \/ m = Len(passed) + 1
    BY <1>2
  <1>5. now <= now
    BY <1>1
  <1>6. ASSUME NEW m \in DOMAIN passed'  PROVE passed'[m] <= now'
    BY <1>2, <1>3, <1>4, <1>5
  <1>7. ASSUME NEW m \in DOMAIN passed', NEW n \in DOMAIN passed', m <= n  PROVE passed'[m] <= passed'[n]
    <2>1. CASE n = Len(passed) + 1
      BY <1>2, <1>6, <2>1
    <2>2. CASE n \in 1..Len(passed)
      <3>1. m \in 1..Len(passed)
        BY <1>2, <1>7, <2>2
      <3> QED BY <1>2, <1>3, <1>7, <2>2, <3>1
    <2> QED BY <1>2, <1>4, <2>1, <2>2
  <1> QED BY <1>6, <1>7

\* A request that the limiter admits takes a new place, and the others keep theirs.
LEMMA NewPlace ==
  ASSUME IInv, LimiterInv, NEW b \in Used, Admits(b), Count(b), UNCHANGED <<now, store, failedOpen>>,
         NEW p, p = [by |-> "limiter", bucket |-> b, ends |-> window'[b].ends, slot |-> window'[b].count]
  PROVE  /\ PlaceOf(now, p)'
         /\ \A t \in Nat : \A q : PlaceOf(t, q) => PlaceOf(t, q)' /\ DifferentPlaces(q, p)' /\ DifferentPlaces(p, q)'
  <1>1. /\ now \in Nat /\ Window \in Nat \ {0} /\ Limit \in Nat \ {0}
        /\ store \in {"memory", "redis"} /\ b \in Buckets /\ Used \subseteq Buckets
        /\ \A c \in Buckets : window[c].count \in Nat /\ window[c].ends \in Nat
    BY LimiterTypes
  <1>2. /\ \A c \in Used \ {b} : window'[c] = window[c]
        /\ \/ /\ Closed(b) /\ window'[b].count = 1 /\ window'[b].ends = now + Window
           \/ /\ ~Closed(b) /\ WithinLimit(b) /\ window[b].count > 0
              /\ window'[b].count = window[b].count + 1 /\ window'[b].ends = window[b].ends
    BY <1>1, CountFacts DEF Admits
  <1>3. /\ p.by = "limiter" /\ p.bucket = b /\ p.ends = window'[b].ends /\ p.slot = window'[b].count
        /\ p = [by |-> "limiter", bucket |-> b, ends |-> p.ends, slot |-> p.slot]
    OBVIOUS
  <1>4. Used' = Used /\ Places' = Places
    BY DEF Used, Places
  <1>5. window[b].count > 0 => window[b].ends <= now + Window
    BY DEF LimiterInv
  <1>6. p \in Places
    <2>1. p.ends \in Nat /\ p.slot \in Nat \ {0}
      BY <1>1, <1>2, <1>3
    <2> QED BY <1>3, <2>1 DEF Places
  <1>7. PlaceOf(now, p)'
    <2>1. Within(now, p.ends)' /\ p.slot <= Limit
      <3>1. CASE Closed(b)
        BY <1>1, <1>2, <1>3, <3>1 DEF Within
      <3>2. CASE ~Closed(b)
        BY <1>1, <1>2, <1>3, <1>5, <3>2 DEF Within, Closed, WithinLimit
      <3> QED BY <3>1, <3>2
    <2>2. window'[b].count > 0 /\ p.slot <= window'[b].count
      BY <1>1, <1>2, <1>3
    <2> QED BY <1>3, <1>4, <1>6, <2>1, <2>2 DEF PlaceOf
  <1>8. ASSUME NEW t \in Nat, NEW q, PlaceOf(t, q)
        PROVE  PlaceOf(t, q)' /\ DifferentPlaces(q, p)' /\ DifferentPlaces(p, q)'
    <2>1. /\ q \in Places /\ q.bucket \in Used /\ q.ends \in Nat /\ q.slot \in Nat
          /\ q.by \in {"limiter", "failure"}
      BY <1>8 DEF PlaceOf, Places
    <2>2. CASE q.by = "failure"
      BY <1>3, <1>4, <1>8, <2>2 DEF PlaceOf, DifferentPlaces
    <2>3. CASE q.by = "limiter" /\ q.bucket # b
      BY <1>2, <1>3, <1>4, <1>8, <2>1, <2>3 DEF PlaceOf, DifferentPlaces, Within, Apart
    <2>4. CASE q.by = "limiter" /\ q.bucket = b
      <3>1. /\ Within(t, q.ends) /\ q.slot <= Limit /\ window[b].count > 0
            /\ \/ q.ends = window[b].ends /\ q.slot <= window[b].count
               \/ Apart(q.ends, window[b].ends)
        BY <1>8, <2>4 DEF PlaceOf
      <3>2. CASE Closed(b)
        <4>1. Apart(window[b].ends, now + Window)
          BY <1>1, <3>1, <3>2 DEF Closed, Apart
        <4>2. Apart(q.ends, p.ends)' /\ q.ends # p.ends
          BY <1>1, <1>2, <1>3, <2>1, <3>1, <3>2, <4>1 DEF Apart
        <4>3. Within(t, q.ends)' /\ window'[b].count > 0
          BY <1>2, <3>1, <3>2 DEF Within
        <4> QED BY <1>3, <1>4, <2>1, <2>4, <3>1, <4>2, <4>3 DEF PlaceOf, DifferentPlaces
      <3>3. CASE ~Closed(b)
        <4>1. /\ window'[b].count > 0 /\ Within(t, q.ends)'
              /\ \/ q.ends = window'[b].ends /\ q.slot <= window'[b].count /\ q.slot # p.slot
                 \/ Apart(q.ends, window[b].ends)' /\ q.ends # p.ends
          BY <1>1, <1>2, <1>3, <2>1, <3>1, <3>3 DEF Within, Apart
        <4>2. PlaceOf(t, q)'
          BY <1>4, <2>1, <2>4, <3>1, <4>1 DEF PlaceOf
        <4> QED BY <1>3, <2>1, <2>4, <4>1, <4>2 DEF DifferentPlaces
      <3> QED BY <3>2, <3>3
    <2> QED BY <2>1, <2>2, <2>3, <2>4
  <1> QED BY <1>7, <1>8

LEMMA AdmitPart ==
  ASSUME IInv, LimiterInv, NEW g \in Gateways, Admits(Bucket(g)), Count(Bucket(g)),
         passed' = Append(passed, now), UNCHANGED <<now, store, failedOpen>>
  PROVE  LimiterInv'
  <1>1. PICK b \in Used : b = Bucket(g)
    BY LimiterTypes
  <1>2. b \in Buckets /\ Admits(b) /\ Count(b) /\ Used' = Used
    BY <1>1, LimiterTypes DEF Used
  <1>3. PICK o : Placed(o)
    BY DEF LimiterInv
  <1>4. PICK p : p = [by |-> "limiter", bucket |-> b, ends |-> window'[b].ends, slot |-> window'[b].count]
    OBVIOUS
  <1>5. /\ PlaceOf(now, p)'
        /\ \A t \in Nat : \A q : PlaceOf(t, q) => PlaceOf(t, q)' /\ DifferentPlaces(q, p)' /\ DifferentPlaces(p, q)'
    BY <1>1, <1>2, <1>4, NewPlace
  <1>6. /\ \A m \in DOMAIN passed : passed[m] \in Nat /\ passed'[m] = passed[m]
        /\ DOMAIN o = DOMAIN passed
    <2>1. passed \in Seq(0..MaxTime) /\ MaxTime \in Nat
      BY LimiterTypes, SessionsAssumption
    <2> QED BY <1>3, <2>1 DEF Placed
  <1>7. ASSUME NEW m \in DOMAIN passed
        PROVE  PlaceOf(passed[m], o[m])' /\ DifferentPlaces(o[m], p)' /\ DifferentPlaces(p, o[m])'
    <2>1. PICK t \in Nat : t = passed[m]
      BY <1>6
    <2>2. PICK q : q = o[m]
      OBVIOUS
    <2>3. PlaceOf(t, q)
      BY <1>3, <2>1, <2>2 DEF Placed
    <2>4. PlaceOf(t, q)' /\ DifferentPlaces(q, p)' /\ DifferentPlaces(p, q)'
      BY <1>5, <2>3
    <2> QED BY <1>6, <2>1, <2>2, <2>4
  <1>8. \A m, n \in DOMAIN passed : m # n => DifferentPlaces(o[m], o[n])'
    BY <1>3 DEF Placed, DifferentPlaces, Apart
  <1>9. \E x : Placed(x)'
    BY <1>3, <1>5, <1>6, <1>7, <1>8, PlacedMore
  <1>10. \A c \in Used : window'[c].count > 0 => window'[c].ends <= now' + Window
    <2>1. now + Window <= now + Window
      BY LimiterTypes
    <2> QED BY <1>2, <2>1, CountFacts, LimiterTypes DEF LimiterInv
  <1> QED BY <1>2, <1>9, <1>10, OrderMore DEF LimiterInv

LEMMA RefusePart ==
  ASSUME IInv, LimiterInv, NEW g \in Gateways, ~Admits(Bucket(g)), Count(Bucket(g)),
         UNCHANGED <<now, passed, store, failedOpen>>
  PROVE  LimiterInv'
  <1>1. PICK b \in Used : b = Bucket(g)
    BY LimiterTypes
  <1>2. b \in Buckets /\ ~Closed(b) /\ Count(b) /\ Used' = Used /\ Places' = Places
    BY <1>1, LimiterTypes DEF Used, Places, Admits
  <1>3. /\ \A c \in Used : window'[c].ends = window[c].ends
        /\ \A c \in Used : window'[c].count \in {window[c].count, window[c].count + 1}
        /\ \A c \in Used : window[c].count \in Nat /\ (window'[c].count > 0 => window[c].count > 0)
    <2>1. /\ window'[b].ends = window[b].ends /\ window[b].count > 0
          /\ window'[b].count \in {window[b].count, window[b].count + 1}
      BY <1>2, CountFacts
    <2> QED BY <1>2, <2>1, CountFacts, LimiterTypes
  <1>4. PICK o : Placed(o)
    BY DEF LimiterInv
  <1>5. ASSUME NEW m \in DOMAIN passed  PROVE PlaceOf(passed[m], o[m])'
    <2>1. PlaceOf(passed[m], o[m])
      BY <1>4 DEF Placed
    <2>2. o[m].bucket \in Used /\ o[m].slot \in Nat
      BY <2>1 DEF PlaceOf, Places
    <2> QED BY <1>2, <1>3, <2>1, <2>2 DEF PlaceOf, Within, Apart
  <1>6. Placed(o)'
    BY <1>4, <1>5 DEF Placed, DifferentPlaces, Apart
  <1> QED BY <1>2, <1>3, <1>6 DEF LimiterInv

LEMMA OpenPart ==
  ASSUME IInv, LimiterInv, store = "redis", passed' = Append(passed, now), failedOpen' = failedOpen + 1,
         UNCHANGED <<now, store, window>>
  PROVE  LimiterInv'
  <1>1. PICK o : Placed(o)
    BY DEF LimiterInv
  <1>2. PICK p : p = [by |-> "failure", bucket |-> "redis", ends |-> 0, slot |-> failedOpen + 1]
    OBVIOUS
  <1>3. failedOpen \in Nat /\ Used' = Used /\ Places' = Places
    BY LimiterTypes DEF Used, Places
  <1>4. PlaceOf(now, p)'
    BY <1>2, <1>3 DEF PlaceOf, Places, Used
  <1>5. /\ \A m \in DOMAIN passed : passed'[m] = passed[m]
        /\ DOMAIN o = DOMAIN passed
    <2>1. passed \in Seq(0..MaxTime)
      BY LimiterTypes
    <2> QED BY <1>1, <2>1 DEF Placed
  <1>6. ASSUME NEW m \in DOMAIN passed
        PROVE  PlaceOf(passed[m], o[m])' /\ DifferentPlaces(o[m], p)' /\ DifferentPlaces(p, o[m])'
    <2>1. PlaceOf(passed[m], o[m]) /\ o[m].slot \in Nat
      BY <1>1 DEF Placed, PlaceOf, Places
    <2>2. PlaceOf(passed[m], o[m])'
      BY <1>3, <1>5, <2>1 DEF PlaceOf, Within, Apart
    <2>3. o[m] # p
      BY <1>2, <1>3, <2>1 DEF PlaceOf
    <2> QED BY <1>2, <2>2, <2>3 DEF DifferentPlaces
  <1>7. \A m, n \in DOMAIN passed : m # n => DifferentPlaces(o[m], o[n])'
    BY <1>1 DEF Placed, DifferentPlaces, Apart
  <1>8. \E x : Placed(x)'
    BY <1>4, <1>5, <1>6, <1>7, PlacedMore
  <1> QED BY <1>3, <1>8, OrderMore DEF LimiterInv

LEMMA ClockPart ==
  ASSUME IInv, LimiterInv, UNCHANGED <<passed, store, window, failedOpen>>, now' = now \/ now' = now + 1
  PROVE  LimiterInv'
  <1>1. PICK o : Placed(o)
    BY DEF LimiterInv
  <1>2. Placed(o)' /\ Used' = Used
    BY <1>1 DEF Placed, PlaceOf, DifferentPlaces, Within, Apart, Places, Used
  <1>3. passed \in Seq(0..MaxTime) /\ MaxTime \in Nat /\ now \in Nat /\ Window \in Nat
    BY LimiterTypes, SessionsAssumption
  <1>4. \A m \in DOMAIN passed : passed[m] <= now'
    <2>1. \A m \in DOMAIN passed : passed[m] \in 0..MaxTime
      BY <1>3
    <2> QED BY <1>3, <2>1 DEF LimiterInv
  <1>5. \A b \in Used : window[b].count > 0 => window[b].ends <= now' + Window
    BY <1>3, LimiterTypes DEF LimiterInv
  <1> QED BY <1>2, <1>4, <1>5 DEF LimiterInv

LEMMA LimiterInductive == Spec => [](IInv /\ LimiterInv)
  <1>1. Init => LimiterInv
    <2> SUFFICES ASSUME Init PROVE LimiterInv
      OBVIOUS
    <2>1. Placed(<<>>)
      BY DEF Init, Placed
    <2>2. \A b \in Used : window[b].count = 0
      BY DEF Init, Used, Buckets
    <2> QED BY <2>1, <2>2 DEF Init, LimiterInv
  <1>2. ASSUME IInv, LimiterInv, [Next]_vars PROVE LimiterInv'
    <2>1. CASE Auth
      BY <1>2, <2>1, AuthInputs, ClockPart DEF Auth, IInv, limiterVars
    <2>2. ASSUME NEW g \in Gateways, NEW j \in access, NEW f \in Replicas \union {Failed}, Visit(g, j, f)
          PROVE  LimiterInv'
      BY <1>2, <2>2, AdmitPart DEF Visit
    <2>3. ASSUME NEW g \in Gateways, VisitPublic(g) PROVE LimiterInv'
      BY <1>2, <2>3, AdmitPart DEF VisitPublic
    <2>4. ASSUME NEW g \in Gateways, Refuse(g) PROVE LimiterInv'
      BY <1>2, <2>4, RefusePart DEF Refuse
    <2>5. ASSUME NEW g \in Gateways, FailOpen(g) PROVE LimiterInv'
      BY <1>2, <2>5, OpenPart DEF FailOpen
    <2>6. CASE Tick
      BY <1>2, <2>6, ClockPart DEF Tick, limiterVars
    <2>7. CASE UNCHANGED vars
      BY <1>2, <2>7, ClockPart DEF vars, authVars, limiterVars
    <2> QED BY <1>2, <2>1, <2>2, <2>3, <2>4, <2>5, <2>6, <2>7 DEF Next
  <1> QED BY <1>1, <1>2, Inductive, PTL DEF Spec

\* A window that meets the time from a on, for the length of a window, ends in
\* it or after it; of each kind there is one to a bucket.
LEMMA TwoWindows ==
  ASSUME IInv, NEW a \in Nat, NEW s \in Nat, NEW t \in Nat, a <= s, a <= t, s <= a + Window, t <= a + Window,
         NEW e \in Nat, NEW f \in Nat, Within(s, e), Within(t, f), Apart(e, f)
  PROVE  e <= a + Window /\ ~(f <= a + Window)
  BY LimiterTypes DEF Within, Apart

LEMMA BurstOf ==
  ASSUME IInv, LimiterInv, NEW n \in DOMAIN passed
  PROVE  Cardinality({m \in n..Len(passed) : passed[m] <= passed[n] + Window})
           <= 2 * Limit * Cardinality(Used) + failedOpen
  <1> DEFINE a == passed[n]
             burst == {m \in n..Len(passed) : passed[m] <= a + Window}
  <1>1. PICK o : Placed(o)
    BY DEF LimiterInv
  <1>2. /\ Window \in Nat \ {0} /\ Limit \in Nat \ {0} /\ failedOpen \in Nat
        /\ IsFiniteSet(Used) /\ a \in Nat
        /\ \A m \in burst : m \in DOMAIN passed /\ passed[m] \in Nat /\ a <= passed[m] /\ passed[m] <= a + Window
    <2>1. passed \in Seq(0..MaxTime) /\ MaxTime \in Nat
      BY LimiterTypes, SessionsAssumption
    <2>2. DOMAIN passed = 1..Len(passed) /\ Len(passed) \in Nat /\ \A m \in DOMAIN passed : passed[m] \in Nat
      BY <2>1
    <2>3. IsFiniteSet(Used)
      BY GatewayAssumption, FS_Singleton DEF Used
    <2> QED BY <2>2, <2>3, LimiterTypes DEF LimiterInv
  <1> HIDE DEF burst, a
  <1> DEFINE opened == {m \in burst : o[m].by = "failure"}
             counted == burst \ opened
             side(m) == IF o[m].ends <= a + Window THEN 1 ELSE 2
             sides == {1, 2} \X (1..Limit)
  <1>3. \A m \in burst : PlaceOf(passed[m], o[m]) /\ o[m] \in Places
    BY <1>1, <1>2 DEF Placed, PlaceOf
  <1>4. \A m, k \in burst : m # k => DifferentPlaces(o[m], o[k])
    BY <1>1, <1>2 DEF Placed
  <1>5. IsFiniteSet(opened) /\ Cardinality(opened) <= failedOpen
    <2> DEFINE f == [m \in opened |-> o[m].slot]
    <2>1. ASSUME NEW m \in opened
          PROVE  /\ o[m].slot \in 1..failedOpen
                 /\ o[m] = [by |-> "failure", bucket |-> "redis", ends |-> 0, slot |-> o[m].slot]
      <3>1. PlaceOf(passed[m], o[m]) /\ o[m] \in Places /\ o[m].by = "failure"
        BY <1>3 DEF Places
      <3> QED BY <1>2, <3>1 DEF PlaceOf, Places
    <2>2. \A m, k \in opened : m # k => o[m].slot # o[k].slot
      BY <1>4, <2>1 DEF DifferentPlaces
    <2> HIDE DEF opened
    <2>3. f \in Injection(opened, 1..failedOpen)
      BY <2>1, <2>2 DEF Injection, IsInjective
    <2>4. IsFiniteSet(1..failedOpen) /\ Cardinality(1..failedOpen) = failedOpen
      BY <1>2, FS_Interval
    <2> QED BY <2>3, <2>4, FS_Injection
  <1>6. IsFiniteSet(sides) /\ Cardinality(sides) = 2 * Limit
    <2>1. IsFiniteSet(1..Limit) /\ Cardinality(1..Limit) = Limit
      BY <1>2, FS_Interval
    <2>2. IsFiniteSet({1}) /\ Cardinality({1}) = 1
      BY FS_Singleton
    <2>3. {1, 2} = {1} \union {2} /\ 2 \notin {1}
      OBVIOUS
    <2>4. IsFiniteSet({1, 2}) /\ Cardinality({1, 2}) = 2
      BY <2>2, <2>3, FS_AddElement
    <2> QED BY <2>1, <2>4, FS_Product
  <1>7. IsFiniteSet(counted) /\ Cardinality(counted) <= Cardinality(Used \X sides)
        /\ IsFiniteSet(Used \X sides)
    <2> DEFINE f == [m \in counted |-> <<o[m].bucket, <<side(m), o[m].slot>>>>]
    <2>1. ASSUME NEW m \in counted
          PROVE  /\ o[m].bucket \in Used /\ o[m].slot \in 1..Limit /\ o[m].ends \in Nat
                 /\ Within(passed[m], o[m].ends) /\ o[m].by = "limiter"
                 /\ o[m] = [by |-> "limiter", bucket |-> o[m].bucket, ends |-> o[m].ends, slot |-> o[m].slot]
      <3>1. PlaceOf(passed[m], o[m]) /\ o[m] \in Places /\ o[m].by = "limiter"
        BY <1>3 DEF Places
      <3> QED BY <1>2, <3>1 DEF PlaceOf, Places
    <2>2. \A m \in counted : side(m) \in {1, 2} /\ side(m) \in 1..2
      OBVIOUS
    <2>3. ASSUME NEW m \in counted, NEW k \in counted, m # k,
                 o[m].bucket = o[k].bucket, side(m) = side(k), o[m].slot = o[k].slot
          PROVE  FALSE
      <3>1. o[m].ends # o[k].ends
        BY <1>4, <2>1, <2>3 DEF DifferentPlaces
      <3>2. Apart(o[m].ends, o[k].ends) \/ Apart(o[k].ends, o[m].ends)
        BY <1>4, <2>1, <2>3, <3>1 DEF DifferentPlaces
      <3>3. (o[m].ends <= a + Window) <=> (o[k].ends <= a + Window)
        BY <2>3
      <3>4. /\ passed[m] \in Nat /\ a <= passed[m] /\ passed[m] <= a + Window
            /\ passed[k] \in Nat /\ a <= passed[k] /\ passed[k] <= a + Window /\ a \in Nat
            /\ o[m].ends \in Nat /\ Within(passed[m], o[m].ends)
            /\ o[k].ends \in Nat /\ Within(passed[k], o[k].ends)
        BY <1>2, <2>1
      <3>5. CASE Apart(o[m].ends, o[k].ends)
        BY <3>3, <3>4, <3>5, TwoWindows
      <3>6. CASE Apart(o[k].ends, o[m].ends)
        BY <3>3, <3>4, <3>6, TwoWindows
      <3> QED BY <3>2, <3>5, <3>6
    <2> HIDE DEF counted, side
    <2>4. f \in Injection(counted, Used \X sides)
      <3>1. \A m \in counted : f[m] \in Used \X sides
        BY <2>1, <2>2
      <3>2. \A m, k \in counted : f[m] = f[k] => m = k
        BY <2>3
      <3> HIDE DEF sides
      <3> QED BY <3>1, <3>2 DEF Injection, IsInjective
    <2>5. IsFiniteSet(Used \X sides)
      BY <1>2, <1>6, FS_Product
    <2> HIDE DEF f
    <2> QED BY <2>4, <2>5, FS_Injection
  <1>8. Cardinality(Used \X sides) = Cardinality(Used) * (2 * Limit)
    BY <1>2, <1>6, FS_Product
  <1>9. Cardinality(burst) <= Cardinality(opened) + Cardinality(counted)
        /\ Cardinality(opened) \in Nat /\ Cardinality(counted) \in Nat /\ Cardinality(burst) \in Nat
    <2>1. burst = opened \union counted /\ opened \intersect counted = {}
      OBVIOUS
    <2> HIDE DEF opened, counted
    <2>2. /\ IsFiniteSet(opened \union counted)
          /\ Cardinality(opened \union counted) = Cardinality(opened) + Cardinality(counted) - Cardinality({})
      BY <1>5, <1>7, <2>1, FS_Union
    <2>3. Cardinality(opened) \in Nat /\ Cardinality(counted) \in Nat /\ Cardinality({}) = 0
      BY <1>5, <1>7, FS_EmptySet, FS_CardinalityType
    <2> QED BY <2>1, <2>2, <2>3
  <1> HIDE DEF opened, counted, sides
  <1>10. Cardinality(Used) \in Nat
    BY <1>2, FS_CardinalityType
  <1>11. Cardinality(Used) * (2 * Limit) = 2 * Limit * Cardinality(Used) /\ 2 * Limit * Cardinality(Used) \in Nat
    BY <1>2, <1>10
  <1>12. Cardinality(burst) <= 2 * Limit * Cardinality(Used) + failedOpen
    <2> DEFINE bound == 2 * Limit * Cardinality(Used)
    <2>1. Cardinality(counted) <= bound /\ bound \in Nat
      BY <1>7, <1>8, <1>11
    <2> HIDE DEF bound
    <2>2. Cardinality(burst) <= bound + failedOpen
      BY <1>2, <1>5, <1>9, <2>1
    <2> QED BY <2>2 DEF bound
  <1> QED BY <1>12 DEF burst, a

\* The fixed windows of memory and of Redis let at most twice the limit pass in
\* any stretch as long as a window, for every bucket, and besides only requests
\* for which Redis failed.
THEOREM BurstsAreBounded == Spec => []BurstBounded
  <1>1. IInv /\ LimiterInv => BurstBounded
    <2> SUFFICES ASSUME IInv, LimiterInv PROVE BurstBounded
      OBVIOUS
    <2>1. Cardinality(Used) = IF store = "redis" THEN 1 ELSE Cardinality(Gateways)
      BY FS_Singleton DEF Used
    <2> QED BY <2>1, BurstOf DEF BurstBounded
  <1> QED BY <1>1, LimiterInductive, PTL
==============================================================================
