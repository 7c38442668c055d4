------------------------------- MODULE Sessions -------------------------------
(***************************************************************************)
(* auth-service: users, refresh tokens that are rotated at every use, and  *)
(* the keys that sign access tokens.  Every replica has the same tables    *)
(* and a signer of its own: the key set it was started with, and which of  *)
(* its keys is active, which POST /rotate changes in that process alone.   *)
(*                                                                         *)
(* No request but the registration of a user is a transaction: Refresh     *)
(* reads the token, revokes it, and inserts another, in three statements.  *)
(* The row of a refresh token is a number, in the order of the inserts.    *)
(* A request that is refused changes nothing and is a stuttering step.     *)
(***************************************************************************)
EXTENDS Integers, Sequences, FiniteSets, SequencesExt

CONSTANTS
  Users,
  Requests,    \* requests being handled at one time
  Replicas,    \* replicas of auth-service
  KeySets,     \* the key sets of successive deployments
  Nobody,
  AccessTTL, RefreshTTL,
  MaxTime,     \* bound: of the clock
  MaxInputs    \* bound: requests of either service, rotations, deployments, faults

ASSUME SessionsAssumption ==
  /\ IsFiniteSet(Requests)
  /\ KeySets \in Seq(SUBSET UNION ToSet(KeySets)) /\ {} \notin ToSet(KeySets) /\ KeySets # <<>>
  /\ AccessTTL \in Nat \ {0} /\ RefreshTTL \in Nat \ {0}
  /\ MaxTime \in Nat /\ MaxInputs \in Nat

VARIABLES
  now,         \* the clock
  users,       \* users
  tokens,      \* refresh_tokens: [user, expires, revoked, from]; from is the
               \* token that was refreshed, 0 for a login
  held,        \* refresh tokens whose owner has got them
  access,      \* access tokens that have been handed out: [kid, exp]
  call,        \* call[q]: what the handler of request q is doing
  loggedOut,   \* tokens whose logout has been answered
  broken,      \* tokens whose refresh failed after it had revoked them
  deployed,    \* deployed[r]: the key set of replica r, an index of KeySets
  active,      \* active[r]: its active key
  inputs       \* how many so far

tableVars == <<users, tokens, held, access, call, loggedOut, broken>>
signerVars == <<deployed, active>>
authVars == <<now, tableVars, signerVars, inputs>>

Idle == [phase |-> "idle"]
NoJWT == [kid |-> Nobody, exp |-> 0]
Kids == UNION ToSet(KeySets)
\* The public keys that replica r serves.
JWKS(r) == KeySets[deployed[r]]

AuthTypeOK ==
  /\ now \in 0..MaxTime
  /\ users \subseteq Users
  /\ tokens \in Seq([user: Users, expires: Nat, revoked: BOOLEAN, from: Nat])
  /\ \A t \in DOMAIN tokens : tokens[t].from < t /\ tokens[t].user \in users
  /\ held \union loggedOut \union broken \subseteq {0} \union DOMAIN tokens
  /\ access \subseteq [kid: Kids, exp: Nat]
  /\ \A q \in Requests :
       call[q] # Idle => /\ call[q].phase \in {"revoke", "create", "answer", "logout"}
                         /\ call[q].from \in 0..Len(tokens)
  /\ \A r \in Replicas : deployed[r] \in DOMAIN KeySets /\ active[r] \in JWKS(r)
  /\ inputs \in 0..MaxInputs

Input ==
  /\ inputs < MaxInputs
  /\ inputs' = inputs + 1

\* issueJWT, with the key that is active in replica r.
IssueJWT(r) == [kid |-> active[r], exp |-> now + AccessTTL]
Goto(q, to) == call' = [call EXCEPT ![q] = to]

------------------------------------------------------------------------------
(* Register and Login: the access token is signed first, then the refresh   *)
(* token is inserted.                                                       *)

\* The user and auth.user.created.v1, in one transaction; the email is unique.
Register(q, r, u) ==
  /\ Input
  /\ call[q] = Idle /\ u \notin users
  /\ users' = users \union {u}
  /\ Goto(q, [phase |-> "create", user |-> u, from |-> 0, at |-> r, jwt |-> IssueJWT(r),
             token |-> 0])
  /\ UNCHANGED <<now, tokens, held, access, loggedOut, broken, signerVars>>

\* A password that does not fit is refused.
Login(q, r, u) ==
  /\ Input
  /\ call[q] = Idle /\ u \in users
  /\ Goto(q, [phase |-> "create", user |-> u, from |-> 0, at |-> r, jwt |-> IssueJWT(r),
             token |-> 0])
  /\ UNCHANGED <<now, users, tokens, held, access, loggedOut, broken, signerVars>>

------------------------------------------------------------------------------
(* Refresh.                                                                 *)

Expired(t) == tokens[t].expires < now
ExpiryOnly(t) == ~Expired(t)
\* GetByHash found a row that is neither revoked nor expired.
Usable(t) == ~tokens[t].revoked /\ ~Expired(t)

Refresh(q, r, t) ==
  /\ Input
  /\ call[q] = Idle
  /\ t \in held /\ Usable(t)
  /\ Goto(q, [phase |-> "revoke", user |-> tokens[t].user, from |-> t, at |-> r,
             jwt |-> NoJWT, token |-> 0])
  /\ UNCHANGED <<now, users, tokens, held, access, loggedOut, broken, signerVars>>

RevokeUser(t) ==
  tokens' = [n \in DOMAIN tokens |->
    [tokens[n] EXCEPT !.revoked = @ \/ tokens[n].user = tokens[t].user]]
RevokeNothing(t) == UNCHANGED tokens
\* UPDATE ... WHERE id = $1, whatever has become of the row meanwhile.
Revoke(t) == tokens' = [tokens EXCEPT ![t].revoked = TRUE]

RevokeForRefresh(q) ==
  /\ call[q].phase = "revoke"
  /\ Revoke(call[q].from)
  /\ call' = [call EXCEPT ![q].phase = "create"]
  /\ UNCHANGED <<now, users, held, access, loggedOut, broken, signerVars, inputs>>

\* issueRefreshToken, for all three.
CreateToken(q) ==
  LET c == call[q] IN
  /\ c.phase = "create"
  /\ tokens' = Append(tokens, [user |-> c.user, expires |-> now + RefreshTTL,
                               revoked |-> FALSE, from |-> c.from])
  /\ Goto(q, [c EXCEPT !.phase = "answer", !.token = Len(tokens) + 1])
  /\ UNCHANGED <<now, users, held, access, loggedOut, broken, signerVars, inputs>>

\* A refresh signs its access token now.
Answer(q) ==
  LET c == call[q] IN
  /\ c.phase = "answer"
  /\ held' = held \union {c.token}
  /\ access' = access \union {IF c.jwt = NoJWT THEN IssueJWT(c.at) ELSE c.jwt}
  /\ Goto(q, Idle)
  /\ UNCHANGED <<now, users, tokens, loggedOut, broken, signerVars, inputs>>

\* A statement fails, or the process or the connection dies: no answer, and
\* what a refresh has revoked by then stays revoked.
CallFails(q) ==
  /\ Input
  /\ call[q] # Idle
  /\ broken' = IF call[q].phase \in {"create", "answer"} THEN broken \union {call[q].from}
               ELSE broken
  /\ Goto(q, Idle)
  /\ UNCHANGED <<now, users, tokens, held, access, loggedOut, signerVars>>

------------------------------------------------------------------------------
(* Logout.                                                                  *)

\* GetByHash; a revoked token is answered at once.
Logout(q, r, t) ==
  /\ Input
  /\ call[q] = Idle /\ t \in held
  /\ IF tokens[t].revoked
     THEN loggedOut' = loggedOut \union {t} /\ UNCHANGED call
     ELSE Goto(q, [phase |-> "logout", from |-> t, at |-> r]) /\ UNCHANGED loggedOut
  /\ UNCHANGED <<now, users, tokens, held, access, broken, signerVars>>

RevokeForLogout(q) ==
  /\ call[q].phase = "logout"
  /\ Revoke(call[q].from)
  /\ loggedOut' = loggedOut \union {call[q].from}
  /\ Goto(q, Idle)
  /\ UNCHANGED <<now, users, held, access, broken, signerVars, inputs>>

------------------------------------------------------------------------------
(* The signers.                                                             *)

\* One replica, in memory.  Its audit record never gets into the database: the
\* two INSERTs have text where the tables have UUIDs, and the error is ignored.
Rotate(r, k) ==
  /\ Input
  /\ k \in JWKS(r) /\ k # active[r]
  /\ active' = [active EXCEPT ![r] = k]
  /\ UNCHANGED <<now, tableVars, deployed>>

\* buildSigner, when a replica starts with the key set of a later deployment.
Deploy(r, v, k) ==
  /\ Input
  /\ v \in DOMAIN KeySets /\ v > deployed[r] /\ k \in KeySets[v]
  /\ deployed' = [deployed EXCEPT ![r] = v]
  /\ active' = [active EXCEPT ![r] = k]
  /\ UNCHANGED <<now, tableVars>>

------------------------------------------------------------------------------
AuthInit ==
  /\ now = 0
  /\ users = {} /\ tokens = <<>> /\ held = {} /\ access = {}
  /\ call = [q \in Requests |-> Idle]
  /\ loggedOut = {} /\ broken = {}
  /\ deployed = [r \in Replicas |-> 1]
  /\ active \in [Replicas -> KeySets[1]]
  /\ inputs = 0

Handler(q) ==
  \/ \E r \in Replicas, u \in Users : Register(q, r, u) \/ Login(q, r, u)
  \/ \E r \in Replicas, t \in held : Refresh(q, r, t) \/ Logout(q, r, t)
  \/ RevokeForRefresh(q) \/ CreateToken(q) \/ Answer(q)
  \/ RevokeForLogout(q) \/ CallFails(q)

AuthNext ==
  \/ \E q \in Requests : Handler(q)
  \/ \E r \in Replicas, k \in Kids :
       Rotate(r, k) \/ \E v \in DOMAIN KeySets : Deploy(r, v, k)

------------------------------------------------------------------------------
(* Properties.                                                              *)

Children(t) == {n \in DOMAIN tokens : tokens[n].from = t}
Using(t) == {q \in Requests : call[q] # Idle /\ call[q].from = t /\ call[q].phase # "logout"}

\* A refresh token is used once, but for requests that have all read it before
\* the first of them revoked it: as many tokens come of it as there are
\* requests at one time, however often it is presented.
RotationBounded ==
  \A t \in DOMAIN tokens : Cardinality(Children(t)) <= Cardinality(Requests)

\* Once a logout is answered, its token brings forth nothing any more but what
\* a request makes of it that had read it before.
LogoutIsFinal ==
  [][\A t \in loggedOut : Using(t) = {} => Children(t)' = Children(t) /\ Using(t)' = {}]_authVars

\* Sessions of one user are independent, and rotation does not lose one: a
\* token in its owner's hands is unrevoked, or replaced by one that is in
\* them too or about to be, unless it was logged out or a request that had
\* revoked it failed.
RotationKeepsSession ==
  \A t \in held :
    \/ ~tokens[t].revoked
    \/ Children(t) \intersect held # {}
    \/ \E q \in Using(t) : call[q].phase \in {"create", "answer"}
    \/ t \in loggedOut \union broken
==============================================================================
