---------------------------- MODULE SessionsProofs ----------------------------
(***************************************************************************)
(* Lemmas about module Sessions, for every set of users, requests and      *)
(* replicas and every sequence of key sets: what the statements of the     *)
(* handlers keep, in whatever order they come.                             *)
(*                                                                         *)
(* A refresh token is revoked only through a request of its owner, who has *)
(* it; a request that has revoked a token is about to hand out another.    *)
(***************************************************************************)
EXTENDS Sessions, FiniteSetTheorems, TLAPS

TokenRecord == [user: Users, expires: Nat, revoked: BOOLEAN, from: Nat]
JWT == [kid: Kids, exp: Nat]
IssueCall == [phase: {"revoke", "create", "answer"}, user: Users, from: Nat, at: Replicas,
              jwt: JWT \union {NoJWT}, token: Nat]
LogoutCall == [phase: {"logout"}, from: Nat, at: Replicas]

Tables ==
  /\ now \in 0..MaxTime /\ inputs \in 0..MaxInputs
  /\ users \subseteq Users
  /\ tokens \in Seq(TokenRecord)
  /\ \A t \in DOMAIN tokens : tokens[t].from < t /\ tokens[t].user \in users
  /\ held \subseteq DOMAIN tokens
  /\ loggedOut \union broken \subseteq {0} \union DOMAIN tokens
  /\ access \subseteq JWT

Signers ==
  /\ deployed \in [Replicas -> DOMAIN KeySets]
  /\ active \in [Replicas -> Kids]
  /\ \A r \in Replicas : active[r] \in JWKS(r)

\* What the handler of q has in hand fits the tables.
Fits(q) ==
  /\ call[q].phase = "revoke" => call[q].from \in held /\ call[q].user \in users
  /\ call[q].phase = "logout" => call[q].from \in held
  /\ call[q].phase \in {"create", "answer"} =>
       call[q].user \in users /\ call[q].from \in {0} \union DOMAIN tokens
  /\ call[q].phase = "answer" =>
       /\ call[q].token \in DOMAIN tokens \ held
       /\ tokens[call[q].token].from = call[q].from

\* The token that q is about to hand out is its own.
Distinct(q, s) ==
  call[q].phase = "answer" /\ call[s].phase = "answer" => call[q].token # call[s].token

AnyCall == {Idle} \union IssueCall \union LogoutCall

Calls ==
  /\ call \in [Requests -> AnyCall]
  /\ \A q \in Requests : Fits(q)
  /\ \A q, s \in Requests : q # s => Distinct(q, s)

HasRevoked(q) ==
  call[q].phase \in {"create", "answer"} /\ call[q].from # 0 => tokens[call[q].from].revoked

\* Only tokens that their owner has are revoked, by a refresh or a logout.
Revocations ==
  /\ \A t \in DOMAIN tokens : tokens[t].revoked => t \in held
  /\ \A t \in loggedOut : t \in DOMAIN tokens /\ tokens[t].revoked
  /\ \A q \in Requests : HasRevoked(q)

AuthInv == Tables /\ Signers /\ Calls /\ Revocations /\ RotationKeepsSession

LEMMA KeySetFacts ==
  /\ KeySets \in Seq(SUBSET Kids) /\ KeySets # <<>>
  /\ \A v \in DOMAIN KeySets : KeySets[v] \subseteq Kids /\ KeySets[v] # {}
  /\ 1 \in DOMAIN KeySets
  <1>1. KeySets \in Seq(SUBSET Kids) /\ KeySets # <<>>
    BY SessionsAssumption DEF Kids
  <1>2. \A v \in DOMAIN KeySets : KeySets[v] # {}
    BY SessionsAssumption DEF ToSet
  <1> QED BY <1>1, <1>2

LEMMA IdleIsNoCall == Idle \notin IssueCall /\ Idle \notin LogoutCall /\ Idle.phase = "idle"
  BY DEF Idle, IssueCall, LogoutCall

LEMMA CallPhase ==
  ASSUME Calls, NEW q \in Requests
  PROVE  /\ call[q].phase \in {"revoke", "create", "answer"} <=> call[q] \in IssueCall
         /\ call[q].phase = "logout" <=> call[q] \in LogoutCall
         /\ call[q].phase = "idle" <=> call[q] = Idle
         /\ call[q] \in AnyCall
  BY DEF Calls, AnyCall, Idle, IssueCall, LogoutCall

LEMMA InitAuth == AuthInit => AuthInv
  <1> SUFFICES ASSUME AuthInit PROVE AuthInv
    OBVIOUS
  <1>1. Tables
    BY SessionsAssumption DEF AuthInit, Tables
  <1>2. Signers
    BY KeySetFacts DEF AuthInit, Signers, JWKS
  <1>3. Calls /\ Revocations
    BY DEF AuthInit, Calls, AnyCall, Fits, Distinct, Revocations, HasRevoked, Idle
  <1>4. RotationKeepsSession
    BY DEF AuthInit, RotationKeepsSession
  <1> QED BY <1>1, <1>2, <1>3, <1>4 DEF AuthInv

------------------------------------------------------------------------------
(* What the step of one handler has to keep.                                *)

\* Only the call of q changes, and the tables grow.
Grows(q) ==
  /\ call' \in [Requests -> AnyCall]
  /\ \A s \in Requests \ {q} : call'[s] = call[s]
  /\ users \subseteq users' /\ held \subseteq held'
  /\ loggedOut \subseteq loggedOut' /\ broken \subseteq broken'
  /\ \A t \in DOMAIN tokens :
       /\ t \in DOMAIN tokens' /\ tokens'[t].from = tokens[t].from
       /\ tokens[t].revoked => tokens'[t].revoked

LEMMA CallGoes ==
  ASSUME Calls, NEW q \in Requests, NEW x \in AnyCall, Goto(q, x)
  PROVE  /\ call' \in [Requests -> AnyCall]
         /\ call'[q] = x
         /\ \A s \in Requests \ {q} : call'[s] = call[s]
  BY DEF Calls, Goto

LEMMA CallsStep ==
  ASSUME Calls, NEW q \in Requests, Grows(q), Fits(q)',
         \A s \in Requests \ {q} :
           call[s].phase = "answer" =>
             /\ call[s].token \notin held'
             /\ call'[q].phase = "answer" => call'[q].token # call[s].token
  PROVE  Calls'
  <1>1. \A s \in Requests \ {q} : Fits(s)'
    BY DEF Calls, Grows, Fits
  <1>2. \A s, r \in Requests : s # r => Distinct(s, r)'
    BY DEF Calls, Grows, Distinct
  <1> QED BY <1>1, <1>2 DEF Calls, Grows

LEMMA RevocationsStep ==
  ASSUME Revocations, Calls, NEW q \in Requests, Grows(q), HasRevoked(q)',
         \A t \in DOMAIN tokens' : tokens'[t].revoked => t \in held',
         \A t \in loggedOut' \ loggedOut : t \in DOMAIN tokens' /\ tokens'[t].revoked
  PROVE  Revocations'
  <1>1. \A s \in Requests \ {q} : HasRevoked(s)'
    <2> SUFFICES ASSUME NEW s \in Requests \ {q}, call[s].phase \in {"create", "answer"},
                        call[s].from # 0
                 PROVE  tokens'[call[s].from].revoked
      BY DEF HasRevoked, Grows
    <2>1. call[s].from \in DOMAIN tokens /\ tokens[call[s].from].revoked
      BY DEF Revocations, HasRevoked, Calls, Fits
    <2> QED BY <2>1 DEF Grows
  <1> QED BY <1>1 DEF Revocations, Grows

\* A token stays alive, or the handler that revoked it is on its way to the
\* answer, has answered, or has broken the session.
LEMMA SessionStep ==
  ASSUME RotationKeepsSession, held \subseteq DOMAIN tokens, NEW q \in Requests, Grows(q),
         \A t \in held' \ held : ~tokens'[t].revoked,
         \A t \in held : tokens'[t].revoked =>
            \/ tokens[t].revoked
            \/ t \in loggedOut'
            \/ call'[q].phase \in {"create", "answer"} /\ call'[q].from = t,
         call[q].phase \in {"create", "answer"} =>
            \/ call'[q].phase \in {"create", "answer"} /\ call'[q].from = call[q].from
            \/ call[q].from \in broken'
            \/ \E n \in held' : n \in DOMAIN tokens' /\ tokens'[n].from = call[q].from
  PROVE  RotationKeepsSession'
  <1> SUFFICES ASSUME NEW t \in held, tokens'[t].revoked
               PROVE  \/ Children(t)' \intersect held' # {}
                      \/ \E s \in Using(t)' : call'[s].phase \in {"create", "answer"}
                      \/ t \in loggedOut' \union broken'
    BY DEF RotationKeepsSession, Grows
  <1>1. \A s \in Requests : call'[s].phase \in {"create", "answer"} /\ call'[s].from = t
                              => s \in Using(t)'
    BY DEF Using, Idle
  <1>2. CASE ~tokens[t].revoked
    BY <1>1, <1>2
  <1>3. CASE Children(t) \intersect held # {}
    BY <1>3 DEF Children, Grows
  <1>4. ASSUME NEW s \in Using(t), call[s].phase \in {"create", "answer"}
        PROVE  \/ Children(t)' \intersect held' # {}
               \/ \E r \in Using(t)' : call'[r].phase \in {"create", "answer"}
               \/ t \in loggedOut' \union broken'
    <2>1. s \in Requests /\ call[s].from = t
      BY DEF Using
    <2>2. CASE s # q
      BY <1>1, <1>4, <2>1, <2>2 DEF Grows
    <2>3. CASE s = q
      BY <1>1, <1>4, <2>1, <2>3 DEF Children
    <2> QED BY <2>2, <2>3
  <1>5. CASE t \in loggedOut \union broken
    BY <1>5 DEF Grows
  <1> QED BY <1>2, <1>3, <1>4, <1>5 DEF RotationKeepsSession

------------------------------------------------------------------------------
(* The handlers.                                                            *)

LEMMA JWTIssued ==
  ASSUME Signers, now \in 0..MaxTime, NEW r \in Replicas
  PROVE  IssueJWT(r) \in JWT
  BY SessionsAssumption DEF Signers, IssueJWT, JWT

LEMMA TokenFacts ==
  ASSUME Tables, NEW t \in DOMAIN tokens
  PROVE  /\ t \in Nat \ {0} /\ tokens[t] \in TokenRecord
         /\ tokens[t].user \in users /\ tokens[t].user \in Users
         /\ tokens[t].revoked \in BOOLEAN /\ tokens[t].from \in Nat
  <1>1. t \in Nat \ {0} /\ tokens[t] \in TokenRecord
    BY DEF Tables
  <1> QED BY <1>1 DEF Tables, TokenRecord

\* A call begins with an idle handler; the tables of tokens stay.
LEMMA BeginInv ==
  ASSUME AuthInv, NEW q \in Requests, NEW x \in IssueCall \union LogoutCall,
         call[q] = Idle, Goto(q, x), x.phase \in {"create", "revoke", "logout"},
         x.phase = "create" => x.from = 0 /\ x.user \in users',
         x.phase = "revoke" => x.from \in held /\ x.user \in users',
         x.phase = "logout" => x.from \in held,
         users \subseteq users', users' \subseteq Users, inputs' \in 0..MaxInputs,
         UNCHANGED <<now, tokens, held, access, loggedOut, broken, deployed, active>>
  PROVE  AuthInv'
  <1>1. call' \in [Requests -> AnyCall] /\ call'[q] = x /\ \A s \in Requests \ {q} : call'[s] = call[s]
    BY CallGoes DEF AuthInv, AnyCall
  <1>2. Grows(q)
    BY <1>1 DEF Grows
  <1>3. Tables' /\ Signers'
    BY DEF AuthInv, Tables, Signers, JWKS
  <1>4. Fits(q)'
    BY <1>1 DEF Fits
  <1>5. Calls'
    BY <1>1, <1>2, <1>4, CallsStep DEF AuthInv, Calls, Fits
  <1>6. HasRevoked(q)'
    BY <1>1 DEF HasRevoked
  <1>7. Revocations'
    BY <1>2, <1>6, RevocationsStep DEF AuthInv, Revocations
  <1>8. call[q].phase \notin {"create", "answer"}
    BY DEF Idle
  <1>9. RotationKeepsSession'
    BY <1>2, <1>8, SessionStep DEF AuthInv, Tables
  <1> QED BY <1>3, <1>5, <1>7, <1>9 DEF AuthInv

LEMMA StartInv ==
  ASSUME AuthInv, NEW q \in Requests, NEW r \in Replicas, NEW u \in Users,
         Register(q, r, u) \/ Login(q, r, u)
  PROVE  AuthInv'
  <1> DEFINE y == [phase |-> "create", user |-> u, from |-> 0, at |-> r, jwt |-> IssueJWT(r),
                   token |-> 0]
  <1>1. y \in IssueCall /\ y.phase = "create" /\ y.user = u /\ y.from = 0
    BY JWTIssued DEF IssueCall, AuthInv, Tables
  <1>2. /\ call[q] = Idle /\ Goto(q, y)
        /\ UNCHANGED <<now, tokens, held, access, loggedOut, broken, deployed, active>>
        /\ users \subseteq users' /\ u \in users' /\ users' \subseteq Users
        /\ inputs' \in 0..MaxInputs
    BY SessionsAssumption DEF Register, Login, Input, signerVars, AuthInv, Tables
  <1> HIDE DEF y
  <1> PICK x \in IssueCall : x = y
    BY <1>1
  <1> QED BY <1>1, <1>2, BeginInv

LEMMA RefreshInv ==
  ASSUME AuthInv, NEW q \in Requests, NEW r \in Replicas, NEW t \in held, Refresh(q, r, t)
  PROVE  AuthInv'
  <1> DEFINE y == [phase |-> "revoke", user |-> tokens[t].user, from |-> t, at |-> r,
                   jwt |-> NoJWT, token |-> 0]
  <1>1. t \in DOMAIN tokens
    BY DEF AuthInv, Tables
  <1>2. /\ y \in IssueCall /\ y.phase = "revoke" /\ y.from = t
        /\ y.user = tokens[t].user /\ y.user \in users
    BY <1>1, TokenFacts DEF IssueCall, AuthInv
  <1>3. /\ call[q] = Idle /\ Goto(q, y)
        /\ UNCHANGED <<now, users, tokens, held, access, loggedOut, broken, deployed, active>>
        /\ inputs' \in 0..MaxInputs /\ users \subseteq Users
    BY SessionsAssumption DEF Refresh, Input, signerVars, AuthInv, Tables
  <1> HIDE DEF y
  <1> PICK x \in IssueCall : x = y
    BY <1>2
  <1> QED BY <1>2, <1>3, BeginInv

\* The case of a token that is not revoked.
LEMMA LogoutBeginsInv ==
  ASSUME AuthInv, NEW q \in Requests, NEW r \in Replicas, NEW t \in held, Logout(q, r, t),
         ~tokens[t].revoked
  PROVE  AuthInv'
  <1> DEFINE y == [phase |-> "logout", from |-> t, at |-> r]
  <1>1. t \in Nat
    BY TokenFacts DEF AuthInv, Tables
  <1>2. y \in LogoutCall /\ y.phase = "logout" /\ y.from = t
    BY <1>1 DEF LogoutCall
  <1>3. /\ call[q] = Idle /\ Goto(q, y)
        /\ UNCHANGED <<now, users, tokens, held, access, loggedOut, broken, deployed, active>>
        /\ inputs' \in 0..MaxInputs /\ users \subseteq Users
    BY SessionsAssumption DEF Logout, Input, signerVars, AuthInv, Tables
  <1> HIDE DEF y
  <1> PICK x \in LogoutCall : x = y
    BY <1>2
  <1> QED BY <1>2, <1>3, BeginInv

\* A logout of a revoked token is answered at once.
LEMMA LogoutAnsweredInv ==
  ASSUME AuthInv, NEW q \in Requests, NEW r \in Replicas, NEW t \in held, Logout(q, r, t),
         tokens[t].revoked
  PROVE  AuthInv'
  <1>1. /\ loggedOut' = loggedOut \union {t} /\ t \in DOMAIN tokens
        /\ UNCHANGED <<now, users, tokens, held, access, call, broken, deployed, active>>
        /\ inputs' \in 0..MaxInputs
    BY SessionsAssumption DEF Logout, Input, signerVars, AuthInv, Tables
  <1>2. Tables' /\ Signers'
    BY <1>1 DEF AuthInv, Tables, Signers, JWKS
  <1>3. Calls'
    BY <1>1 DEF AuthInv, Calls, Fits, Distinct
  <1>4. Revocations'
    BY <1>1 DEF AuthInv, Revocations, HasRevoked
  <1>5. RotationKeepsSession'
    BY <1>1 DEF AuthInv, RotationKeepsSession, Children, Using
  <1> QED BY <1>2, <1>3, <1>4, <1>5 DEF AuthInv

\* UPDATE ... SET revoked: what one row's change does to the table.
LEMMA RevokeEffect ==
  ASSUME Tables, NEW t \in DOMAIN tokens, Revoke(t)
  PROVE  /\ tokens' \in Seq(TokenRecord) /\ DOMAIN tokens' = DOMAIN tokens
         /\ \A n \in DOMAIN tokens :
              /\ tokens'[n].from = tokens[n].from /\ tokens'[n].user = tokens[n].user
              /\ (tokens'[n].revoked <=> n = t \/ tokens[n].revoked)
  <1> DEFINE x == [tokens[t] EXCEPT !.revoked = TRUE]
  <1>1. /\ x \in TokenRecord /\ x.revoked = TRUE
        /\ x.from = tokens[t].from /\ x.user = tokens[t].user
    BY TokenFacts DEF TokenRecord
  <1>2. tokens' = [tokens EXCEPT ![t] = x]
    BY DEF Revoke
  <1> HIDE DEF x
  <1>3. tokens' \in Seq(TokenRecord) /\ DOMAIN tokens' = DOMAIN tokens
    BY <1>1, <1>2 DEF Tables
  <1>4. \A n \in DOMAIN tokens : tokens'[n] = IF n = t THEN x ELSE tokens[n]
    BY <1>2 DEF Tables
  <1> QED BY <1>1, <1>3, <1>4

LEMMA RevokeForRefreshInv ==
  ASSUME AuthInv, NEW q \in Requests, RevokeForRefresh(q)
  PROVE  AuthInv'
  <1>1. call[q].phase = "revoke" /\ call[q] \in IssueCall
    BY CallPhase DEF RevokeForRefresh, AuthInv
  <1> PICK t \in held : t = call[q].from /\ t \in DOMAIN tokens /\ t \in Nat \ {0}
    BY <1>1, TokenFacts DEF AuthInv, Calls, Fits, Tables
  <1> PICK x \in IssueCall : /\ x = [call[q] EXCEPT !.phase = "create"]
                             /\ x.phase = "create" /\ x.user = call[q].user /\ x.from = t
    <2> DEFINE y == [call[q] EXCEPT !.phase = "create"]
    <2>1. y \in IssueCall /\ y.phase = "create" /\ y.user = call[q].user /\ y.from = call[q].from
      BY <1>1 DEF IssueCall
    <2> QED BY <2>1
  <1>2. /\ Revoke(t) /\ Goto(q, x)
        /\ UNCHANGED <<now, users, held, access, loggedOut, broken, deployed, active, inputs>>
    BY DEF RevokeForRefresh, signerVars, Goto
  <1>3. x.user \in users
    BY <1>1 DEF AuthInv, Calls, Fits
  <1>4. /\ tokens' \in Seq(TokenRecord) /\ DOMAIN tokens' = DOMAIN tokens
        /\ \A n \in DOMAIN tokens :
             /\ tokens'[n].from = tokens[n].from /\ tokens'[n].user = tokens[n].user
             /\ (tokens'[n].revoked <=> n = t \/ tokens[n].revoked)
    BY <1>2, RevokeEffect DEF AuthInv
  <1>5. call' \in [Requests -> AnyCall] /\ call'[q] = x /\ \A s \in Requests \ {q} : call'[s] = call[s]
    BY <1>2, CallGoes DEF AuthInv, AnyCall
  <1>6. Grows(q)
    BY <1>2, <1>4, <1>5 DEF Grows
  <1>7. Tables' /\ Signers'
    BY <1>2, <1>4 DEF AuthInv, Tables, Signers, JWKS
  <1>8. Fits(q)'
    BY <1>2, <1>3, <1>4, <1>5 DEF Fits
  <1>9. Calls'
    BY <1>2, <1>5, <1>6, <1>8, CallsStep DEF AuthInv, Calls, Fits
  <1>10. HasRevoked(q)'
    BY <1>4, <1>5 DEF HasRevoked
  <1>11. Revocations'
    <2>1. \A n \in DOMAIN tokens' : tokens'[n].revoked => n \in held'
      BY <1>2, <1>4 DEF AuthInv, Revocations
    <2> QED BY <1>2, <1>6, <1>10, <2>1, RevocationsStep DEF AuthInv
  <1>12. RotationKeepsSession'
    <2>1. \A n \in held : tokens'[n].revoked => tokens[n].revoked \/ n = t
      BY <1>4 DEF AuthInv, Tables
    <2> QED BY <1>1, <1>2, <1>5, <1>6, <2>1, SessionStep DEF AuthInv, Tables
  <1> QED BY <1>7, <1>9, <1>11, <1>12 DEF AuthInv

LEMMA RevokeForLogoutInv ==
  ASSUME AuthInv, NEW q \in Requests, RevokeForLogout(q)
  PROVE  AuthInv'
  <1>1. call[q].phase = "logout"
    BY DEF RevokeForLogout
  <1> PICK t \in held : t = call[q].from /\ t \in DOMAIN tokens
    BY <1>1, TokenFacts DEF AuthInv, Calls, Fits, Tables
  <1>2. /\ Revoke(t) /\ Goto(q, Idle) /\ loggedOut' = loggedOut \union {t}
        /\ UNCHANGED <<now, users, held, access, broken, deployed, active, inputs>>
    BY DEF RevokeForLogout, signerVars
  <1>3. /\ tokens' \in Seq(TokenRecord) /\ DOMAIN tokens' = DOMAIN tokens
        /\ \A n \in DOMAIN tokens :
             /\ tokens'[n].from = tokens[n].from /\ tokens'[n].user = tokens[n].user
             /\ (tokens'[n].revoked <=> n = t \/ tokens[n].revoked)
    BY <1>2, RevokeEffect DEF AuthInv
  <1>4. call' \in [Requests -> AnyCall] /\ call'[q] = Idle /\ \A s \in Requests \ {q} : call'[s] = call[s]
    BY <1>2, CallGoes DEF AuthInv, AnyCall
  <1>5. Grows(q)
    BY <1>2, <1>3, <1>4 DEF Grows
  <1>6. Tables' /\ Signers'
    BY <1>2, <1>3 DEF AuthInv, Tables, Signers, JWKS
  <1>7. Fits(q)' /\ HasRevoked(q)'
    BY <1>4, IdleIsNoCall DEF Fits, HasRevoked
  <1>8. Calls'
    BY <1>2, <1>4, <1>5, <1>7, IdleIsNoCall, CallsStep DEF AuthInv, Calls, Fits
  <1>9. Revocations'
    <2>1. \A n \in DOMAIN tokens' : tokens'[n].revoked => n \in held'
      BY <1>2, <1>3 DEF AuthInv, Revocations
    <2>2. \A n \in loggedOut' \ loggedOut : n \in DOMAIN tokens' /\ tokens'[n].revoked
      BY <1>2, <1>3
    <2> QED BY <1>2, <1>5, <1>7, <2>1, <2>2, RevocationsStep DEF AuthInv
  <1>10. RotationKeepsSession'
    <2>1. \A n \in held : tokens'[n].revoked => tokens[n].revoked \/ n = t
      BY <1>3 DEF AuthInv, Tables
    <2> QED BY <1>1, <1>2, <1>5, <2>1, SessionStep DEF AuthInv, Tables
  <1> QED BY <1>6, <1>8, <1>9, <1>10 DEF AuthInv

LEMMA CreateTokenInv ==
  ASSUME AuthInv, NEW q \in Requests, CreateToken(q)
  PROVE  AuthInv'
  <1> DEFINE row == [user |-> call[q].user, expires |-> now + RefreshTTL,
                     revoked |-> FALSE, from |-> call[q].from]
  <1>1. call[q].phase = "create" /\ call[q] \in IssueCall
    BY CallPhase DEF CreateToken, AuthInv
  <1> PICK n \in Nat \ {0} : n = Len(tokens) + 1 /\ n \notin DOMAIN tokens
    BY DEF AuthInv, Tables
  <1> PICK x \in IssueCall :
         /\ x = [call[q] EXCEPT !.phase = "answer", !.token = Len(tokens) + 1]
         /\ x.phase = "answer" /\ x.token = n /\ x.user = call[q].user /\ x.from = call[q].from
    <2> DEFINE y == [call[q] EXCEPT !.phase = "answer", !.token = n]
    <2>1. /\ y \in IssueCall /\ y.phase = "answer" /\ y.token = n
          /\ y.user = call[q].user /\ y.from = call[q].from
      BY <1>1 DEF IssueCall
    <2> QED BY <2>1
  <1>2. /\ Goto(q, x) /\ tokens' = Append(tokens, row)
        /\ UNCHANGED <<now, users, held, access, loggedOut, broken, deployed, active, inputs>>
    BY DEF CreateToken, signerVars
  <1>3. /\ call[q].user \in users /\ call[q].user \in Users
        /\ call[q].from \in {0} \union DOMAIN tokens /\ call[q].from \in Nat
    BY <1>1 DEF AuthInv, Calls, Fits, Tables, IssueCall
  <1>4. /\ row \in TokenRecord /\ ~row.revoked /\ row.from = call[q].from
        /\ row.user = call[q].user
    BY <1>3, SessionsAssumption DEF TokenRecord, AuthInv, Tables
  <1> HIDE DEF row
  <1>5. /\ tokens' \in Seq(TokenRecord) /\ DOMAIN tokens' = DOMAIN tokens \union {n}
        /\ tokens'[n] = row /\ \A t \in DOMAIN tokens : tokens'[t] = tokens[t]
    BY <1>2, <1>4 DEF AuthInv, Tables
  <1>6. call' \in [Requests -> AnyCall] /\ call'[q] = x /\ \A s \in Requests \ {q} : call'[s] = call[s]
    BY <1>2, CallGoes DEF AuthInv, AnyCall
  <1>7. Grows(q)
    BY <1>2, <1>5, <1>6 DEF Grows
  <1>8. call[q].from < n
    BY <1>3 DEF AuthInv, Tables
  <1>9. Tables' /\ Signers'
    BY <1>2, <1>3, <1>4, <1>5, <1>8 DEF AuthInv, Tables, Signers, JWKS
  <1>10. n \notin held
    BY DEF AuthInv, Tables
  <1>11. Fits(q)'
    BY <1>2, <1>3, <1>4, <1>5, <1>6, <1>10 DEF Fits
  <1>12. Calls'
    BY <1>2, <1>6, <1>7, <1>11, CallsStep DEF AuthInv, Calls, Fits
  <1>13. HasRevoked(q)'
    <2>1. call[q].from # 0 => call[q].from \in DOMAIN tokens /\ tokens[call[q].from].revoked
      BY <1>1, <1>3 DEF AuthInv, Revocations, HasRevoked
    <2> QED BY <1>5, <1>6, <2>1 DEF HasRevoked
  <1>14. Revocations'
    <2>1. \A t \in DOMAIN tokens' : tokens'[t].revoked => t \in held'
      BY <1>2, <1>4, <1>5 DEF AuthInv, Revocations
    <2> QED BY <1>2, <1>7, <1>13, <2>1, RevocationsStep DEF AuthInv
  <1>15. RotationKeepsSession'
    <2>1. \A t \in held : tokens'[t].revoked => tokens[t].revoked
      BY <1>5 DEF AuthInv, Tables
    <2> QED BY <1>2, <1>6, <1>7, <2>1, SessionStep DEF AuthInv, Tables
  <1> QED BY <1>9, <1>12, <1>14, <1>15 DEF AuthInv

LEMMA AnswerInv ==
  ASSUME AuthInv, NEW q \in Requests, Answer(q)
  PROVE  AuthInv'
  <1>1. call[q].phase = "answer" /\ call[q] \in IssueCall
    BY CallPhase DEF Answer, AuthInv
  <1> PICK n \in DOMAIN tokens :
         n = call[q].token /\ n \notin held /\ tokens[n].from = call[q].from
    BY <1>1 DEF AuthInv, Calls, Fits
  <1>2. /\ Goto(q, Idle) /\ held' = held \union {n} /\ access' \subseteq JWT
        /\ UNCHANGED <<now, users, tokens, loggedOut, broken, deployed, active, inputs>>
    <2>1. /\ call[q].at \in Replicas
          /\ call[q].jwt # NoJWT => call[q].jwt \in JWT
      BY <1>1 DEF IssueCall
    <2>2. IssueJWT(call[q].at) \in JWT
      BY <2>1, JWTIssued DEF AuthInv, Tables
    <2> QED BY <2>1, <2>2 DEF Answer, signerVars, AuthInv, Tables
  <1>3. call' \in [Requests -> AnyCall] /\ call'[q] = Idle /\ \A s \in Requests \ {q} : call'[s] = call[s]
    BY <1>2, CallGoes DEF AuthInv, AnyCall
  <1>4. Grows(q)
    BY <1>2, <1>3 DEF Grows
  <1>5. Tables' /\ Signers'
    BY <1>2 DEF AuthInv, Tables, Signers, JWKS
  <1>6. Fits(q)' /\ HasRevoked(q)'
    BY <1>3, IdleIsNoCall DEF Fits, HasRevoked
  <1>7. \A s \in Requests \ {q} : call[s].phase = "answer" => call[s].token \notin held'
    BY <1>1, <1>2 DEF AuthInv, Calls, Fits, Distinct
  <1>8. Calls'
    BY <1>3, <1>4, <1>6, <1>7, IdleIsNoCall, CallsStep DEF AuthInv
  <1>9. Revocations'
    BY <1>2, <1>4, <1>6, RevocationsStep DEF AuthInv, Revocations
  <1>10. RotationKeepsSession'
    <2>1. ~tokens[n].revoked
      BY DEF AuthInv, Revocations
    <2> QED BY <1>2, <1>4, <2>1, SessionStep DEF AuthInv, Tables
  <1> QED BY <1>5, <1>8, <1>9, <1>10 DEF AuthInv

LEMMA CallFailsInv ==
  ASSUME AuthInv, NEW q \in Requests, CallFails(q)
  PROVE  AuthInv'
  <1>1. /\ Goto(q, Idle) /\ inputs' \in 0..MaxInputs
        /\ call[q].phase \in {"create", "answer"} => call[q].from \in broken'
        /\ broken \subseteq broken'
        /\ UNCHANGED <<now, users, tokens, held, access, loggedOut, deployed, active>>
    BY SessionsAssumption DEF CallFails, Input, signerVars, AuthInv, Tables
  <1>2. broken' \subseteq {0} \union DOMAIN tokens
    BY DEF CallFails, AuthInv, Calls, Fits, Tables
  <1>3. call' \in [Requests -> AnyCall] /\ call'[q] = Idle /\ \A s \in Requests \ {q} : call'[s] = call[s]
    BY <1>1, CallGoes DEF AuthInv, AnyCall
  <1>4. Grows(q)
    BY <1>1, <1>3 DEF Grows
  <1>5. Tables' /\ Signers'
    BY <1>1, <1>2 DEF AuthInv, Tables, Signers, JWKS
  <1>6. Fits(q)' /\ HasRevoked(q)'
    BY <1>3, IdleIsNoCall DEF Fits, HasRevoked
  <1>7. Calls'
    BY <1>1, <1>3, <1>4, <1>6, IdleIsNoCall, CallsStep DEF AuthInv, Calls, Fits
  <1>8. Revocations'
    BY <1>1, <1>4, <1>6, RevocationsStep DEF AuthInv, Revocations
  <1>9. RotationKeepsSession'
    BY <1>1, <1>4, SessionStep DEF AuthInv, Tables
  <1> QED BY <1>5, <1>7, <1>8, <1>9 DEF AuthInv

\* The signers, the clock and the count of inputs have no part in the sessions.
LEMMA OutsideInv ==
  ASSUME AuthInv, UNCHANGED tableVars, now' \in 0..MaxTime, inputs' \in 0..MaxInputs, Signers'
  PROVE  AuthInv'
  <1>1. Tables' /\ Calls' /\ Revocations'
    BY DEF tableVars, AuthInv, Tables, Calls, Fits, Distinct, Revocations, HasRevoked
  <1>2. RotationKeepsSession'
    BY DEF tableVars, AuthInv, RotationKeepsSession, Children, Using
  <1> QED BY <1>1, <1>2 DEF AuthInv

LEMMA SignerInv ==
  ASSUME AuthInv, NEW r \in Replicas, NEW k \in Kids,
         Rotate(r, k) \/ \E v \in DOMAIN KeySets : Deploy(r, v, k)
  PROVE  AuthInv'
  <1>1. /\ UNCHANGED tableVars /\ now' \in 0..MaxTime /\ inputs' \in 0..MaxInputs
    BY SessionsAssumption DEF Rotate, Deploy, Input, AuthInv, Tables
  <1>2. Signers'
    BY DEF Rotate, Deploy, AuthInv, Signers, JWKS
  <1> QED BY <1>1, <1>2, OutsideInv

LEMMA HandlerInv ==
  ASSUME AuthInv, NEW q \in Requests, Handler(q)
  PROVE  AuthInv'
  <1>1. \A t \in held : tokens[t].revoked \in BOOLEAN
    BY TokenFacts DEF AuthInv, Tables
  <1> QED BY <1>1, StartInv, RefreshInv, LogoutBeginsInv, LogoutAnsweredInv, RevokeForRefreshInv,
             CreateTokenInv, AnswerInv, RevokeForLogoutInv, CallFailsInv DEF Handler

LEMMA AuthStep == ASSUME AuthInv, AuthNext PROVE AuthInv'
  BY HandlerInv, SignerInv DEF AuthNext

------------------------------------------------------------------------------
LEMMA AuthTypes == AuthInv => AuthTypeOK
  <1> SUFFICES ASSUME AuthInv PROVE AuthTypeOK
    OBVIOUS
  <1>1. \A q \in Requests : call[q] # Idle =>
          /\ call[q].phase \in {"revoke", "create", "answer", "logout"}
          /\ call[q].from \in 0..Len(tokens)
    <2> SUFFICES ASSUME NEW q \in Requests, call[q] # Idle
                 PROVE  /\ call[q].phase \in {"revoke", "create", "answer", "logout"}
                        /\ call[q].from \in 0..Len(tokens)
      OBVIOUS
    <2>1. call[q].phase \in {"revoke", "create", "answer", "logout"}
      BY CallPhase DEF AuthInv, AnyCall
    <2>2. call[q].from \in {0} \union DOMAIN tokens
      BY <2>1 DEF AuthInv, Calls, Fits, Tables
    <2>3. tokens \in Seq(TokenRecord)
      BY DEF AuthInv, Tables
    <2> QED BY <2>1, <2>2, <2>3
  <1>2. \A r \in Replicas : deployed[r] \in DOMAIN KeySets /\ active[r] \in JWKS(r)
    BY DEF AuthInv, Signers
  <1> QED BY <1>1, <1>2 DEF AuthInv, Tables, AuthTypeOK, TokenRecord, JWT

\* What a step of auth-service may do once the logout of t is answered: make
\* tokens of t only for requests that already have it in hand.
LEMMA LogoutStep ==
  ASSUME AuthInv, AuthNext, NEW t \in loggedOut, Using(t) = {}
  PROVE  Children(t)' = Children(t) /\ Using(t)' = {}
  <1>1. t \in DOMAIN tokens /\ tokens[t].revoked /\ t # 0
    BY TokenFacts DEF AuthInv, Revocations
  <1>2. \A q \in Requests : call[q] # Idle /\ call[q].phase # "logout" => call[q].from # t
    BY DEF Using
  <1>3. ASSUME NEW q \in Requests, NEW x, Goto(q, x),
               x = Idle \/ x.phase = "logout" \/ x.from # t
        PROVE Using(t)' = {}
    BY <1>2, <1>3 DEF Using, Goto, AuthInv, Calls
  <1>4. ASSUME NEW q \in Requests, NEW r \in Replicas, NEW u \in Users,
               Register(q, r, u) \/ Login(q, r, u)
        PROVE Children(t)' = Children(t) /\ Using(t)' = {}
    <2> PICK x : Goto(q, x) /\ x.from = 0 /\ tokens' = tokens
      BY <1>4 DEF Register, Login
    <2> QED BY <1>1, <1>3 DEF Children
  <1>5. ASSUME NEW q \in Requests, NEW r \in Replicas, NEW n \in held, Refresh(q, r, n)
        PROVE Children(t)' = Children(t) /\ Using(t)' = {}
    <2>1. n # t
      BY <1>1, <1>5 DEF Refresh, Usable
    <2> PICK x : Goto(q, x) /\ x.from = n /\ tokens' = tokens
      BY <1>5 DEF Refresh
    <2> QED BY <1>3, <2>1 DEF Children
  <1>6. ASSUME NEW q \in Requests, NEW r \in Replicas, NEW n \in held, Logout(q, r, n)
        PROVE Children(t)' = Children(t) /\ Using(t)' = {}
    <2>1. CASE UNCHANGED <<tokens, call>>
      BY <2>1 DEF Children, Using
    <2>2. CASE ~UNCHANGED call
      <3> PICK x : Goto(q, x) /\ x.phase = "logout" /\ tokens' = tokens
        BY <1>6, <2>2 DEF Logout
      <3> QED BY <1>3 DEF Children
    <2> QED BY <1>6, <2>1, <2>2 DEF Logout
  <1>7. ASSUME NEW q \in Requests, RevokeForRefresh(q)
        PROVE Children(t)' = Children(t) /\ Using(t)' = {}
    <2>1. call[q].phase = "revoke" /\ call[q] \in IssueCall /\ call[q] # Idle
      BY <1>7, CallPhase, IdleIsNoCall DEF RevokeForRefresh, AuthInv
    <2> PICK x \in IssueCall : Goto(q, x) /\ x.from = call[q].from
      <3> DEFINE y == [call[q] EXCEPT !.phase = "create"]
      <3>1. y \in IssueCall /\ y.from = call[q].from
        BY <2>1 DEF IssueCall
      <3>2. Goto(q, y)
        BY <1>7 DEF RevokeForRefresh, Goto
      <3> QED BY <3>1, <3>2
    <2>2. Using(t)' = {}
      BY <1>2, <1>3, <2>1
    <2> PICK n \in DOMAIN tokens : Revoke(n)
      BY <1>7, <2>1 DEF RevokeForRefresh, AuthInv, Calls, Fits, Tables
    <2> QED BY <2>2, RevokeEffect DEF Children, AuthInv
  <1>8. ASSUME NEW q \in Requests, CreateToken(q)
        PROVE Children(t)' = Children(t) /\ Using(t)' = {}
    <2>1. call[q].phase = "create" /\ call[q] \in IssueCall /\ call[q] # Idle
      BY <1>8, CallPhase, IdleIsNoCall DEF CreateToken, AuthInv
    <2> PICK x \in IssueCall : Goto(q, x) /\ x.from = call[q].from
      <3> DEFINE y == [call[q] EXCEPT !.phase = "answer", !.token = Len(tokens) + 1]
      <3>1. Len(tokens) + 1 \in Nat
        BY DEF AuthInv, Tables
      <3>2. y \in IssueCall /\ y.from = call[q].from
        BY <2>1, <3>1 DEF IssueCall
      <3>3. Goto(q, y)
        BY <1>8 DEF CreateToken
      <3> QED BY <3>2, <3>3
    <2>2. call[q].from # t
      BY <1>2, <2>1
    <2>3. Using(t)' = {}
      BY <1>3, <2>2
    <2> PICK row : row.from = call[q].from /\ tokens' = Append(tokens, row)
      BY <1>8 DEF CreateToken
    <2>4. tokens \in Seq(TokenRecord)
      BY DEF AuthInv, Tables
    <2>5. /\ DOMAIN tokens' = DOMAIN tokens \union {Len(tokens) + 1}
          /\ tokens'[Len(tokens) + 1] = row /\ \A n \in DOMAIN tokens : tokens'[n] = tokens[n]
      BY <2>4
    <2> QED BY <2>2, <2>3, <2>5 DEF Children
  <1>9. ASSUME NEW q \in Requests, Answer(q) \/ CallFails(q)
        PROVE Children(t)' = Children(t) /\ Using(t)' = {}
    BY <1>3, <1>9 DEF Answer, CallFails, Children
  <1>10. ASSUME NEW q \in Requests, RevokeForLogout(q)
         PROVE Children(t)' = Children(t) /\ Using(t)' = {}
    <2>1. Using(t)' = {}
      BY <1>3, <1>10 DEF RevokeForLogout
    <2> PICK n \in DOMAIN tokens : Revoke(n)
      BY <1>10 DEF RevokeForLogout, AuthInv, Calls, Fits, Tables
    <2> QED BY <2>1, RevokeEffect DEF Children, AuthInv
  <1>11. ASSUME NEW r \in Replicas, NEW k \in Kids,
                Rotate(r, k) \/ \E v \in DOMAIN KeySets : Deploy(r, v, k)
         PROVE Children(t)' = Children(t) /\ Using(t)' = {}
    BY <1>11 DEF Rotate, Deploy, tableVars, Children, Using
  <1> QED BY <1>4, <1>5, <1>6, <1>7, <1>8, <1>9, <1>10, <1>11 DEF AuthNext, Handler

------------------------------------------------------------------------------
(* How many tokens come of one.                                             *)

\* The requests that have read t and will still insert a token.
Pending(t) == {q \in Requests : call[q].phase \in {"revoke", "create"} /\ call[q].from = t}

\* Every token that came of t has used up a request that had read t while it
\* was not revoked.
Room ==
  \A t \in DOMAIN tokens :
    /\ Cardinality(Children(t)) + Cardinality(Pending(t)) <= Cardinality(Requests)
    /\ Children(t) # {} => tokens[t].revoked

LEMMA Finite ==
  ASSUME Tables, NEW t
  PROVE  IsFiniteSet(Children(t)) /\ IsFiniteSet(Pending(t))
  <1>1. DOMAIN tokens = 1..Len(tokens) /\ Len(tokens) \in Nat
    BY DEF Tables
  <1>2. IsFiniteSet(DOMAIN tokens)
    BY <1>1, FS_Interval
  <1> QED BY <1>2, FS_Subset, SessionsAssumption DEF Children, Pending

LEMMA RoomKept ==
  ASSUME Tables, Tables', Room, NEW t \in DOMAIN tokens,
         Children(t)' = Children(t), Pending(t)' \subseteq Pending(t)
  PROVE  Cardinality(Children(t)') + Cardinality(Pending(t)') <= Cardinality(Requests)
  <1>1. Cardinality(Pending(t)') <= Cardinality(Pending(t))
    BY Finite, FS_Subset
  <1>2. /\ Cardinality(Children(t)) \in Nat /\ Cardinality(Pending(t)) \in Nat
        /\ Cardinality(Pending(t)') \in Nat /\ Cardinality(Requests) \in Nat
    BY Finite, FS_Subset, FS_CardinalityType, SessionsAssumption
  <1>3. Cardinality(Children(t)) + Cardinality(Pending(t)) <= Cardinality(Requests)
    BY DEF Room
  <1> QED BY <1>1, <1>2, <1>3

\* The handler of q changes the call of q alone, and goes on from its token.
LEMMA PendingGoes ==
  ASSUME Calls, NEW q \in Requests, NEW x, Goto(q, x),
         x.phase \in {"revoke", "create"} => q \in Pending(x.from)
  PROVE  \A t : Pending(t)' \subseteq Pending(t)
  BY DEF Pending, Goto, Calls

LEMMA CreateRoom ==
  ASSUME AuthInv, AuthInv', Room, NEW q \in Requests, CreateToken(q)
  PROVE  Room'
  <1> PICK p \in Nat : p = call[q].from
    BY CallPhase DEF CreateToken, AuthInv, IssueCall
  <1>1. call[q].phase = "create" /\ call[q] \in IssueCall
    BY CallPhase DEF CreateToken, AuthInv
  <1> PICK row : row.from = p /\ tokens' = Append(tokens, row)
    BY DEF CreateToken
  <1> PICK n \in Nat \ {0} : n = Len(tokens) + 1 /\ n \notin DOMAIN tokens
    BY DEF AuthInv, Tables
  <1>2. /\ DOMAIN tokens' = DOMAIN tokens \union {n} /\ tokens'[n] = row
        /\ \A t \in DOMAIN tokens : tokens'[t] = tokens[t]
    BY DEF AuthInv, Tables
  <1>3. call'[q].phase = "answer" /\ \A s \in Requests \ {q} : call'[s] = call[s]
    <2> DEFINE y == [call[q] EXCEPT !.phase = "answer", !.token = Len(tokens) + 1]
    <2>1. y.phase = "answer"
      BY <1>1 DEF IssueCall
    <2>2. Goto(q, y)
      BY DEF CreateToken
    <2> HIDE DEF y
    <2> QED BY <2>1, <2>2 DEF Goto, AuthInv, Calls
  <1>4. \A t : Pending(t)' = Pending(t) \ {q}
    BY <1>3 DEF Pending
  <1>5. \A t : Children(t)' = IF t = p THEN Children(t) \union {n} ELSE Children(t)
    BY <1>2 DEF Children
  <1>6. p = 0 \/ (p \in DOMAIN tokens /\ tokens[p].revoked)
    BY <1>1 DEF AuthInv, Calls, Fits, Revocations, HasRevoked
  <1>7. ASSUME NEW t \in DOMAIN tokens, t # p
        PROVE  /\ Cardinality(Children(t)') + Cardinality(Pending(t)') <= Cardinality(Requests)
               /\ Children(t)' # {} => tokens'[t].revoked
    BY <1>2, <1>4, <1>5, <1>7, RoomKept DEF Room, AuthInv
  <1>8. ASSUME p \in DOMAIN tokens
        PROVE  Cardinality(Children(p) \union {n}) + Cardinality(Pending(p) \ {q}) <= Cardinality(Requests)
    <2>1. q \in Pending(p) /\ n \notin Children(p)
      BY <1>1 DEF Pending, Children
    <2>2. /\ IsFiniteSet(Children(p)) /\ IsFiniteSet(Pending(p))
      BY Finite DEF AuthInv
    <2>3. Cardinality(Children(p) \union {n}) = Cardinality(Children(p)) + 1
      BY <2>1, <2>2, FS_AddElement
    <2>4. Cardinality(Pending(p) \ {q}) = Cardinality(Pending(p)) - 1
      BY <2>1, <2>2, FS_RemoveElement
    <2>5. Cardinality(Children(p)) \in Nat /\ Cardinality(Pending(p)) \in Nat
      BY <2>2, FS_CardinalityType
    <2>6. Cardinality(Children(p)) + Cardinality(Pending(p)) <= Cardinality(Requests)
      BY <1>8 DEF Room
    <2>7. Cardinality(Requests) \in Nat
      BY FS_CardinalityType, SessionsAssumption
    <2> QED BY <2>3, <2>4, <2>5, <2>6, <2>7
  <1>9. p # n /\ Children(n) = {} /\ Pending(n) = {}
    <2>1. \A t \in DOMAIN tokens : tokens[t].from # n
      BY TokenFacts DEF AuthInv, Tables
    <2>2. \A s \in Requests : call[s].phase \in {"revoke", "create"} => call[s].from # n
      BY DEF AuthInv, Calls, Fits, Tables
    <2> QED BY <1>1, <2>1, <2>2 DEF Children, Pending
  <1>10. /\ Cardinality(Children(n)') + Cardinality(Pending(n)') <= Cardinality(Requests)
         /\ Children(n)' = {}
    <2>1. Children(n)' = {} /\ Pending(n)' = {}
      BY <1>4, <1>5, <1>9
    <2>2. Cardinality({}) = 0
      BY FS_EmptySet
    <2>3. Cardinality(Children(n)') = 0 /\ Cardinality(Pending(n)') = 0
      BY <2>1, <2>2
    <2>4. Cardinality(Requests) \in Nat
      BY FS_CardinalityType, SessionsAssumption
    <2> QED BY <2>1, <2>3, <2>4
  <1>11. ASSUME NEW t \in DOMAIN tokens, t = p
         PROVE  /\ Cardinality(Children(t)') + Cardinality(Pending(t)') <= Cardinality(Requests)
                /\ Children(t)' # {} => tokens'[t].revoked
    <2>1. Children(p)' = Children(p) \union {n} /\ Pending(p)' = Pending(p) \ {q}
      BY <1>4, <1>5
    <2>2. tokens[p].revoked /\ tokens'[p] = tokens[p]
      BY <1>2, <1>6, <1>11, TokenFacts DEF AuthInv
    <2> QED BY <2>1, <2>2, <1>8, <1>11
  <1> QED BY <1>2, <1>7, <1>10, <1>11 DEF Room

LEMMA RefreshRoom ==
  ASSUME AuthInv, AuthInv', Room, NEW q \in Requests, NEW r \in Replicas, NEW n \in held,
         Refresh(q, r, n)
  PROVE  Room'
  <1>1. n \in DOMAIN tokens /\ ~tokens[n].revoked /\ UNCHANGED tokens
    BY DEF Refresh, Usable, AuthInv, Tables
  <1> PICK x : Goto(q, x) /\ x.from = n
    BY DEF Refresh
  <1>2. \A t : t # n => Pending(t)' \subseteq Pending(t)
    BY DEF Pending, Goto, AuthInv, Calls
  <1>3. \A t : Children(t)' = Children(t)
    BY <1>1 DEF Children
  <1>4. ASSUME NEW t \in DOMAIN tokens, t # n
        PROVE  Cardinality(Children(t)') + Cardinality(Pending(t)') <= Cardinality(Requests)
    BY <1>2, <1>3, <1>4, RoomKept DEF AuthInv
  <1>5. Cardinality(Children(n)') + Cardinality(Pending(n)') <= Cardinality(Requests)
    <2>1. Children(n)' = {}
      BY <1>1, <1>3 DEF Room
    <2>2. Cardinality({}) = 0
      BY FS_EmptySet
    <2>3. Cardinality(Children(n)') = 0
      BY <2>1, <2>2
    <2>4. /\ Cardinality(Requests) \in Nat /\ Cardinality(Pending(n)') \in Nat
          /\ Cardinality(Pending(n)') <= Cardinality(Requests)
      <3>1. Pending(n)' \subseteq Requests
        BY DEF Pending
      <3> QED BY <3>1, FS_Subset, FS_CardinalityType, SessionsAssumption
    <2> QED BY <2>3, <2>4
  <1> QED BY <1>1, <1>3, <1>4, <1>5 DEF Room

\* Every other step of a handler leaves the children, and lets nobody in.
LEMMA OtherRoom ==
  ASSUME AuthInv, AuthInv', Room,
         DOMAIN tokens' = DOMAIN tokens,
         \A t \in DOMAIN tokens : tokens'[t].from = tokens[t].from,
         \A t \in DOMAIN tokens : tokens[t].revoked => tokens'[t].revoked,
         \A t : Pending(t)' \subseteq Pending(t)
  PROVE  Room'
  <1>1. \A t : Children(t)' = Children(t)
    BY DEF Children
  <1>2. ASSUME NEW t \in DOMAIN tokens
        PROVE  Cardinality(Children(t)') + Cardinality(Pending(t)') <= Cardinality(Requests)
    BY <1>1, RoomKept DEF AuthInv
  <1> QED BY <1>1, <1>2 DEF Room

LEMMA RoomStep ==
  ASSUME AuthInv, AuthInv', Room, AuthNext
  PROVE  Room'
  <1> USE DEF AuthInv
  <1>1. ASSUME NEW q \in Requests, NEW r \in Replicas, NEW u \in Users,
               Register(q, r, u) \/ Login(q, r, u)
        PROVE Room'
    <2> PICK x : /\ Goto(q, x) /\ x.phase = "create" /\ x.from = 0 /\ tokens' = tokens
      BY <1>1 DEF Register, Login
    <2>1. \A t \in DOMAIN tokens : Pending(t)' \subseteq Pending(t)
      BY TokenFacts DEF Pending, Goto, Calls
    <2>2. \A t : Children(t)' = Children(t)
      BY DEF Children
    <2>3. ASSUME NEW t \in DOMAIN tokens
          PROVE  Cardinality(Children(t)') + Cardinality(Pending(t)') <= Cardinality(Requests)
      BY <2>1, <2>2, RoomKept
    <2> QED BY <2>2, <2>3 DEF Room
  <1>2. ASSUME NEW q \in Requests, NEW r \in Replicas, NEW n \in held, Logout(q, r, n) PROVE Room'
    <2>1. CASE UNCHANGED <<tokens, call>>
      BY <2>1, OtherRoom DEF Pending
    <2>2. CASE ~UNCHANGED call
      <3> PICK x : Goto(q, x) /\ x.phase = "logout" /\ tokens' = tokens
        BY <1>2, <2>2 DEF Logout
      <3> QED BY PendingGoes, OtherRoom
    <2> QED BY <1>2, <2>1, <2>2 DEF Logout
  <1>3. ASSUME NEW q \in Requests, RevokeForRefresh(q) PROVE Room'
    <2>1. call[q].phase = "revoke" /\ call[q] \in IssueCall
      BY <1>3, CallPhase DEF RevokeForRefresh
    <2> PICK x \in IssueCall : Goto(q, x) /\ x.from = call[q].from
      <3> DEFINE y == [call[q] EXCEPT !.phase = "create"]
      <3>1. y \in IssueCall /\ y.from = call[q].from
        BY <2>1 DEF IssueCall
      <3>2. Goto(q, y)
        BY <1>3 DEF RevokeForRefresh, Goto
      <3> QED BY <3>1, <3>2
    <2>2. \A t : Pending(t)' \subseteq Pending(t)
      BY <2>1, PendingGoes DEF Pending
    <2> PICK n \in DOMAIN tokens : Revoke(n)
      BY <1>3, <2>1 DEF RevokeForRefresh, Calls, Fits, Tables
    <2> QED BY <2>2, RevokeEffect, OtherRoom
  <1>4. ASSUME NEW q \in Requests, Answer(q) \/ CallFails(q) PROVE Room'
    <2>1. Goto(q, Idle) /\ tokens' = tokens
      BY <1>4 DEF Answer, CallFails
    <2> QED BY <2>1, IdleIsNoCall, PendingGoes, OtherRoom
  <1>5. ASSUME NEW q \in Requests, RevokeForLogout(q) PROVE Room'
    <2>1. \A t : Pending(t)' \subseteq Pending(t)
      BY <1>5, IdleIsNoCall, PendingGoes DEF RevokeForLogout
    <2> PICK n \in DOMAIN tokens : Revoke(n)
      BY <1>5 DEF RevokeForLogout, Calls, Fits, Tables
    <2> QED BY <2>1, RevokeEffect, OtherRoom
  <1>6. ASSUME NEW r \in Replicas, NEW k \in Kids,
               Rotate(r, k) \/ \E v \in DOMAIN KeySets : Deploy(r, v, k)
        PROVE Room'
    <2>1. UNCHANGED tokens /\ UNCHANGED call
      BY <1>6 DEF Rotate, Deploy, tableVars
    <2> QED BY <2>1, OtherRoom DEF Pending
  <1> QED BY <1>1, <1>2, <1>3, <1>4, <1>5, <1>6, CreateRoom, RefreshRoom DEF AuthNext, Handler

LEMMA RoomBounds == ASSUME AuthInv, Room PROVE RotationBounded
  <1> SUFFICES ASSUME NEW t \in DOMAIN tokens
               PROVE Cardinality(Children(t)) <= Cardinality(Requests)
    BY DEF RotationBounded
  <1>1. Cardinality(Children(t)) + Cardinality(Pending(t)) <= Cardinality(Requests)
    BY DEF Room
  <1>2. /\ Cardinality(Children(t)) \in Nat /\ Cardinality(Pending(t)) \in Nat
        /\ Cardinality(Requests) \in Nat
    BY Finite, FS_CardinalityType, SessionsAssumption DEF AuthInv
  <1> QED BY <1>1, <1>2
==============================================================================
