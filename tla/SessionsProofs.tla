--------------------------- MODULE SessionsProofs ---------------------------
(* Theorems about Sessions and SessionClient, for all values of their      *)
(* constants.                                                              *)
EXTENDS SessionClient, TLAPS

(* The invariant all safety theorems follow from.                          *)
Invariant == /\ TypeOK /\ ChainEnds /\ RevokedIsDead
             /\ RefusedIsDead /\ SessionsInductive

(* A step of Next is a step of one request's transaction, or time passing. *)
Acts(r) == \/ \E u \in Users, s \in SessionIds, t \in Tokens : Create(r, u, s, t)
           \/ \E t \in Tokens : RotateRead(r, t)
           \/ Consume(r) \/ RotateSession(r)
           \/ \E t \in Tokens : RotateCommit(r, t)
           \/ \E s \in SessionIds : Revoke(r, s)
           \/ \E u \in Users : RevokeAll(r, u)
           \/ RevokeSessions(r) \/ RevokeScan(r) \/ RevokeTokens(r)
           \/ Rollback(r) \/ Respond(r)

TimePasses == /\ UNCHANGED <<tables, locals>>
              /\ lapsed' \in {lapsed} \cup {lapsed \cup {s} : s \in SessionIds}

LEMMA StepCases ==
  ASSUME [Next]_vars
  PROVE  (\E r \in Requests : Acts(r)) \/ TimePasses
<1>1. CASE UNCHANGED vars
  BY <1>1 DEF vars, tables, locals, TimePasses
<1>2. ASSUME NEW s \in SessionIds, Lapse(s) PROVE TimePasses
  BY <1>2 DEF Lapse, TimePasses
<1>3. ASSUME NEW r \in Requests, Statement(r) PROVE Acts(r)
  BY <1>3 DEF Statement, Acts, Deadlock
<1>. QED BY <1>1, <1>2, <1>3, Zenon DEF Next, Acts

(* No step touches what another request's transaction has read or written. *)
Alone(r) == \A q \in Requests \ {r} :
  /\ phase'[q] = phase[q] /\ arg'[q] = arg[q] /\ locked'[q] = locked[q]
  /\ todo'[q] = todo[q] /\ outcome'[q] = outcome[q]

LEMMA ActsAlone ==
  ASSUME TypeOK, NEW r \in Requests, Acts(r)
  PROVE  Alone(r)
<1> USE TypeOK DEF TypeOK, Alone
<1>1. ASSUME NEW p, NEW a, NEW o, Begin(r, p, a, o) PROVE Alone(r)
  BY <1>1 DEF Begin
<1>2. CASE \E u \in Users, s \in SessionIds, t \in Tokens : Create(r, u, s, t)
  BY <1>1, <1>2 DEF Create
<1>3. CASE \E t \in Tokens : RotateRead(r, t)
  BY <1>1, <1>3 DEF RotateRead
<1>4. CASE Consume(r)
  BY <1>4 DEF Consume
<1>5. CASE RotateSession(r)
  BY <1>5 DEF RotateSession
<1>6. CASE \E t \in Tokens : RotateCommit(r, t)
  BY <1>6 DEF RotateCommit, Finish
<1>7. CASE \E s \in SessionIds : Revoke(r, s)
  BY <1>1, <1>7 DEF Revoke
<1>8. CASE \E u \in Users : RevokeAll(r, u)
  BY <1>1, <1>8 DEF RevokeAll
<1>9. CASE RevokeSessions(r) \/ RevokeScan(r)
  BY <1>9 DEF RevokeSessions, RevokeScan
<1>10. CASE RevokeTokens(r) \/ Rollback(r) \/ Respond(r)
  BY <1>10 DEF RevokeTokens, Rollback, Respond, Finish
<1>. QED BY <1>2, <1>3, <1>4, <1>5, <1>6, <1>7, <1>8, <1>9, <1>10 DEF Acts

(* The rows a rotation and a revocation are about exist.                   *)
LEMMA RotationRows ==
  ASSUME TypeOK, TokensHaveSession, NEW r \in Requests, RotationSound(r),
         phase[r] \in {"checked", "consumed", "rotating"}
  PROVE  /\ arg[r].token \in Tokens /\ token[arg[r].token] \in Token
         /\ arg[r].family \in SessionIds /\ session[arg[r].family] \in Session
         /\ token[arg[r].token].session = arg[r].family
<1>1. /\ arg[r].token \in Tokens /\ token[arg[r].token] \in Token
      /\ arg[r].family = token[arg[r].token].session
  BY DEF TypeOK, RotationSound, Issued
<1>2. Created(arg[r].family)
  BY <1>1 DEF TokensHaveSession, RotationSound
<1>3. arg[r].family \in SessionIds
  BY <1>1 DEF Token
<1>. QED BY <1>1, <1>2, <1>3 DEF TypeOK, Created

(* Every step keeps the types.                                             *)
LEMMA NextType ==
  ASSUME Invariant, [Next]_vars
  PROVE  TypeOK'
<1> USE DEF Phases, Outcomes
<1>0. /\ TypeOK /\ TokensHaveSession
      /\ \A r \in Requests : RotationSound(r) /\ RevocationSound(r)
  BY DEF Invariant, SessionsInductive, TransactionsSound
<1>1. ASSUME NEW r \in Requests, NEW u \in Users, NEW s \in SessionIds, NEW t \in Tokens,
             Create(r, u, s, t)
      PROVE  TypeOK'
  <2>1. session' \in [SessionIds -> Session \cup {None}]
    BY <1>0, <1>1 DEF TypeOK, Create, Session
  <2>2. token' \in [Tokens -> Token \cup {None}]
    BY <1>0, <1>1 DEF TypeOK, Create, Token
  <2>. QED BY <1>0, <1>1, <2>1, <2>2 DEF TypeOK, Create, Begin, Argument
<1>2. ASSUME NEW r \in Requests, NEW t \in Tokens, RotateRead(r, t)
      PROVE  TypeOK'
  <2>1. token[t].session \in SessionIds
    BY <1>0, <1>2 DEF TypeOK, RotateRead, Issued, Token
  <2>2. Supplied(t) \in Argument
    BY <2>1 DEF Supplied, Argument
  <2>. QED BY <1>0, <1>2, <2>2 DEF TypeOK, RotateRead, Begin, tables
<1>3. ASSUME NEW r \in Requests, Consume(r) PROVE TypeOK'
  BY <1>0, <1>3 DEF TypeOK, Consume, tables
<1>4. ASSUME NEW r \in Requests, RotateSession(r) PROVE TypeOK'
  BY <1>0, <1>4 DEF TypeOK, RotateSession, tables
<1>5. ASSUME NEW r \in Requests, NEW t \in Tokens, RotateCommit(r, t)
      PROVE  TypeOK'
  <2>1. /\ arg[r].token \in Tokens /\ token[arg[r].token] \in Token
        /\ arg[r].family \in SessionIds /\ session[arg[r].family] \in Session
    BY <1>0, <1>5, RotationRows DEF RotateCommit
  <2>2. session' \in [SessionIds -> Session \cup {None}]
    BY <1>0, <1>5, <2>1 DEF TypeOK, RotateCommit, Rotated, Session
  <2>3. token' \in [Tokens -> Token \cup {None}]
    BY <1>0, <1>5, <2>1 DEF TypeOK, RotateCommit, Token
  <2>. QED BY <1>0, <1>5, <2>1, <2>2, <2>3 DEF TypeOK, RotateCommit, Finish, Argument
<1>6. ASSUME NEW r \in Requests, NEW s \in SessionIds, Revoke(r, s)
      PROVE  TypeOK'
  BY <1>0, <1>6 DEF TypeOK, Revoke, Begin, Argument, tables
<1>7. ASSUME NEW r \in Requests, NEW u \in Users, RevokeAll(r, u)
      PROVE  TypeOK'
  BY <1>0, <1>7 DEF TypeOK, RevokeAll, Begin, Argument, tables
<1>8. ASSUME NEW r \in Requests, RevokeSessions(r) PROVE TypeOK'
  <2>1. Unrevoked(r) \subseteq SessionIds
    BY DEF Unrevoked, Scope
  <2>. QED BY <1>0, <1>8, <2>1 DEF TypeOK, RevokeSessions, tables
<1>9. ASSUME NEW r \in Requests, RevokeScan(r) PROVE TypeOK'
  <2>1. {t \in TokensOf(Scope(r)) : ~token[t].revoked} \subseteq Tokens
    BY DEF TokensOf
  <2>. QED BY <1>0, <1>9, <2>1 DEF TypeOK, RevokeScan, tables
<1>10. ASSUME NEW r \in Requests, RevokeTokens(r) PROVE TypeOK'
  <2>1. \A s \in locked[r] : session[s] \in Session
    BY <1>0, <1>10 DEF TypeOK, RevokeTokens, RevocationSound, Scope, Created
  <2>2. \A t \in todo[r] : token[t] \in Token
    BY <1>0, <1>10 DEF TypeOK, RevokeTokens, RevocationSound, Issued
  <2>3. session' \in [SessionIds -> Session \cup {None}]
    BY <1>0, <1>10, <2>1 DEF TypeOK, RevokeTokens, Session
  <2>4. token' \in [Tokens -> Token \cup {None}]
    BY <1>0, <1>10, <2>2 DEF TypeOK, RevokeTokens, Token
  <2>. QED BY <1>0, <1>10, <2>3, <2>4 DEF TypeOK, RevokeTokens, Finish
<1>11. ASSUME NEW r \in Requests, Rollback(r) \/ Respond(r) PROVE TypeOK'
  <2>1. NoArgument \in Argument
    BY DEF NoArgument, Argument
  <2>2. CASE Rollback(r)
    BY <1>0, <2>1, <2>2 DEF TypeOK, Rollback, Finish, tables
  <2>3. CASE Respond(r)
    BY <1>0, <2>1, <2>3 DEF TypeOK, Respond, tables
  <2>. QED BY <1>11, <2>2, <2>3
<1>12. CASE TimePasses
  BY <1>0, <1>12 DEF TypeOK, TimePasses, tables, locals
<1>. QED
  BY StepCases, <1>1, <1>2, <1>3, <1>4, <1>5, <1>6, <1>7, <1>8, <1>9, <1>10, <1>11, <1>12
     DEF Acts

(* The tables change in three places only.                                 *)
LEMMA WritesTables ==
  ASSUME [Next]_vars
  PROVE  \/ \E r \in Requests, u \in Users, s \in SessionIds, t \in Tokens : Create(r, u, s, t)
         \/ \E r \in Requests, t \in Tokens : RotateCommit(r, t)
         \/ \E r \in Requests : RevokeTokens(r)
         \/ UNCHANGED tables
<1>1. ASSUME NEW r \in Requests, NEW t \in Tokens, RotateRead(r, t) PROVE UNCHANGED tables
  BY <1>1 DEF RotateRead, tables
<1>2. ASSUME NEW r \in Requests,
             \/ Consume(r) \/ RotateSession(r) \/ RevokeSessions(r) \/ RevokeScan(r)
             \/ Rollback(r) \/ Respond(r)
      PROVE  UNCHANGED tables
  BY <1>2 DEF Consume, RotateSession, RevokeSessions, RevokeScan, Rollback, Respond, tables
<1>3. ASSUME NEW r \in Requests, NEW s \in SessionIds, Revoke(r, s) PROVE UNCHANGED tables
  BY <1>3 DEF Revoke, tables
<1>4. ASSUME NEW r \in Requests, NEW u \in Users, RevokeAll(r, u) PROVE UNCHANGED tables
  BY <1>4 DEF RevokeAll, tables
<1>5. CASE TimePasses
  BY <1>5 DEF TimePasses, tables
<1>. QED BY StepCases, <1>1, <1>2, <1>3, <1>4, <1>5, Zenon DEF Acts

(* What ChainEnds says of each token.                                      *)
Chain == \A s \in SessionIds : Created(s) =>
  /\ session[s].current \in Tokens /\ Issued(session[s].current)
  /\ token[session[s].current].session = s /\ ~token[session[s].current].used
  /\ \A t \in Tokens : Issued(t) /\ token[t].session = s /\ ~token[t].used
                         => t = session[s].current

LEMMA ChainForward == ChainEnds => Chain
  BY DEF ChainEnds, Chain, TokensOf

LEMMA ChainBack == Chain' => ChainEnds'
  BY DEF ChainEnds, Chain, TokensOf

(* The row a creation adds: a session nobody has a token of yet.           *)
CreateEffect(u, s, t) ==
  /\ ~Created(s) /\ ~Issued(t)
  /\ session'[s] = [user |-> u, revoked |-> FALSE, current |-> t] /\ Created(s)'
  /\ token'[t] = [session |-> s, used |-> FALSE, revoked |-> FALSE] /\ Issued(t)'
  /\ \A z \in SessionIds \ {s} : session'[z] = session[z]
  /\ \A x \in Tokens \ {t} : token'[x] = token[x]

LEMMA CreateWrites ==
  ASSUME TypeOK, NEW r \in Requests, NEW u \in Users, NEW s \in SessionIds, NEW t \in Tokens,
         Create(r, u, s, t)
  PROVE  CreateEffect(u, s, t)
<1>1. /\ [user |-> u, revoked |-> FALSE, current |-> t] \in Session
      /\ [session |-> s, used |-> FALSE, revoked |-> FALSE] \in Token
  BY DEF Session, Token
<1>. QED BY <1>1, NoneAssumption DEF TypeOK, Create, Created, Issued, CreateEffect

(* The rows a rotation writes: the head of the chain, no longer unused,    *)
(* its successor, and the session that now names it.                       *)
RotateEffect(f, o, t) ==
  /\ f \in SessionIds /\ o \in Tokens /\ o # t /\ ~Issued(t) /\ Created(f)
  /\ Issued(o) /\ token[o].session = f /\ ~token[o].used /\ ~token[o].revoked
  /\ ~session[f].revoked
  /\ session[f].current = o
  /\ session'[f] = [user |-> session[f].user, revoked |-> FALSE, current |-> t]
  /\ token'[o] = [session |-> f, used |-> TRUE, revoked |-> FALSE]
  /\ token'[t] = [session |-> f, used |-> FALSE, revoked |-> FALSE]
  /\ Created(f)' /\ Issued(t)' /\ Issued(o)'
  /\ \A z \in SessionIds \ {f} : session'[z] = session[z]
  /\ \A x \in Tokens \ {o, t} : token'[x] = token[x]

LEMMA RotateWrites ==
  ASSUME Invariant, NEW r \in Requests, NEW t \in Tokens, RotateCommit(r, t),
         NEW f, f = arg[r].family, NEW o, o = arg[r].token
  PROVE  RotateEffect(f, o, t)
<1>1. TypeOK /\ RotationSound(r) /\ TokensHaveSession /\ RevokedIsDead /\ Chain
  BY ChainForward DEF Invariant, SessionsInductive, TransactionsSound
<1>2. phase[r] = "rotating" /\ ~Issued(t)
  BY DEF RotateCommit
<1>3. /\ o \in Tokens /\ token[o] \in Token /\ f \in SessionIds /\ session[f] \in Session
      /\ token[o].session = f
  BY <1>1, <1>2, RotationRows
<1>4. Issued(o) /\ ~token[o].used /\ ~token[o].revoked
  BY <1>1, <1>2 DEF RotationSound, Unused
<1>5. Created(f)
  BY <1>1, <1>3, <1>4 DEF TokensHaveSession
<1>6. ~session[f].revoked /\ session[f].current = o
  BY <1>1, <1>3, <1>4, <1>5 DEF RevokedIsDead, Revoked, TokensOf, Chain
<1>7. /\ session' = [session EXCEPT ![f] = [user |-> session[f].user, revoked |-> session[f].revoked,
                                            current |-> t]]
      /\ token' = [token EXCEPT ![o] = [session |-> f, used |-> TRUE, revoked |-> token[o].revoked],
                                ![t] = [session |-> f, used |-> FALSE, revoked |-> FALSE]]
  BY DEF RotateCommit, Rotated
<1>8. /\ session[f].revoked = FALSE /\ token[o].revoked = FALSE
      /\ o # t
  BY <1>2, <1>3, <1>4, <1>6 DEF Session, Token
<1>9. /\ session'[f] = [user |-> session[f].user, revoked |-> FALSE, current |-> t]
      /\ token'[o] = [session |-> f, used |-> TRUE, revoked |-> FALSE]
      /\ token'[t] = [session |-> f, used |-> FALSE, revoked |-> FALSE]
      /\ \A z \in SessionIds \ {f} : session'[z] = session[z]
      /\ \A x \in Tokens \ {o, t} : token'[x] = token[x]
  BY <1>1, <1>3, <1>7, <1>8 DEF TypeOK
<1>10. session'[f] \in Session /\ token'[o] \in Token /\ token'[t] \in Token
  BY <1>3, <1>9 DEF Session, Token
<1>. QED
  BY <1>2, <1>3, <1>4, <1>5, <1>6, <1>8, <1>9, <1>10, NoneAssumption
     DEF Created, Issued, RotateEffect

(* The rows a revocation writes: it sets revokedAt, and nothing else.      *)
SessionRevoked(s) ==
  /\ Created(s) /\ Created(s)' /\ session'[s].revoked
  /\ session'[s].user = session[s].user /\ session'[s].current = session[s].current
TokenRevoked(t) ==
  /\ Issued(t) /\ Issued(t)' /\ token'[t].revoked
  /\ token'[t].session = token[t].session /\ token'[t].used = token[t].used
RevokeEffect(r) ==
  /\ \A s \in SessionIds : \/ s \in locked[r] /\ SessionRevoked(s)
                           \/ s \notin locked[r] /\ session'[s] = session[s]
  /\ \A t \in Tokens : \/ t \in todo[r] /\ TokenRevoked(t)
                       \/ t \notin todo[r] /\ token'[t] = token[t]
  /\ locked[r] \subseteq SessionIds /\ todo[r] \subseteq Tokens
  /\ \A t \in TokensOf(locked[r]) : token[t].revoked \/ t \in todo[r]
  /\ \A q \in Requests \ {r}, t \in todo[r] : ~HoldsToken(q, t)

LEMMA RevokeWrites ==
  ASSUME Invariant, NEW r \in Requests, RevokeTokens(r)
  PROVE  RevokeEffect(r)
<1>1. TypeOK /\ RevocationSound(r)
  BY DEF Invariant, SessionsInductive, TransactionsSound
<1>2. /\ phase[r] = "sweeping"
      /\ \A s \in locked[r] : Created(s)
      /\ \A t \in todo[r] : Issued(t)
      /\ \A t \in TokensOf(locked[r]) : token[t].revoked \/ t \in todo[r]
  BY <1>1 DEF RevokeTokens, RevocationSound, Scope
<1>3. \A s \in locked[r] : session[s] \in Session
  BY <1>1, <1>2 DEF TypeOK, Created
<1>4. \A t \in todo[r] : token[t] \in Token
  BY <1>1, <1>2 DEF TypeOK, Issued
<1>5. \A s \in SessionIds : \/ s \in locked[r] /\ SessionRevoked(s)
                            \/ s \notin locked[r] /\ session'[s] = session[s]
  <2> SUFFICES ASSUME NEW s \in SessionIds
               PROVE  \/ s \in locked[r] /\ SessionRevoked(s)
                      \/ s \notin locked[r] /\ session'[s] = session[s]
    OBVIOUS
  <2>1. CASE s \in locked[r]
    <3>1. session'[s] = [user |-> session[s].user, revoked |-> TRUE,
                         current |-> session[s].current]
      BY <2>1 DEF RevokeTokens
    <3>2. session'[s] \in Session
      BY <1>3, <2>1, <3>1 DEF Session
    <3>3. Created(s) /\ Created(s)'
      BY <1>2, <2>1, <3>2, NoneAssumption DEF Created
    <3>. QED BY <2>1, <3>1, <3>3 DEF SessionRevoked
  <2>2. CASE s \notin locked[r]
    BY <2>2 DEF RevokeTokens
  <2>. QED BY <2>1, <2>2
<1>6. \A t \in Tokens : \/ t \in todo[r] /\ TokenRevoked(t)
                        \/ t \notin todo[r] /\ token'[t] = token[t]
  <2> SUFFICES ASSUME NEW t \in Tokens
               PROVE  \/ t \in todo[r] /\ TokenRevoked(t)
                      \/ t \notin todo[r] /\ token'[t] = token[t]
    OBVIOUS
  <2>1. CASE t \in todo[r]
    <3>1. token'[t] = [session |-> token[t].session, used |-> token[t].used, revoked |-> TRUE]
      BY <2>1 DEF RevokeTokens
    <3>2. token'[t] \in Token
      BY <1>4, <2>1, <3>1 DEF Token
    <3>3. Issued(t) /\ Issued(t)'
      BY <1>2, <2>1, <3>2, NoneAssumption DEF Issued
    <3>. QED BY <2>1, <3>1, <3>3 DEF TokenRevoked
  <2>2. CASE t \notin todo[r]
    BY <2>2 DEF RevokeTokens
  <2>. QED BY <2>1, <2>2
<1>. QED BY <1>1, <1>2, <1>5, <1>6 DEF TypeOK, RevokeTokens, TokenFree, RevokeEffect

(* All the ways the tables change.                                         *)
Writes == \/ \E u \in Users, s \in SessionIds, t \in Tokens : CreateEffect(u, s, t)
          \/ \E f \in SessionIds, o, t \in Tokens : RotateEffect(f, o, t)
          \/ \E r \in Requests : RevokeEffect(r)
          \/ UNCHANGED tables

LEMMA StepWrites ==
  ASSUME Invariant, [Next]_vars
  PROVE  Writes
<1>0. TypeOK
  BY DEF Invariant
<1>1. ASSUME NEW r \in Requests, NEW u \in Users, NEW s \in SessionIds, NEW t \in Tokens,
             Create(r, u, s, t)
      PROVE  Writes
  <2>1. CreateEffect(u, s, t)
    BY <1>0, <1>1, CreateWrites
  <2>. QED BY <2>1 DEF Writes
<1>2. ASSUME NEW r \in Requests, NEW t \in Tokens, RotateCommit(r, t)
      PROVE  Writes
  <2>1. PICK f, o : f = arg[r].family /\ o = arg[r].token
    OBVIOUS
  <2>2. RotateEffect(f, o, t)
    BY <1>2, <2>1, RotateWrites
  <2>3. f \in SessionIds /\ o \in Tokens
    BY <2>2 DEF RotateEffect
  <2>. QED BY <2>2, <2>3 DEF Writes
<1>3. ASSUME NEW r \in Requests, RevokeTokens(r)
      PROVE  Writes
  <2>1. RevokeEffect(r)
    BY <1>3, RevokeWrites
  <2>. QED BY <2>1 DEF Writes
<1>. QED BY <1>1, <1>2, <1>3, WritesTables DEF Writes

(* Every step keeps each chain ending in its session's current token.      *)
LEMMA NextChain ==
  ASSUME Invariant, [Next]_vars
  PROVE  ChainEnds' /\ TokensHaveSession'
<1>1. TypeOK /\ Chain /\ TokensHaveSession
  BY ChainForward DEF Invariant, SessionsInductive
<1>2. ASSUME NEW u \in Users, NEW s \in SessionIds, NEW t \in Tokens, CreateEffect(u, s, t)
      PROVE  Chain' /\ TokensHaveSession'
  <2>1. \A x \in Tokens : Issued(x) => token[x].session # s
    BY <1>1, <1>2 DEF TokensHaveSession, CreateEffect
  <2>2. Chain'
    BY <1>1, <1>2, <2>1 DEF Chain, Created, Issued, CreateEffect
  <2>3. TokensHaveSession'
    <3> SUFFICES ASSUME NEW x \in Tokens, Issued(x)'
                 PROVE  Created(token[x].session)'
      BY DEF TokensHaveSession
    <3>1. CASE x = t
      BY <1>2, <3>1 DEF CreateEffect
    <3>2. CASE x # t
      <4>1. token'[x] = token[x] /\ Issued(x)
        BY <1>2, <3>2 DEF CreateEffect, Issued
      <4>2. token[x].session \in SessionIds \ {s} /\ Created(token[x].session)
        BY <1>1, <2>1, <4>1 DEF TypeOK, Issued, Token, TokensHaveSession
      <4>. QED BY <1>2, <4>1, <4>2 DEF CreateEffect, Created
    <3>. QED BY <3>1, <3>2
  <2>. QED BY <2>2, <2>3
<1>3. ASSUME NEW f \in SessionIds, NEW o \in Tokens, NEW t \in Tokens, RotateEffect(f, o, t)
      PROVE  Chain' /\ TokensHaveSession'
  <2>2. Chain'
    BY <1>1, <1>3 DEF Chain, Created, Issued, RotateEffect
  <2>3. TokensHaveSession'
    <3> SUFFICES ASSUME NEW x \in Tokens, Issued(x)'
                 PROVE  Created(token[x].session)'
      BY DEF TokensHaveSession
    <3>1. CASE x \in {o, t}
      BY <1>3, <3>1 DEF RotateEffect
    <3>2. CASE x \notin {o, t}
      <4>1. token'[x] = token[x] /\ Issued(x)
        BY <1>3, <3>2 DEF RotateEffect, Issued
      <4>2. token[x].session \in SessionIds /\ Created(token[x].session)
        BY <1>1, <4>1 DEF TypeOK, Issued, Token, TokensHaveSession
      <4>. QED BY <1>3, <4>1, <4>2 DEF RotateEffect, Created
    <3>. QED BY <3>1, <3>2
  <2>. QED BY <2>2, <2>3
<1>4. ASSUME NEW r \in Requests, RevokeEffect(r)
      PROVE  Chain' /\ TokensHaveSession'
  <2>1. \A s \in SessionIds : /\ Created(s)' <=> Created(s)
                              /\ Created(s) => session'[s].current = session[s].current
    BY <1>4 DEF Created, RevokeEffect, SessionRevoked
  <2>2. \A t \in Tokens : /\ Issued(t)' <=> Issued(t)
                          /\ Issued(t) => /\ token'[t].session = token[t].session
                                          /\ token'[t].used = token[t].used
    BY <1>4 DEF Issued, RevokeEffect, TokenRevoked
  <2>3. \A t \in Tokens : Issued(t) => token[t].session \in SessionIds
    BY <1>1 DEF TypeOK, Issued, Token
  <2>. QED BY <1>1, <2>1, <2>2, <2>3 DEF Chain, TokensHaveSession
<1>5. CASE UNCHANGED tables
  <2>1. session' = session /\ token' = token
    BY <1>5 DEF tables
  <2>2. TokensHaveSession'
    BY <1>1, <2>1 DEF TokensHaveSession, Created, Issued
  <2>3. Chain'
    BY <1>1, <2>1 DEF Chain, Created, Issued
  <2>. QED BY <2>2, <2>3, ChainBack
<1>. QED BY <1>2, <1>3, <1>4, <1>5, StepWrites, ChainBack DEF Writes

(* Every step keeps the tokens of a revoked session revoked.  A rotation   *)
(* inserts a successor under the lock of an unconsumed, unrevoked token,   *)
(* whose session is therefore not revoked; a revocation has found every    *)
(* token of the sessions it has locked.                                    *)
LEMMA NextRevoked ==
  ASSUME Invariant, [Next]_vars
  PROVE  RevokedIsDead'
<1>1. RevokedIsDead /\ TokensHaveSession
  BY DEF Invariant, SessionsInductive
<1>0. SUFFICES ASSUME NEW s \in SessionIds, Revoked(s)', NEW t \in Tokens,
                      Issued(t)', token'[t].session = s
               PROVE  token'[t].revoked
  BY DEF RevokedIsDead, TokensOf
<1>2. ASSUME NEW u \in Users, NEW z \in SessionIds, NEW x \in Tokens, CreateEffect(u, z, x)
      PROVE  token'[t].revoked
  <2>1. s # z
    BY <1>0, <1>2 DEF CreateEffect, Revoked
  <2>2. Revoked(s)
    BY <1>0, <1>2, <2>1 DEF CreateEffect, Revoked, Created
  <2>3. t # x
    BY <1>0, <1>2, <2>1 DEF CreateEffect
  <2>4. token'[t] = token[t] /\ t \in TokensOf({s})
    BY <1>0, <1>2, <2>3 DEF CreateEffect, TokensOf, Issued
  <2>. QED BY <1>1, <2>2, <2>4 DEF RevokedIsDead
<1>3. ASSUME NEW f \in SessionIds, NEW o \in Tokens, NEW x \in Tokens, RotateEffect(f, o, x)
      PROVE  token'[t].revoked
  <2>1. s # f
    BY <1>0, <1>3 DEF RotateEffect, Revoked
  <2>2. Revoked(s)
    BY <1>0, <1>3, <2>1 DEF RotateEffect, Revoked, Created
  <2>3. t # x /\ t # o
    BY <1>0, <1>3, <2>1 DEF RotateEffect
  <2>4. token'[t] = token[t] /\ t \in TokensOf({s})
    BY <1>0, <1>3, <2>3 DEF RotateEffect, TokensOf, Issued
  <2>. QED BY <1>1, <2>2, <2>4 DEF RevokedIsDead
<1>4. ASSUME NEW r \in Requests, RevokeEffect(r)
      PROVE  token'[t].revoked
  <2>1. CASE t \in todo[r]
    BY <1>4, <2>1 DEF RevokeEffect, TokenRevoked
  <2>2. CASE t \notin todo[r]
    <3>1. token'[t] = token[t]
      BY <1>4, <2>2 DEF RevokeEffect
    <3>2. Issued(t) /\ token[t].session = s
      BY <1>0, <3>1 DEF Issued
    <3>3. CASE s \in locked[r]
      <4>1. t \in TokensOf(locked[r])
        BY <3>2, <3>3 DEF TokensOf
      <4>. QED BY <1>4, <2>2, <3>1, <4>1 DEF RevokeEffect
    <3>4. CASE s \notin locked[r]
      <4>1. Revoked(s)
        BY <1>0, <1>4, <3>4 DEF Revoked, Created, RevokeEffect
      <4>. QED BY <1>1, <3>1, <3>2, <4>1 DEF RevokedIsDead, TokensOf
    <3>. QED BY <3>3, <3>4
  <2>. QED BY <2>1, <2>2
<1>5. CASE UNCHANGED tables
  BY <1>0, <1>1, <1>5 DEF RevokedIsDead, Revoked, TokensOf, Created, Issued, tables
<1>. QED BY <1>2, <1>3, <1>4, <1>5, StepWrites DEF Writes

(* A revocation is final, and whom a session or a token belongs to fixed.  *)
Grown ==
  /\ \A s \in SessionIds : session[s] # None =>
       /\ session'[s] # None /\ session'[s].user = session[s].user
       /\ session[s].revoked => session'[s].revoked
  /\ \A t \in Tokens : token[t] # None =>
       /\ token'[t] # None /\ token'[t].session = token[t].session
       /\ token[t].revoked => token'[t].revoked

LEMMA TablesGrow ==
  ASSUME Invariant, [Next]_vars
  PROVE  Grown
<1>1. ASSUME NEW u \in Users, NEW s \in SessionIds, NEW t \in Tokens, CreateEffect(u, s, t)
      PROVE  Grown
  BY <1>1 DEF CreateEffect, Grown, Created, Issued
<1>2. ASSUME NEW f \in SessionIds, NEW o \in Tokens, NEW t \in Tokens, RotateEffect(f, o, t)
      PROVE  Grown
  BY <1>2 DEF RotateEffect, Grown, Created, Issued
<1>3. ASSUME NEW r \in Requests, RevokeEffect(r) PROVE Grown
  BY <1>3 DEF RevokeEffect, SessionRevoked, TokenRevoked, Grown, Created, Issued
<1>4. CASE UNCHANGED tables
  BY <1>4 DEF Grown, Created, Issued, tables
<1>. QED BY <1>1, <1>2, <1>3, <1>4, StepWrites DEF Writes

(* A consumed token is written by the transaction that consumed it only.   *)
LEMMA HeldKept ==
  ASSUME Invariant, [Next]_vars, NEW q \in Requests,
         phase[q] \in {"consumed", "rotating"}, phase'[q] \in {"consumed", "rotating"},
         NEW o, o = arg[q].token
  PROVE  token'[o] = token[o]
<1>0. /\ TypeOK /\ TokensHaveSession /\ RotationSound(q)
      /\ \A r \in Requests : r # q => LocksApart(r, q)
  BY DEF Invariant, SessionsInductive, TransactionsSound
<1>1. o \in Tokens /\ Issued(o) /\ HoldsToken(q, o)
  BY <1>0 DEF RotationSound, HoldsToken
<1>2. ASSUME NEW r \in Requests, NEW u \in Users, NEW s \in SessionIds, NEW t \in Tokens,
             Create(r, u, s, t)
      PROVE  token'[o] = token[o]
  <2>1. CreateEffect(u, s, t)
    BY <1>0, <1>2, CreateWrites
  <2>. QED BY <1>1, <2>1 DEF CreateEffect
<1>3. ASSUME NEW r \in Requests, NEW t \in Tokens, RotateCommit(r, t)
      PROVE  token'[o] = token[o]
  <2>1. r # q
    BY <1>0, <1>3 DEF TypeOK, RotateCommit, Finish
  <2>2. PICK f, p : f = arg[r].family /\ p = arg[r].token
    OBVIOUS
  <2>3. RotateEffect(f, p, t)
    BY <1>3, <2>2, RotateWrites
  <2>4. HoldsToken(r, p) /\ p \in Tokens
    BY <1>3, <2>2, <2>3 DEF RotateCommit, HoldsToken, RotateEffect
  <2>5. p # o
    BY <1>0, <1>1, <2>1, <2>4 DEF LocksApart
  <2>. QED BY <1>1, <2>3, <2>5 DEF RotateEffect
<1>4. ASSUME NEW r \in Requests, RevokeTokens(r)
      PROVE  token'[o] = token[o]
  <2>1. RevokeEffect(r)
    BY <1>4, RevokeWrites
  <2>2. r # q
    BY <1>4 DEF RevokeTokens
  <2>. QED BY <1>1, <2>1, <2>2 DEF RevokeEffect
<1>5. CASE UNCHANGED tables
  BY <1>5 DEF tables
<1>. QED BY <1>2, <1>3, <1>4, <1>5, WritesTables

(* While a revocation sweeps, its sessions get no token it has not seen.   *)
LEMMA SweepComplete ==
  ASSUME Invariant, [Next]_vars, NEW q \in Requests, phase[q] = "sweeping",
         NEW x \in Tokens, Issued(x)', NEW s \in locked[q], token'[x].session = s
  PROVE  Issued(x) /\ token[x].session = s
<1>0. /\ TypeOK /\ TokensHaveSession /\ RevocationSound(q)
      /\ \A r \in Requests : r # q => LocksApart(r, q)
  BY DEF Invariant, SessionsInductive, TransactionsSound
<1>1. s \in SessionIds /\ Created(s) /\ HoldsSession(q, s)
  BY <1>0 DEF TypeOK, RevocationSound, Scope, HoldsSession
<1>2. ASSUME NEW r \in Requests, NEW u \in Users, NEW z \in SessionIds, NEW t \in Tokens,
             Create(r, u, z, t)
      PROVE  Issued(x) /\ token[x].session = s
  <2>1. CreateEffect(u, z, t)
    BY <1>0, <1>2, CreateWrites
  <2>2. x # t
    BY <1>1, <2>1 DEF CreateEffect
  <2>. QED BY <2>1, <2>2 DEF CreateEffect, Issued
<1>3. ASSUME NEW r \in Requests, NEW t \in Tokens, RotateCommit(r, t)
      PROVE  Issued(x) /\ token[x].session = s
  <2>1. PICK f, o : f = arg[r].family /\ o = arg[r].token
    OBVIOUS
  <2>2. RotateEffect(f, o, t)
    BY <1>3, <2>1, RotateWrites
  <2>3. HoldsSession(r, f) /\ r # q /\ f \in SessionIds
    BY <1>3, <2>1, <2>2 DEF RotateCommit, HoldsSession, RotateEffect
  <2>4. f # s
    BY <1>0, <1>1, <2>3 DEF LocksApart
  <2>5. x # t /\ x # o
    BY <2>2, <2>4 DEF RotateEffect
  <2>. QED BY <2>2, <2>5 DEF RotateEffect, Issued
<1>4. ASSUME NEW r \in Requests, RevokeTokens(r)
      PROVE  Issued(x) /\ token[x].session = s
  <2>1. RevokeEffect(r)
    BY <1>4, RevokeWrites
  <2>. QED BY <2>1 DEF RevokeEffect, TokenRevoked, Issued
<1>5. CASE UNCHANGED tables
  BY <1>5 DEF tables, Issued
<1>. QED BY <1>2, <1>3, <1>4, <1>5, WritesTables

(* What holds of a request's transaction is left alone by the others.      *)
Kept(q) == /\ phase'[q] = phase[q] /\ arg'[q] = arg[q] /\ locked'[q] = locked[q]
           /\ todo'[q] = todo[q] /\ outcome'[q] = outcome[q]

LEMMA KeptScope ==
  ASSUME Invariant, [Next]_vars, NEW q \in Requests, arg'[q] = arg[q]
  PROVE  Scope(q) \subseteq Scope(q)'
<1>1. Grown
  BY TablesGrow
<1>. QED BY <1>1 DEF Scope, Grown, Created

LEMMA KeptRotation ==
  ASSUME Invariant, [Next]_vars, NEW q \in Requests, Kept(q)
  PROVE  RotationSound(q)'
<1>0. TypeOK /\ TokensHaveSession /\ RotationSound(q) /\ Grown
  BY TablesGrow DEF Invariant, SessionsInductive, TransactionsSound
<1>1. PICK o : o = arg[q].token
  OBVIOUS
<1>2. CASE phase[q] \in {"checked", "consumed", "rotating"}
  <2>1. /\ o \in Tokens /\ Issued(o)' /\ arg[q].family = token'[o].session
        /\ arg[q].user = None
    BY <1>0, <1>1, <1>2 DEF RotationSound, Grown, Issued
  <2>2. ASSUME phase[q] \in {"consumed", "rotating"}
        PROVE  token'[o] = token[o] /\ Unused(o)
    BY <1>0, <1>1, <2>2, HeldKept DEF Kept, RotationSound
  <2>. QED BY <1>1, <2>1, <2>2 DEF RotationSound, Kept, Unused, Issued
<1>3. CASE phase[q] \notin {"checked", "consumed", "rotating"}
  BY <1>3 DEF RotationSound, Kept
<1>. QED BY <1>2, <1>3

LEMMA KeptRevocation ==
  ASSUME Invariant, [Next]_vars, NEW q \in Requests, Kept(q)
  PROVE  RevocationSound(q)'
<1>0. TypeOK /\ TokensHaveSession /\ RevocationSound(q) /\ Grown
  BY TablesGrow DEF Invariant, SessionsInductive, TransactionsSound
<1>1. ASSUME phase'[q] \in {"revoking", "marking", "sweeping"}
      PROVE  /\ arg'[q].user = None => arg'[q].family \in SessionIds /\ Created(arg[q].family)'
             /\ outcome'[q] \in Refusals => arg'[q].user = None
  BY <1>0, <1>1 DEF RevocationSound, Kept, Grown, Created
<1>2. ASSUME phase'[q] \in {"marking", "sweeping"}
      PROVE  /\ locked'[q] \subseteq Scope(q)'
             /\ outcome'[q] \in Refusals => Revoked(arg[q].family)' \/ arg'[q].family \in locked'[q]
  <2>1. locked[q] \subseteq Scope(q) /\ Scope(q) \subseteq Scope(q)'
    BY <1>0, <1>2, KeptScope DEF RevocationSound, Kept
  <2>2. outcome[q] \in Refusals => arg[q].family \in SessionIds
    BY <1>0, <1>2 DEF RevocationSound, Kept
  <2>3. outcome[q] \in Refusals => Revoked(arg[q].family) \/ arg[q].family \in locked[q]
    BY <1>0, <1>2 DEF RevocationSound, Kept
  <2>4. \A s \in SessionIds : Revoked(s) => Revoked(s)'
    BY <1>0 DEF Grown, Revoked, Created
  <2>5. PICK f : f = arg[q].family
    OBVIOUS
  <2>6. Revoked(arg[q].family)' <=> Revoked(f)'
    BY <2>5 DEF Kept, Revoked, Created
  <2>. QED BY <2>1, <2>2, <2>3, <2>4, <2>5, <2>6 DEF Kept
<1>3. ASSUME phase'[q] = "sweeping"
      PROVE  /\ \A t \in todo'[q] : Issued(t)'
             /\ \A t \in TokensOf(locked[q])' : token'[t].revoked \/ t \in todo'[q]
  <2>1. /\ phase[q] = "sweeping" /\ todo[q] \subseteq Tokens
        /\ \A t \in todo[q] : Issued(t)
        /\ \A t \in TokensOf(locked[q]) : token[t].revoked \/ t \in todo[q]
    BY <1>0, <1>3 DEF RevocationSound, Kept, TypeOK
  <2>2. \A t \in todo'[q] : Issued(t)'
    BY <1>0, <2>1 DEF Grown, Kept, Issued
  <2>3. ASSUME NEW t \in TokensOf(locked[q])'
        PROVE  token'[t].revoked \/ t \in todo'[q]
    <3>1. /\ t \in Tokens /\ Issued(t)' /\ token'[t].session \in locked[q]
      BY <2>3 DEF TokensOf, Kept
    <3>2. Issued(t) /\ token[t].session \in locked[q]
      BY <2>1, <3>1, SweepComplete
    <3>3. token[t].revoked \/ t \in todo[q]
      BY <2>1, <3>1, <3>2 DEF TokensOf
    <3>. QED BY <1>0, <3>1, <3>2, <3>3 DEF Grown, Kept, Issued
  <2>. QED BY <2>2, <2>3
<1>4. Refused(q)' => arg'[q].family \in SessionIds
  BY <1>0 DEF RevocationSound, Refused, Kept
<1>. QED BY <1>1, <1>2, <1>3, <1>4 DEF RevocationSound

LEMMA KeptRefused ==
  ASSUME Invariant, [Next]_vars, NEW q \in Requests,
         Refused(q), arg'[q] = arg[q]
  PROVE  Revoked(arg[q].family)'
<1>1. Grown /\ Revoked(arg[q].family) /\ RevocationSound(q)
  BY TablesGrow DEF Invariant, RefusedIsDead, SessionsInductive, TransactionsSound
<1>2. PICK f : f = arg[q].family
  OBVIOUS
<1>3. f \in SessionIds /\ Revoked(f)
  BY <1>1, <1>2 DEF RevocationSound
<1>4. Revoked(f)'
  BY <1>1, <1>3 DEF Grown, Revoked, Created
<1>. QED BY <1>2, <1>4 DEF Revoked, Created

(* What the acting request's own step leaves true of it.                   *)
LEMMA OwnRotation ==
  ASSUME Invariant, NEW r \in Requests, Acts(r)
  PROVE  RotationSound(r)'
<1>0. TypeOK /\ TokensHaveSession /\ RotationSound(r)
  BY DEF Invariant, SessionsInductive, TransactionsSound
<1>1. ASSUME NEW t \in Tokens, RotateRead(r, t) PROVE RotationSound(r)'
  BY <1>0, <1>1 DEF TypeOK, RotateRead, Begin, Supplied, tables, RotationSound, Issued
<1>2. CASE Consume(r)
  <2>1. /\ phase[r] = "checked" /\ session' = session /\ token' = token /\ arg' = arg
        /\ phase'[r] = IF Unused(arg[r].token) THEN "consumed" ELSE "revoking"
    BY <1>0, <1>2 DEF TypeOK, Consume, tables
  <2>. QED BY <1>0, <2>1 DEF RotationSound, Issued, Unused
<1>3. CASE RotateSession(r)
  <2>1. /\ phase[r] = "consumed" /\ phase'[r] = "rotating"
        /\ session' = session /\ token' = token /\ arg' = arg
    BY <1>0, <1>3 DEF TypeOK, RotateSession, tables
  <2>. QED BY <1>0, <2>1 DEF RotationSound, Issued, Unused
<1>4. CASE phase'[r] \in {"idle", "done", "revoking", "marking", "sweeping"}
  BY <1>4 DEF RotationSound
<1>5. ASSUME NEW a, NEW o, NEW p \in {"idle", "done", "revoking"}, Begin(r, p, a, o)
      PROVE  phase'[r] = p
  BY <1>0, <1>5 DEF TypeOK, Begin
<1>6. ASSUME \/ \E u \in Users, s \in SessionIds, t \in Tokens : Create(r, u, s, t)
             \/ \E s \in SessionIds : Revoke(r, s)
             \/ \E u \in Users : RevokeAll(r, u)
      PROVE  phase'[r] \in {"done", "revoking"}
  BY <1>5, <1>6 DEF Create, Revoke, RevokeAll
<1>7. ASSUME \/ \E t \in Tokens : RotateCommit(r, t)
             \/ RevokeSessions(r) \/ RevokeScan(r) \/ RevokeTokens(r) \/ Rollback(r) \/ Respond(r)
      PROVE  phase'[r] \in {"idle", "done", "marking", "sweeping"}
  BY <1>0, <1>7 DEF TypeOK, RotateCommit, RevokeSessions, RevokeScan, RevokeTokens, Rollback,
                    Respond, Finish
<1>. QED BY <1>1, <1>2, <1>3, <1>4, <1>6, <1>7 DEF Acts

LEMMA OwnRevocation ==
  ASSUME Invariant, [Next]_vars, NEW r \in Requests, Acts(r)
  PROVE  RevocationSound(r)'
<1>0. TypeOK /\ TokensHaveSession /\ RotationSound(r) /\ RevocationSound(r)
  BY DEF Invariant, SessionsInductive, TransactionsSound
<1> USE DEF RevocationSound, Refused, Refusals
<1>1. ASSUME NEW t \in Tokens, RotateRead(r, t) PROVE RevocationSound(r)'
  <2>1. /\ session' = session /\ token' = token
        /\ arg'[r] = Supplied(t) /\ phase'[r] \in {"revoking", "checked"}
    BY <1>0, <1>1 DEF TypeOK, RotateRead, Begin, tables
  <2>2. token[t].session \in SessionIds /\ Created(token[t].session)
    BY <1>0, <1>1 DEF TypeOK, RotateRead, Issued, Token, TokensHaveSession
  <2>. QED BY <2>1, <2>2 DEF Supplied, Created
<1>2. CASE Consume(r)
  <2>1. /\ session' = session /\ token' = token /\ arg' = arg
        /\ phase'[r] \in {"consumed", "revoking"} /\ phase[r] = "checked"
    BY <1>0, <1>2 DEF TypeOK, Consume, tables
  <2>2. PICK f : f = arg[r].family
    OBVIOUS
  <2>3. f \in SessionIds /\ Created(f)
    BY <1>0, <2>1, <2>2, RotationRows, NoneAssumption DEF Created
  <2>4. phase[r] \in {"checked", "consumed", "rotating"} => arg[r].user = None
    BY <1>0 DEF RotationSound
  <2>. QED BY <2>1, <2>2, <2>3, <2>4 DEF Created
<1>3. CASE RotateSession(r) \/ \E t \in Tokens : RotateCommit(r, t)
  BY <1>0, <1>3 DEF TypeOK, RotateSession, RotateCommit, Finish
<1>4. CASE Rollback(r) \/ Respond(r)
  BY <1>0, <1>4 DEF TypeOK, Rollback, Respond, Finish
<1>5. ASSUME NEW u \in Users, NEW s \in SessionIds, NEW t \in Tokens, Create(r, u, s, t)
      PROVE  RevocationSound(r)'
  BY <1>0, <1>5 DEF TypeOK, Create, Begin
<1>6. ASSUME NEW s \in SessionIds, Revoke(r, s) PROVE RevocationSound(r)'
  <2>1. /\ session' = session /\ Created(s) /\ phase'[r] = "revoking" /\ outcome'[r] = "REVOKED"
        /\ arg'[r] = [token |-> None, family |-> s, user |-> None]
    BY <1>0, <1>6 DEF TypeOK, Revoke, Begin, tables
  <2>. QED BY <2>1 DEF Created
<1>7. ASSUME NEW u \in Users, RevokeAll(r, u) PROVE RevocationSound(r)'
  <2>1. /\ phase'[r] = "revoking" /\ outcome'[r] = "REVOKED"
        /\ arg'[r] = [token |-> None, family |-> None, user |-> u]
    BY <1>0, <1>7 DEF TypeOK, RevokeAll, Begin
  <2>2. u # None
    BY NoneAssumption
  <2>. QED BY <2>1, <2>2
<1>8. CASE RevokeSessions(r)
  <2>1. /\ session' = session /\ token' = token /\ arg' = arg /\ outcome' = outcome
        /\ phase[r] = "revoking" /\ phase'[r] = "marking" /\ locked'[r] = Unrevoked(r)
    BY <1>0, <1>8 DEF TypeOK, RevokeSessions, tables
  <2>2. Unrevoked(r) \subseteq Scope(r)'
    BY <2>1 DEF Unrevoked, Scope, Created
  <2>3. ASSUME outcome[r] \in Refusals
        PROVE  Revoked(arg[r].family) \/ arg[r].family \in Unrevoked(r)
    BY <1>0, <2>1, <2>3 DEF Unrevoked, Scope
  <2>4. /\ arg[r].user = None => arg[r].family \in SessionIds /\ Created(arg[r].family)
        /\ outcome[r] \in Refusals => arg[r].user = None
    BY <1>0, <2>1
  <2>. QED BY <2>1, <2>2, <2>3, <2>4 DEF Revoked, Created
<1>9. CASE RevokeScan(r)
  <2>1. /\ session' = session /\ token' = token /\ arg' = arg /\ outcome' = outcome
        /\ phase[r] = "marking" /\ phase'[r] = "sweeping" /\ locked' = locked
        /\ todo'[r] = {t \in TokensOf(Scope(r)) : ~token[t].revoked}
    BY <1>0, <1>9 DEF TypeOK, RevokeScan, tables
  <2>2. locked[r] \subseteq Scope(r) /\ Scope(r)' = Scope(r)
    BY <1>0, <2>1 DEF Scope, Created
  <2>3. \A t \in todo'[r] : Issued(t)
    BY <2>1 DEF TokensOf
  <2>4. \A t \in TokensOf(locked[r]) : token[t].revoked \/ t \in todo'[r]
    BY <2>1, <2>2 DEF TokensOf
  <2>5. /\ arg[r].user = None => arg[r].family \in SessionIds /\ Created(arg[r].family)
        /\ outcome[r] \in Refusals => arg[r].user = None
        /\ outcome[r] \in Refusals => Revoked(arg[r].family) \/ arg[r].family \in locked[r]
    BY <1>0, <2>1
  <2>. QED BY <2>1, <2>2, <2>3, <2>4, <2>5 DEF TokensOf, Issued, Revoked, Created
<1>10. CASE RevokeTokens(r)
  <2>1. /\ arg' = arg /\ outcome'[r] = outcome[r] /\ phase[r] = "sweeping" /\ phase'[r] = "done"
    BY <1>0, <1>10 DEF TypeOK, RevokeTokens, Finish
  <2>2. outcome[r] \in Refusals => arg[r].family \in SessionIds
    BY <1>0, <2>1
  <2>. QED BY <2>1, <2>2
<1>. QED BY <1>1, <1>2, <1>3, <1>4, <1>5, <1>6, <1>7, <1>8, <1>9, <1>10 DEF Acts

LEMMA OwnRefused ==
  ASSUME Invariant, [Next]_vars, NEW r \in Requests, Acts(r), Refused(r)'
  PROVE  Revoked(arg[r].family)'
<1>0. TypeOK /\ RevocationSound(r)
  BY DEF Invariant, SessionsInductive, TransactionsSound
<1>1. CASE RevokeTokens(r)
  <2>1. /\ arg' = arg /\ outcome'[r] = outcome[r] /\ phase[r] = "sweeping"
    BY <1>0, <1>1 DEF TypeOK, RevokeTokens, Finish
  <2>2. outcome[r] \in Refusals
    BY <2>1 DEF Refused
  <2>3. PICK f : f = arg[r].family
    OBVIOUS
  <2>4. f \in SessionIds /\ (Revoked(f) \/ f \in locked[r])
    BY <1>0, <2>1, <2>2, <2>3 DEF RevocationSound
  <2>5. RevokeEffect(r) /\ Grown
    BY <1>1, RevokeWrites, TablesGrow
  <2>6. CASE Revoked(f)
    BY <2>1, <2>3, <2>4, <2>5, <2>6 DEF Grown, Revoked, Created
  <2>7. CASE f \in locked[r]
    BY <2>1, <2>3, <2>4, <2>5, <2>7 DEF RevokeEffect, SessionRevoked, Revoked, Created
  <2>. QED BY <2>4, <2>6, <2>7
<1>2. ASSUME NEW a, NEW p, NEW o \in {"CREATED", "REVOKED"}, Begin(r, p, a, o)
      PROVE  FALSE
  BY <1>0, <1>2 DEF TypeOK, Begin, Refused, Refusals
<1>3. CASE \/ \E u \in Users, s \in SessionIds, t \in Tokens : Create(r, u, s, t)
           \/ \E s \in SessionIds : Revoke(r, s)
           \/ \E u \in Users : RevokeAll(r, u)
  BY <1>2, <1>3 DEF Create, Revoke, RevokeAll
<1>4. CASE \E t \in Tokens : RotateRead(r, t)
  BY <1>0, <1>4 DEF TypeOK, RotateRead, Begin, Refused
<1>5. CASE Consume(r) \/ RotateSession(r) \/ RevokeSessions(r) \/ RevokeScan(r)
  BY <1>0, <1>5 DEF TypeOK, Consume, RotateSession, RevokeSessions, RevokeScan, Refused
<1>6. CASE (\E t \in Tokens : RotateCommit(r, t)) \/ Rollback(r) \/ Respond(r)
  BY <1>0, <1>6 DEF TypeOK, RotateCommit, Rollback, Respond, Finish, Refused, Refusals
<1>. QED BY <1>1, <1>3, <1>4, <1>5, <1>6 DEF Acts

(* A lock is taken only when no other transaction holds it.                *)
LEMMA OwnLocks ==
  ASSUME Invariant, NEW r \in Requests, Acts(r), NEW q \in Requests, q # r
  PROVE  LocksApart(r, q)' /\ LocksApart(q, r)'
<1>0. TypeOK /\ LocksApart(r, q)
  BY DEF Invariant, SessionsInductive, TransactionsSound
<1>1. /\ \A t \in Tokens : HoldsToken(q, t)' <=> HoldsToken(q, t)
      /\ \A s \in SessionIds : HoldsSession(q, s)' <=> HoldsSession(q, s)
  BY <1>0, ActsAlone DEF Alone, HoldsToken, HoldsSession
<1>2. SUFFICES ASSUME \/ \E t \in Tokens : HoldsToken(r, t)' /\ ~HoldsToken(r, t)
                      \/ \E s \in SessionIds : HoldsSession(r, s)' /\ ~HoldsSession(r, s)
               PROVE  LocksApart(r, q)'
  BY <1>0, <1>1 DEF LocksApart
<1>3. CASE Consume(r)
  <2>1. /\ \A t \in Tokens : HoldsToken(r, t)' => ~HoldsToken(q, t)
        /\ \A s \in SessionIds : ~HoldsSession(r, s)'
    BY <1>0, <1>3 DEF TypeOK, Consume, HoldsToken, HoldsSession, TokenFree
  <2>. QED BY <1>1, <2>1 DEF LocksApart
<1>4. CASE RotateSession(r)
  <2>1. /\ \A t \in Tokens : HoldsToken(r, t)' => HoldsToken(r, t)
        /\ \A s \in SessionIds : HoldsSession(r, s)' => ~HoldsSession(q, s)
    BY <1>0, <1>4 DEF TypeOK, RotateSession, HoldsToken, HoldsSession, SessionFree
  <2>. QED BY <1>0, <1>1, <2>1 DEF LocksApart
<1>5. CASE RevokeSessions(r)
  <2>1. /\ \A t \in Tokens : ~HoldsToken(r, t)'
        /\ \A s \in SessionIds : HoldsSession(r, s)' => ~HoldsSession(q, s)
    BY <1>0, <1>5 DEF TypeOK, RevokeSessions, HoldsToken, HoldsSession, SessionFree
  <2>. QED BY <1>0, <1>1, <2>1 DEF LocksApart
<1>6. CASE RevokeScan(r)
  BY <1>0, <1>2, <1>6 DEF TypeOK, RevokeScan, HoldsToken, HoldsSession
<1>7. CASE \/ \E t \in Tokens : RotateCommit(r, t)
           \/ RevokeTokens(r) \/ Rollback(r) \/ Respond(r)
  BY <1>0, <1>2, <1>7 DEF TypeOK, RotateCommit, RevokeTokens, Rollback, Respond, Finish,
                          HoldsToken, HoldsSession
<1>8. ASSUME NEW a, NEW o, NEW p \in {"done", "revoking", "checked"}, Begin(r, p, a, o)
      PROVE  FALSE
  BY <1>0, <1>2, <1>8 DEF TypeOK, Begin, HoldsToken, HoldsSession
<1>9. CASE \/ \E u \in Users, s \in SessionIds, t \in Tokens : Create(r, u, s, t)
           \/ \E t \in Tokens : RotateRead(r, t)
           \/ \E s \in SessionIds : Revoke(r, s)
           \/ \E u \in Users : RevokeAll(r, u)
  BY <1>8, <1>9 DEF Create, RotateRead, Revoke, RevokeAll
<1>. QED BY <1>3, <1>4, <1>5, <1>6, <1>7, <1>9 DEF Acts

LEMMA NextTransactions ==
  ASSUME Invariant, [Next]_vars
  PROVE  TransactionsSound' /\ RefusedIsDead'
<1>0. TypeOK /\ TransactionsSound
  BY DEF Invariant, SessionsInductive
<1>1. ASSUME NEW r \in Requests, Acts(r)
      PROVE  TransactionsSound' /\ RefusedIsDead'
  <2>1. \A q \in Requests \ {r} : Kept(q)
    BY <1>0, <1>1, ActsAlone DEF Alone, Kept
  <2>2. ASSUME NEW q \in Requests
        PROVE  RotationSound(q)' /\ RevocationSound(q)' /\ (Refused(q)' => Revoked(arg[q].family)')
    <3>1. CASE q = r
      BY <1>1, <3>1, OwnRotation, OwnRevocation, OwnRefused
    <3>2. CASE q # r
      <4>1. Kept(q)
        BY <2>1, <3>2
      <4>2. Refused(q)' => Refused(q)
        BY <4>1 DEF Kept, Refused
      <4>. QED BY <4>1, <4>2, KeptRotation, KeptRevocation, KeptRefused DEF Kept
    <3>. QED BY <3>1, <3>2
  <2>3. ASSUME NEW p \in Requests, NEW q \in Requests, p # q
        PROVE  LocksApart(p, q)'
    <3>1. CASE p = r \/ q = r
      BY <1>1, <2>3, <3>1, OwnLocks
    <3>2. CASE p # r /\ q # r
      <4>1. LocksApart(p, q) /\ Kept(p) /\ Kept(q)
        BY <1>0, <2>1, <2>3, <3>2 DEF TransactionsSound
      <4>. QED BY <4>1 DEF LocksApart, Kept, HoldsToken, HoldsSession
    <3>. QED BY <3>1, <3>2
  <2>. QED BY <2>2, <2>3 DEF TransactionsSound, RefusedIsDead
<1>2. CASE TimePasses
  <2>1. \A q \in Requests : Kept(q)
    BY <1>2 DEF TimePasses, locals, Kept
  <2>2. ASSUME NEW q \in Requests
        PROVE  RotationSound(q)' /\ RevocationSound(q)' /\ (Refused(q)' => Revoked(arg[q].family)')
    <3>2. Refused(q)' => Refused(q)
      BY <2>1 DEF Kept, Refused
    <3>. QED BY <2>1, <3>2, KeptRotation, KeptRevocation, KeptRefused DEF Kept
  <2>3. \A p, q \in Requests : p # q => LocksApart(p, q)'
    BY <1>0, <2>1 DEF TransactionsSound, LocksApart, Kept, HoldsToken, HoldsSession
  <2>. QED BY <2>2, <2>3 DEF TransactionsSound, RefusedIsDead
<1>. QED BY <1>1, <1>2, StepCases

LEMMA NextInvariant == Invariant /\ [Next]_vars => Invariant'
  BY NextType, NextChain, NextRevoked, NextTransactions DEF Invariant, SessionsInductive

LEMMA InitInvariant == Init => Invariant
<1> SUFFICES ASSUME Init PROVE Invariant
  OBVIOUS
<1>1. \A s \in SessionIds : ~Created(s)
  BY DEF Init, Created
<1>2. \A t \in Tokens : ~Issued(t)
  BY DEF Init, Issued
<1>3. TypeOK
  BY DEF Init, TypeOK, Phases, Outcomes, Argument, NoArgument
<1>4. TransactionsSound
  BY DEF Init, TransactionsSound, RotationSound, RevocationSound, Refused, LocksApart,
         HoldsToken, HoldsSession
<1>5. ChainEnds /\ RevokedIsDead /\ TokensHaveSession
  BY <1>1, <1>2 DEF ChainEnds, RevokedIsDead, Revoked, TokensHaveSession
<1>6. RefusedIsDead
  BY DEF Init, RefusedIsDead, Refused
<1>. QED BY <1>3, <1>4, <1>5, <1>6 DEF Invariant, SessionsInductive

LEMMA AlwaysInvariant == Spec => []Invariant
  BY InitInvariant, NextInvariant, PTL DEF Spec

-----------------------------------------------------------------------------
(* All variables keep their types: session.service.ts never leaves a row   *)
(* half written.                                                           *)
THEOREM TypeCorrect == Spec => []TypeOK
  BY AlwaysInvariant, PTL DEF Invariant

(* Whatever rotations, logouts and rollbacks overlap, each session has one *)
(* token that was never consumed, the last one rotate or create gave it.   *)
THEOREM ChainsEnd == Spec => []ChainEnds
  BY AlwaysInvariant, PTL DEF Invariant

(* revoke, revokeAll and the reuse detection leave no token of a revoked   *)
(* session unrevoked, for any number of rotations under way.               *)
THEOREM RevokedStaysDead == Spec => []RevokedIsDead
  BY AlwaysInvariant, PTL DEF Invariant

(* A refusal by rotate is answered after its family has been revoked.      *)
THEOREM RefusedStaysDead == Spec => []RefusedIsDead
  BY AlwaysInvariant, PTL DEF Invariant

(* The strengthening the others rest on: rows, locks and sweeps of the     *)
(* transactions under way.                                                 *)
THEOREM InductiveHolds == Spec => []SessionsInductive
  BY AlwaysInvariant, PTL DEF Invariant

-----------------------------------------------------------------------------
(* How a step of the session service looks to TokenFamily.                 *)
lives  == [s \in SessionIds |-> Life(s)]
heads  == [s \in SessionIds |-> Head(s)]
spents == {t \in Tokens : Issued(t)}

LEMMA CreateStarts ==
  ASSUME Invariant, NEW u \in Users, NEW s \in SessionIds, NEW t \in Tokens,
         CreateEffect(u, s, t)
  PROVE  Family!Start(s, t)
<1>1. TypeOK /\ Chain
  BY ChainForward DEF Invariant
<1>2. lives[s] = "unborn" /\ t \notin spents
  BY DEF lives, Life, spents, CreateEffect
<1>3. spents' = spents \cup {t}
  BY DEF spents, CreateEffect, Issued
<1>4. heads' = [heads EXCEPT ![s] = t]
  <2>1. Head(s)' = t
    BY DEF Head, CreateEffect
  <2>2. \A z \in SessionIds \ {s} : Head(z)' = Head(z)
    BY DEF Head, CreateEffect, Created
  <2>. QED BY <2>1, <2>2 DEF heads
<1>5. lives' = [lives EXCEPT ![s] = "live"]
  <2>1. Life(s)' = "live"
    BY DEF Life, CreateEffect
  <2>2. \A z \in SessionIds \ {s} : Life(z)' = Life(z)
    BY <1>1 DEF Life, CreateEffect, Created, Chain
  <2>. QED BY <2>1, <2>2 DEF lives
<1>. QED BY <1>2, <1>3, <1>4, <1>5 DEF Family!Start, Family!Continue, lives, heads, spents

LEMMA RotateAdvances ==
  ASSUME Invariant, NEW f \in SessionIds, NEW o \in Tokens, NEW t \in Tokens,
         RotateEffect(f, o, t)
  PROVE  Family!Advance(f, t)
<1>1. TypeOK /\ Chain
  BY ChainForward DEF Invariant
<1>2. lives[f] = "live" /\ t \notin spents
  BY DEF lives, Life, spents, RotateEffect
<1>3. spents' = spents \cup {t}
  BY DEF spents, RotateEffect, Issued
<1>4. heads' = [heads EXCEPT ![f] = t]
  <2>1. Head(f)' = t
    BY DEF Head, RotateEffect
  <2>2. \A z \in SessionIds \ {f} : Head(z)' = Head(z)
    BY DEF Head, RotateEffect, Created
  <2>. QED BY <2>1, <2>2 DEF heads
<1>5. lives' = [lives EXCEPT ![f] = "live"]
  <2>1. Life(f)' = "live"
    BY DEF Life, RotateEffect
  <2>2. \A z \in SessionIds \ {f} : Life(z)' = Life(z)
    BY <1>1 DEF Life, RotateEffect, Created, Chain
  <2>. QED BY <2>1, <2>2 DEF lives
<1>. QED BY <1>2, <1>3, <1>4, <1>5 DEF Family!Advance, Family!Continue, lives, heads, spents

LEMMA RevokeKills ==
  ASSUME Invariant, NEW r \in Requests, RevokeEffect(r)
  PROVE  \E F \in SUBSET SessionIds : Family!Kill(F)
<1>1. TypeOK /\ Chain
  BY ChainForward DEF Invariant
<1> DEFINE F == {s \in SessionIds : Life(s) = "live" /\ session[s].current \in todo[r]}
<1>2. \A s \in SessionIds : /\ Created(s)' <=> Created(s)
                            /\ Created(s) => session'[s].current = session[s].current
  BY DEF RevokeEffect, SessionRevoked, Created
<1>3. heads' = heads
  BY <1>2 DEF heads, Head
<1>4. spents' = spents
  BY DEF spents, RevokeEffect, TokenRevoked, Issued
<1>5. \A s \in SessionIds : Life(s)' = IF s \in F THEN "dead" ELSE Life(s)
  <2> SUFFICES ASSUME NEW s \in SessionIds
               PROVE  Life(s)' = IF s \in F THEN "dead" ELSE Life(s)
    OBVIOUS
  <2>1. CASE ~Created(s)
    BY <1>2, <2>1 DEF Life
  <2>2. CASE Created(s)
    <3>1. PICK x \in Tokens : x = session[s].current
      BY <1>1, <2>2 DEF Chain
    <3>2. session'[s].current = x /\ Created(s)'
      BY <1>2, <2>2, <3>1
    <3>3. CASE x \in todo[r]
      <4>1. token'[x].revoked
        BY <3>3 DEF RevokeEffect, TokenRevoked
      <4>. QED BY <2>2, <3>1, <3>2, <3>3, <4>1 DEF Life
    <3>4. CASE x \notin todo[r]
      <4>1. token'[x] = token[x]
        BY <3>4 DEF RevokeEffect
      <4>. QED BY <2>2, <3>1, <3>2, <3>4, <4>1 DEF Life
    <3>. QED BY <3>3, <3>4
  <2>. QED BY <2>1, <2>2
<1>6. lives' = [s \in SessionIds |-> IF s \in F THEN "dead" ELSE lives[s]]
  BY <1>5 DEF lives
<1>7. \A s \in F : lives[s] = "live"
  BY DEF lives
<1>8. Family!Kill(F)
  BY <1>3, <1>4, <1>6, <1>7 DEF Family!Kill, lives, heads, spents
<1>. QED BY <1>8

LEMMA StepKeepsFamily ==
  ASSUME Invariant, [Next]_vars
  PROVE  [Family!Next]_(Family!familyVars)
<1>1. ASSUME NEW u \in Users, NEW s \in SessionIds, NEW t \in Tokens, CreateEffect(u, s, t)
      PROVE  Family!Next
  BY <1>1, CreateStarts DEF Family!Next
<1>2. ASSUME NEW f \in SessionIds, NEW o \in Tokens, NEW t \in Tokens, RotateEffect(f, o, t)
      PROVE  Family!Next
  BY <1>2, RotateAdvances DEF Family!Next
<1>3. ASSUME NEW r \in Requests, RevokeEffect(r)
      PROVE  Family!Next
  BY <1>3, RevokeKills DEF Family!Next
<1>4. CASE UNCHANGED tables
  BY <1>4 DEF tables, Family!familyVars, Life, Head, Created, Issued
<1>. QED BY <1>1, <1>2, <1>3, <1>4, StepWrites DEF Writes

(* The session tables implement TokenFamily: a token that rotate has       *)
(* replaced is never the head again, and nothing continues a revoked       *)
(* family.                                                                 *)
THEOREM ImplementsFamily == Spec => KeepsFamily
<1>1. Init => Family!Init
  BY DEF Init, Family!Init, Life, Head, Created, Issued
<1>. QED BY <1>1, StepKeepsFamily, AlwaysInvariant, PTL DEF Spec, KeepsFamily, Family!Spec

(***************************************************************************)
(* The browsers                                                            *)
(***************************************************************************)
Rotations   == {"checked", "consumed", "rotating"}
Revocations == {"revoking", "marking", "sweeping"}

(* An answer with new cookies is on its way; of a rotation; with token t.  *)
Delivers(r)   == phase[r] = "done" /\ outcome[r] \in {"CREATED", "ROTATED"}
Settled(r)    == phase[r] = "done" /\ outcome[r] = "ROTATED"
Carries(r, t) == Delivers(r) /\ arg[r].token = t
Spent(t)      == token[t] # None /\ token[t].used

ClientTypeOK == /\ jar \in [Browsers -> Jar] /\ call \in [Requests -> Call]
                /\ excused \subseteq Tokens

(* The transaction of a request is the one its call waits for.             *)
CallSound(r) ==
  /\ call[r].stage # "idle" => call[r].browser \in Browsers
  /\ phase[r] # "idle" => call[r].stage \in {"login", "refresh", "act"}
  /\ phase[r] \in Rotations => call[r].stage = "refresh" /\ arg[r].token = call[r].refresh
  /\ phase[r] \in Revocations => outcome[r] \in Refusals \cup {"REVOKED"}
  /\ call[r].stage = "refresh" => call[r].refresh \in Tokens /\ token[call[r].refresh] # None
  /\ Delivers(r) => arg[r].token \in Tokens /\ token[arg[r].token] # None

CallsSound == \A r \in Requests : CallSound(r)

CookiesIssued ==
  \A b \in Browsers : jar[b].refresh # None => token[jar[b].refresh] # None

(* A token is on its way to a browser, or in one browser and in the calls  *)
(* that browser makes with it.                                             *)
OnePlace(t) ==
  /\ \A b, c \in Browsers : jar[b].refresh = t /\ jar[c].refresh = t => b = c
  /\ \A r \in Requests, b \in Browsers :
       Refreshing(r, t) /\ jar[b].refresh = t => call[r].browser = b
  /\ \A r \in Requests : Carries(r, t) =>
       /\ ~Spent(t) /\ \A b \in Browsers : jar[b].refresh # t
       /\ \A q \in Requests : ~Refreshing(q, t) /\ (Carries(q, t) => q = r)

(* Without an excuse one call at most presents a token, and once that is   *)
(* spent the call is the one whose rotation has spent it: while its answer *)
(* is on its way the cookie may still be there, and not after that.        *)
SpentOnce(t) == t \notin excused =>
  /\ \A r, q \in Requests : Refreshing(r, t) /\ Refreshing(q, t) => r = q
  /\ Spent(t) =>
       /\ \A r \in Requests : Refreshing(r, t) => Settled(r)
       /\ \A b \in Browsers : jar[b].refresh = t => \E r \in Requests : Refreshing(r, t)

TokensPlaced == \A t \in Tokens : OnePlace(t) /\ SpentOnce(t)

ClientInvariant == /\ Invariant /\ ClientTypeOK /\ CallsSound
                   /\ CookiesIssued /\ TokensPlaced

(* The steps of the composition are steps of the service.                  *)
LEMMA FreshIsToken == TokenLeft => FreshToken \in Tokens /\ ~Issued(FreshToken)
  BY DEF TokenLeft, FreshToken

LEMMA FreshIsSession ==
  (\E s \in SessionIds : ~Created(s)) => FreshSession \in SessionIds /\ ~Created(FreshSession)
  BY DEF FreshSession

LEMMA ServerStep ==
  ASSUME NEW r \in Requests, Server(r)
  PROVE  /\ UNCHANGED clientVars
         /\ Statement(r) \/ Rollback(r) \/ \E t \in Tokens : RotateCommit(r, t)
BY FreshIsToken DEF Server

LEMMA ClientSteps ==
  ASSUME ClientTypeOK, CallsSound, TypeOK, CookiesIssued, [ClientNext]_allVars
  PROVE  [Next]_vars
<1>1. ASSUME NEW r \in Requests, NEW b \in Browsers, NEW u \in Users, Login(r, b, u)
      PROVE  Next
  <2>1. PICK s \in SessionIds, t \in Tokens : Create(r, u, s, t)
    BY <1>1, FreshIsToken, FreshIsSession DEF Login
  <2>. QED BY <2>1 DEF Next
<1>2. ASSUME NEW r \in Requests, Serve(r) PROVE [Next]_vars
  <2>1. call[r].access \in SessionIds /\ session[call[r].access] \in Session
    BY <1>2 DEF Serve, Passes, Admitted, Created, ClientTypeOK, Call, TypeOK
  <2>2. session[call[r].access].user \in Users
    BY <2>1 DEF Session
  <2>. QED BY <1>2, <2>1, <2>2 DEF Serve, Next
<1>3. ASSUME NEW r \in Requests, Refresh(r) PROVE Next
  BY <1>3 DEF Refresh, CallsSound, CallSound, Next
<1>4. ASSUME NEW r \in Requests, Server(r) PROVE Next
  BY <1>4, ServerStep DEF Next
<1>5. ASSUME NEW r \in Requests, Receive(r) \/ Lose(r) PROVE Next
  BY <1>5 DEF Receive, Lose, Next
<1>6. ASSUME NEW r \in Requests, Unauthorized(r) \/ \E b \in Browsers : Send(r, b)
      PROVE  UNCHANGED vars
  BY <1>6 DEF Unauthorized, Send
<1>7. ASSUME NEW b \in Browsers, AccessExpires(b) PROVE UNCHANGED vars
  BY <1>7 DEF AccessExpires
<1>8. ASSUME NEW r \in Requests, Rollback(r) PROVE Next
  BY <1>8 DEF Next
<1>9. ASSUME NEW s \in SessionIds, Lapse(s) PROVE Next
  BY <1>9 DEF Next
<1>10. CASE UNCHANGED allVars
  BY <1>10 DEF allVars
<1>. QED BY <1>1, <1>2, <1>3, <1>4, <1>5, <1>6, <1>7, <1>8, <1>9, <1>10, Zenon DEF ClientNext

(***************************************************************************)
(* What the client keeps                                                   *)
(***************************************************************************)
LEMMA CallFields ==
  ASSUME NEW s \in Stages, NEW b \in Browsers
  PROVE  /\ CallIn(s, b) \in Call /\ CallIn(s, b).stage = s /\ CallIn(s, b).browser = b
         /\ \A a \in SessionIds \cup {None}, x \in BOOLEAN :
              /\ SentWith(b, a, x) \in Call
              /\ SentWith(b, a, x).stage = "sent" /\ SentWith(b, a, x).browser = b
         /\ \A t \in Tokens :
              LET c == [CallIn(s, b) EXCEPT !.refresh = t] IN
              c \in Call /\ c.stage = s /\ c.browser = b /\ c.refresh = t
BY DEF CallIn, SentWith, NoCall, Call, Stages

LEMMA NoCallFields == NoCall \in Call /\ NoCall.stage = "idle"
BY DEF NoCall, Call, Stages

LEMMA NextCalls ==
  ASSUME Invariant, ClientTypeOK, CallsSound, [ClientNext]_allVars
  PROVE  ClientTypeOK'
<1> USE DEF ClientTypeOK
<1>0. TypeOK
  BY DEF Invariant
<1>1. ASSUME NEW r \in Requests, NEW b \in Browsers, NEW u \in Users, Login(r, b, u)
      PROVE  ClientTypeOK'
  BY <1>1, CallFields DEF Login, Stages
<1>2. ASSUME NEW r \in Requests, NEW b \in Browsers, Send(r, b) PROVE ClientTypeOK'
  <2>1. jar[b].access \in SessionIds \cup {None}
    BY DEF Jar
  <2>2. SentWith(b, jar[b].access, FALSE) \in Call
    BY <2>1, CallFields DEF Stages
  <2>. QED BY <1>2, <2>2 DEF Send
<1>3. ASSUME NEW r \in Requests, call[r].stage # "idle" PROVE call[r].browser \in Browsers
  BY <1>3 DEF CallsSound, CallSound
<1>4. ASSUME NEW r \in Requests, Serve(r) PROVE ClientTypeOK'
  <2>1. CallIn("act", call[r].browser) \in Call
    BY <1>3, <1>4, CallFields DEF Serve, Stages
  <2>. QED BY <1>4, <2>1, NoCallFields DEF Serve
<1>5. ASSUME NEW r \in Requests, Unauthorized(r) PROVE ClientTypeOK'
  <2>0. PICK b \in Browsers : b = call[r].browser
    BY <1>3, <1>5 DEF Unauthorized
  <2>1. PICK t : t = jar[b].refresh
    OBVIOUS
  <2>2. t \in Tokens \cup {None}
    BY <2>0, <2>1 DEF Jar
  <2>3. CASE t # None /\ call' = [call EXCEPT ![r] = [CallIn("refresh", b) EXCEPT !.refresh = t]]
    <3>1. [CallIn("refresh", b) EXCEPT !.refresh = t] \in Call
      BY <2>2, <2>3, CallFields DEF Stages
    <3>. QED BY <1>5, <2>0, <2>1, <2>2, <2>3, <3>1 DEF Unauthorized
  <2>4. CASE call' = [call EXCEPT ![r] = NoCall] /\ UNCHANGED excused
    BY <1>5, <2>4, NoCallFields DEF Unauthorized
  <2>. QED BY <1>5, <2>0, <2>1, <2>3, <2>4 DEF Unauthorized
<1>6. ASSUME NEW r \in Requests, Receive(r) \/ Lose(r) PROVE ClientTypeOK'
  <2>1. PICK b \in Browsers : b = call[r].browser
    BY <1>3, <1>6 DEF Receive, Lose, Respond, CallsSound, CallSound
  <2>2. SetCookies(r) \in Jar /\ NoCookies \in Jar /\ arg[r].family \in SessionIds \cup {None}
    BY <1>0 DEF TypeOK, SetCookies, NoCookies, Argument, Jar
  <2>3. SentWith(b, arg[r].family, TRUE) \in Call
    BY <2>2, CallFields DEF Stages
  <2>4. call[r].refresh \in Tokens \cup {None}
    BY DEF Call
  <2>5. CASE Lose(r)
    BY <2>4, <2>5, NoCallFields DEF Lose
  <2>6. CASE Receive(r)
    BY <2>1, <2>2, <2>3, <2>6, NoCallFields DEF Receive
  <2>. QED BY <1>6, <2>5, <2>6
<1>7. ASSUME NEW b \in Browsers, AccessExpires(b) PROVE ClientTypeOK'
  <2>1. [jar[b] EXCEPT !.access = None] \in Jar
    BY DEF Jar
  <2>. QED BY <1>7, <2>1 DEF AccessExpires
<1>8. CASE UNCHANGED clientVars
  BY <1>8 DEF clientVars
<1>. QED
  BY <1>1, <1>2, <1>4, <1>5, <1>6, <1>7, <1>8 DEF ClientNext, Refresh, Server, allVars, clientVars

(***************************************************************************)
(* The transactions and their calls                                        *)
(***************************************************************************)
(* A step leaves alone the transaction of a request; its call.             *)
SameLocals(q) == phase'[q] = phase[q] /\ arg'[q] = arg[q] /\ outcome'[q] = outcome[q]

LEMMA StillSound ==
  ASSUME Grown, NEW q \in Requests, CallSound(q), SameLocals(q), call'[q] = call[q]
  PROVE  CallSound(q)'
BY DEF Grown, CallSound, SameLocals, Delivers

LEMMA BeginAt ==
  ASSUME TypeOK, NEW r \in Requests, NEW p, NEW a, NEW o, Begin(r, p, a, o)
  PROVE  phase[r] = "idle" /\ phase'[r] = p /\ arg'[r] = a /\ outcome'[r] = o
BY DEF TypeOK, Begin

LEMMA RotateReadAt ==
  ASSUME TypeOK, NEW r \in Requests, NEW t \in Tokens, RotateRead(r, t)
  PROVE  /\ phase[r] = "idle" /\ arg'[r].token = t
         /\ \/ phase'[r] = "checked"
            \/ phase'[r] = "revoking" /\ outcome'[r] \in Refusals
<1>1. Supplied(t).token = t
  BY DEF Supplied
<1>. QED BY <1>1, BeginAt DEF RotateRead, Refusals

LEMMA RespondAt ==
  ASSUME TypeOK, NEW r \in Requests, Respond(r)
  PROVE  phase[r] = "done" /\ phase'[r] = "idle" /\ outcome'[r] = "ERROR" /\ UNCHANGED tables
BY DEF TypeOK, Respond

(* A statement goes on with what the call waits for, or fails.             *)
LEMMA ServerAt ==
  ASSUME TypeOK, NEW r \in Requests,
         phase[r] \in Revocations => outcome[r] \in Refusals \cup {"REVOKED"},
         Statement(r) \/ Rollback(r)
  PROVE  /\ phase[r] \in Rotations \cup Revocations
         /\ \/ phase'[r] \in Rotations /\ arg'[r] = arg[r] /\ phase[r] \in Rotations
            \/ phase'[r] \in Revocations /\ outcome'[r] \in Refusals \cup {"REVOKED"}
            \/ phase'[r] = "done" /\ outcome'[r] \in Refusals \cup {"REVOKED", "ERROR"}
<1> USE DEF TypeOK, Rotations, Revocations, Refusals
<1>1. CASE Consume(r) \/ RotateSession(r)
  BY <1>1 DEF Consume, RotateSession
<1>2. CASE RevokeSessions(r) \/ RevokeScan(r)
  BY <1>2 DEF RevokeSessions, RevokeScan
<1>3. CASE RevokeTokens(r)
  BY <1>3 DEF RevokeTokens, Finish
<1>4. CASE Rollback(r)
  BY <1>4 DEF Rollback, Finish, Open, Phases
<1>. QED BY <1>1, <1>2, <1>3, <1>4 DEF Statement, Deadlock

LEMMA CommitAt ==
  ASSUME TypeOK, NEW r \in Requests, NEW t \in Tokens, RotateCommit(r, t)
  PROVE  /\ phase[r] = "rotating" /\ phase'[r] = "done" /\ outcome'[r] = "ROTATED"
         /\ arg'[r].token = t
BY DEF TypeOK, RotateCommit, Finish

LEMMA NextCallsSound ==
  ASSUME Invariant, ClientTypeOK, CallsSound, CookiesIssued, [ClientNext]_allVars
  PROVE  CallsSound'
<1> SUFFICES ASSUME NEW q \in Requests PROVE CallSound(q)'
  BY DEF CallsSound
<1>0. TypeOK /\ Grown /\ [Next]_vars /\ CallSound(q)
  BY ClientSteps, TablesGrow DEF Invariant, CallsSound
<1>1. ASSUME NEW r \in Requests, Acts(r), r # q, call'[q] = call[q] PROVE CallSound(q)'
  BY <1>0, <1>1, ActsAlone, StillSound DEF Alone, SameLocals
<1>2. ASSUME UNCHANGED vars, call'[q] = call[q] PROVE CallSound(q)'
  BY <1>0, <1>2, StillSound DEF vars, SameLocals
<1>3. ASSUME NEW r \in Requests, NEW b \in Browsers, NEW u \in Users, Login(r, b, u)
      PROVE  CallSound(q)'
  <2>1. PICK s \in SessionIds, t \in Tokens : Create(r, u, s, t)
    BY <1>3, FreshIsToken, FreshIsSession DEF Login
  <2>2. CASE r = q
    <3>1. phase'[r] = "done" /\ outcome'[r] = "CREATED" /\ arg'[r].token = t
      BY <1>0, <2>1, BeginAt DEF Create
    <3>2. token'[t] # None
      <4>1. CreateEffect(u, s, t)
        BY <1>0, <2>1, CreateWrites, Zenon
      <4>. QED BY <4>1 DEF CreateEffect, Issued
    <3>3. call'[r].stage = "login" /\ call'[r].browser = b
      BY <1>3, CallFields DEF Login, ClientTypeOK, Stages
    <3>4. /\ phase'[q] = "done" /\ arg'[q].token = t /\ token'[t] # None
          /\ call'[q].stage = "login" /\ call'[q].browser \in Browsers
      BY <2>2, <3>1, <3>2, <3>3
    <3>. QED BY <2>1, <3>4 DEF CallSound, Rotations, Revocations
  <2>3. CASE r # q
    <3>1. call'[q] = call[q]
      BY <1>3, <2>3 DEF Login, ClientTypeOK
    <3>. QED BY <1>1, <2>1, <2>3, <3>1 DEF Acts
  <2>. QED BY <2>2, <2>3
<1>4. ASSUME NEW r \in Requests, NEW c \in Call, call' = [call EXCEPT ![r] = c], UNCHANGED vars,
             phase[r] = "idle",
             c.stage # "idle" => c.browser \in Browsers,
             c.stage = "refresh" => c.refresh \in Tokens /\ token[c.refresh] # None
      PROVE  CallSound(q)'
  <2>1. CASE r = q
    <3>1. call'[q] = c
      BY <1>4, <2>1 DEF ClientTypeOK
    <3>. QED BY <1>0, <1>4, <2>1, <3>1 DEF vars, CallSound, Rotations, Revocations, Delivers
  <2>2. CASE r # q
    BY <1>2, <1>4, <2>2 DEF ClientTypeOK
  <2>. QED BY <2>1, <2>2
<1>5. ASSUME NEW r \in Requests, call[r].stage = "sent"
      PROVE  phase[r] = "idle" /\ call[r].browser \in Browsers
  BY <1>5 DEF CallsSound, CallSound
<1>6. ASSUME NEW r \in Requests, NEW b \in Browsers, Send(r, b) PROVE CallSound(q)'
  <2>0. PICK a : a = jar[b].access
    OBVIOUS
  <2>1. PICK c : c = SentWith(b, a, FALSE)
    OBVIOUS
  <2>2. a \in SessionIds \cup {None}
    BY <2>0 DEF ClientTypeOK, Jar
  <2>3. c \in Call /\ c.stage = "sent" /\ c.browser = b
    <3>1. SentWith(b, a, FALSE) \in Call
      BY <2>2, CallFields DEF Stages
    <3>. QED BY <2>1, <3>1 DEF SentWith, CallIn, NoCall
  <2>. QED BY <1>4, <1>6, <2>0, <2>1, <2>3 DEF Send
<1>7. ASSUME NEW r \in Requests, Serve(r) PROVE CallSound(q)'
  <2>1. phase[r] = "idle" /\ call[r].browser \in Browsers
    BY <1>5, <1>7 DEF Serve
  <2>2. CASE UNCHANGED vars /\ call' = [call EXCEPT ![r] = NoCall]
    BY <1>4, <2>1, <2>2, NoCallFields
  <2>3. CASE \/ Revoke(r, call[r].access)
             \/ RevokeAll(r, session[call[r].access].user)
    <3>1. call' = [call EXCEPT ![r] = CallIn("act", call[r].browser)]
      BY <1>7, <2>1, <2>3, BeginAt, <1>0 DEF Serve, Revoke, RevokeAll, vars
    <3>2. CASE r = q
      <4>1. phase'[r] = "revoking" /\ outcome'[r] = "REVOKED"
        BY <1>0, <2>3, BeginAt DEF Revoke, RevokeAll
      <4>2. call'[r].stage = "act" /\ call'[r].browser \in Browsers
        BY <2>1, <3>1, CallFields DEF ClientTypeOK, Stages
      <4>. QED BY <3>2, <4>1, <4>2 DEF CallSound, Rotations, Revocations, Delivers
    <3>3. CASE r # q
      <4>1. call'[q] = call[q]
        BY <3>1, <3>3 DEF ClientTypeOK
      <4>2. SameLocals(q)
        BY <1>0, <2>3, <3>3 DEF Revoke, RevokeAll, Begin, SameLocals, TypeOK
      <4>. QED BY <1>0, <4>1, <4>2, StillSound
    <3>. QED BY <3>2, <3>3
  <2>. QED BY <1>7, <2>2, <2>3 DEF Serve
<1>8. ASSUME NEW r \in Requests, Unauthorized(r) PROVE CallSound(q)'
  <2>1. phase[r] = "idle" /\ call[r].browser \in Browsers
    BY <1>5, <1>8 DEF Unauthorized
  <2>2. PICK b \in Browsers : b = call[r].browser
    BY <2>1
  <2>3. PICK t : t = jar[b].refresh
    OBVIOUS
  <2>4. CASE t # None /\ call' = [call EXCEPT ![r] = [CallIn("refresh", b) EXCEPT !.refresh = t]]
    <3>1. t \in Tokens /\ token[t] # None
      BY <2>3, <2>4 DEF CookiesIssued, ClientTypeOK, Jar
    <3>2. PICK c : c = [CallIn("refresh", b) EXCEPT !.refresh = t]
      OBVIOUS
    <3>3. c \in Call /\ c.stage = "refresh" /\ c.browser = b /\ c.refresh = t
      BY <3>1, <3>2, CallFields DEF Stages
    <3>. QED BY <1>4, <1>8, <2>1, <2>4, <3>1, <3>2, <3>3 DEF Unauthorized
  <2>5. CASE call' = [call EXCEPT ![r] = NoCall]
    BY <1>4, <1>8, <2>1, <2>5, NoCallFields DEF Unauthorized
  <2>. QED BY <1>8, <2>2, <2>3, <2>4, <2>5 DEF Unauthorized
<1>9. ASSUME NEW r \in Requests, Refresh(r) PROVE CallSound(q)'
  <2>1. PICK t : t = call[r].refresh
    OBVIOUS
  <2>2. /\ t \in Tokens /\ token[t] # None /\ call[r].stage = "refresh" /\ RotateRead(r, t)
        /\ call[r].browser \in Browsers /\ UNCHANGED clientVars
    BY <1>9, <2>1 DEF Refresh, CallsSound, CallSound
  <2>3. CASE r = q
    <3>1. /\ arg'[r].token = t
          /\ \/ phase'[r] = "checked"
             \/ phase'[r] = "revoking" /\ outcome'[r] \in Refusals
      BY <1>0, <2>2, RotateReadAt
    <3>2. token'[t] # None
      BY <1>0, <2>2 DEF Grown
    <3>. QED BY <2>1, <2>2, <2>3, <3>1, <3>2
         DEF CallSound, Rotations, Revocations, Delivers, clientVars
  <2>4. CASE r # q
    BY <1>1, <2>2, <2>4 DEF Acts, clientVars
  <2>. QED BY <2>3, <2>4
<1>10. ASSUME NEW r \in Requests, Statement(r) \/ Rollback(r), UNCHANGED clientVars
       PROVE  CallSound(q)'
  <2>1. CASE r = q
    <3>1. call'[r] = call[r]
      BY <1>10 DEF clientVars
    <3>2. phase[r] \in Revocations => outcome[r] \in Refusals \cup {"REVOKED"}
      BY DEF CallsSound, CallSound
    <3>3. call[r].stage = "refresh" => token'[call[r].refresh] # None
      BY <1>0, <2>1 DEF CallSound, Grown
    <3>. QED BY <1>0, <1>10, <2>1, <3>1, <3>2, <3>3, ServerAt
         DEF CallSound, Rotations, Revocations, Refusals, Delivers
  <2>2. CASE r # q
    <3>1. Acts(r)
      BY <1>10 DEF Acts, Statement, Deadlock
    <3>. QED BY <1>1, <1>10, <2>2, <3>1 DEF clientVars
  <2>. QED BY <2>1, <2>2
<1>11. ASSUME NEW r \in Requests, NEW t \in Tokens, RotateCommit(r, t), UNCHANGED clientVars
       PROVE  CallSound(q)'
  <2>1. CASE r = q
    <3>1. call'[r] = call[r]
      BY <1>11 DEF clientVars
    <3>2. call[r].stage = "refresh" => token'[call[r].refresh] # None
      BY <1>0, <2>1 DEF CallSound, Grown
    <3>3. token'[t] # None
      <4>1. RotateEffect(arg[r].family, arg[r].token, t)
        BY <1>11, RotateWrites, Zenon
      <4>. QED BY <4>1 DEF RotateEffect, Issued
    <3>4. /\ phase[q] = "rotating" /\ phase'[q] = "done" /\ arg'[q].token = t
          /\ call'[q] = call[q] /\ token'[t] # None
      BY <1>0, <1>11, <2>1, <3>1, <3>3, CommitAt
    <3>. QED BY <1>0, <1>11, <2>1, <3>2, <3>4 DEF CallSound, Rotations, Revocations
  <2>2. CASE r # q
    BY <1>1, <1>11, <2>2 DEF Acts, clientVars
  <2>. QED BY <2>1, <2>2
<1>12. ASSUME NEW r \in Requests, Receive(r) \/ Lose(r) PROVE CallSound(q)'
  <2>1. Respond(r) /\ phase'[r] = "idle"
    BY <1>0, <1>12, RespondAt DEF Receive, Lose
  <2>2. CASE r = q
    <3>1. call[r].browser \in Browsers
      BY <1>12 DEF Receive, Lose, Respond, CallsSound, CallSound
    <3>2. call'[r].stage \in {"idle", "sent"} /\ (call'[r].stage = "sent" => call'[r].browser \in Browsers)
      <4>1. PICK b \in Browsers : b = call[r].browser
        BY <3>1
      <4>2. PICK a \in SessionIds \cup {None} : a = arg[r].family
        BY <1>0 DEF TypeOK, Argument
      <4>3. PICK c : c = SentWith(b, a, TRUE)
        OBVIOUS
      <4>4. c.stage = "sent" /\ c.browser \in Browsers
        BY <4>3 DEF SentWith, CallIn, NoCall
      <4>. QED BY <1>12, <4>1, <4>2, <4>3, <4>4, NoCallFields DEF Receive, Lose, ClientTypeOK
    <3>. QED BY <2>1, <2>2, <3>2 DEF CallSound, Rotations, Revocations, Delivers
  <2>3. CASE r # q
    <3>1. call'[q] = call[q]
      BY <1>12, <2>3 DEF Receive, Lose, ClientTypeOK
    <3>. QED BY <1>1, <2>1, <2>3, <3>1 DEF Acts
  <2>. QED BY <2>2, <2>3
<1>13. ASSUME NEW b \in Browsers, AccessExpires(b) PROVE CallSound(q)'
  BY <1>2, <1>13 DEF AccessExpires
<1>14. ASSUME NEW s \in SessionIds, Lapse(s), UNCHANGED clientVars PROVE CallSound(q)'
  BY <1>0, <1>14, StillSound DEF Lapse, locals, clientVars, SameLocals
<1>15. ASSUME NEW r \in Requests, Server(r) PROVE CallSound(q)'
  BY <1>10, <1>11, <1>15, ServerStep
<1>16. CASE UNCHANGED allVars
  BY <1>2, <1>16 DEF allVars, clientVars
<1>. QED
  BY <1>3, <1>6, <1>7, <1>8, <1>9, <1>10, <1>12, <1>13, <1>14, <1>15, <1>16, Zenon DEF ClientNext

(***************************************************************************)
(* Where the tokens are                                                    *)
(***************************************************************************)
(* The step brings no token t anywhere, and a call that has spent it ends  *)
(* with an excuse or with the cookie only.                                 *)
QuietCall(q, t) ==
  /\ Carries(q, t)' => Carries(q, t)
  /\ Refreshing(q, t)' =>
       Refreshing(q, t) /\ call'[q].browser = call[q].browser /\ (Settled(q) => Settled(q)')
  /\ Refreshing(q, t) /\ Settled(q) =>
       \/ t \in excused' \/ jar'[call[q].browser].refresh # t \/ Refreshing(q, t)'

QuietRest(t) == /\ Spent(t)' => Spent(t)
                /\ \A b \in Browsers : jar'[b].refresh = t => jar[b].refresh = t
                /\ excused \subseteq excused'

LEMMA QuietStep ==
  ASSUME NEW t \in Tokens, OnePlace(t), SpentOnce(t), QuietRest(t),
         \A q \in Requests : QuietCall(q, t)
  PROVE  OnePlace(t)' /\ SpentOnce(t)'
<1> USE DEF QuietCall, QuietRest, Carries, Refreshing
<1>1. OnePlace(t)'
  BY DEF OnePlace
<1>2. ASSUME t \notin excused' PROVE t \notin excused
  BY <1>2
<1>3. ASSUME t \notin excused', NEW r \in Requests, NEW q \in Requests,
             Refreshing(r, t)', Refreshing(q, t)'
      PROVE  r = q
  BY <1>2, <1>3 DEF SpentOnce
<1>4. ASSUME t \notin excused', Spent(t)', NEW r \in Requests, Refreshing(r, t)'
      PROVE  Settled(r)'
  BY <1>2, <1>4 DEF SpentOnce
<1>5. ASSUME t \notin excused', Spent(t)', NEW b \in Browsers, jar'[b].refresh = t
      PROVE  \E r \in Requests : Refreshing(r, t)'
  <2>1. PICK r \in Requests : Refreshing(r, t)
    BY <1>2, <1>5 DEF SpentOnce
  <2>2. Settled(r) /\ call[r].browser = b
    BY <1>2, <1>5, <2>1 DEF SpentOnce, OnePlace
  <2>3. Refreshing(r, t)'
    BY <1>5, <2>1, <2>2
  <2>. QED BY <2>3
<1>. QED BY <1>1, <1>3, <1>4, <1>5 DEF SpentOnce

LEMMA QuietAside ==
  ASSUME NEW t \in Tokens, NEW q \in Requests, SameLocals(q), call'[q] = call[q]
  PROVE  QuietCall(q, t)
BY DEF SameLocals, QuietCall, Carries, Delivers, Settled, Refreshing

LEMMA QuietAt ==
  ASSUME NEW t \in Tokens, NEW r \in Requests, OnePlace(t), SpentOnce(t), QuietRest(t),
         \A q \in Requests \ {r} : SameLocals(q) /\ call'[q] = call[q], QuietCall(r, t)
  PROVE  OnePlace(t)' /\ SpentOnce(t)'
<1>1. ASSUME NEW q \in Requests PROVE QuietCall(q, t)
  BY QuietAside
<1>. QED BY <1>1, QuietStep

(* A token nobody had is nowhere yet.                                      *)
LEMMA Nowhere ==
  ASSUME CallsSound, CookiesIssued, NEW t \in Tokens, token[t] = None
  PROVE  /\ \A b \in Browsers : jar[b].refresh # t
         /\ \A q \in Requests : ~Refreshing(q, t) /\ ~Carries(q, t)
<1>1. t # None
  BY NoneAssumption
<1>. QED BY <1>1 DEF CallsSound, CallSound, CookiesIssued, Refreshing, Carries

(* The answer that carries a new token leaves the database.                *)
LEMMA NewToken ==
  ASSUME CallsSound, CookiesIssued, NEW t \in Tokens, token[t] = None, NEW r \in Requests,
         \A q \in Requests \ {r} : SameLocals(q) /\ call'[q] = call[q],
         ~Refreshing(r, t)', ~Spent(t)', UNCHANGED jar
  PROVE  OnePlace(t)' /\ SpentOnce(t)'
<1>1. \A b \in Browsers : jar'[b].refresh # t
  BY Nowhere
<1>2. ASSUME NEW q \in Requests PROVE ~Refreshing(q, t)'
  BY Nowhere DEF Refreshing
<1>3. ASSUME NEW q \in Requests, Carries(q, t)' PROVE q = r
  BY <1>3, Nowhere DEF Carries, Delivers, SameLocals
<1>. QED BY <1>1, <1>2, <1>3 DEF OnePlace, SpentOnce

LEMMA NextPlaced ==
  ASSUME Invariant, ClientTypeOK, CallsSound, CookiesIssued, TokensPlaced,
         [ClientNext]_allVars, NEW t \in Tokens
  PROVE  OnePlace(t)' /\ SpentOnce(t)'
<1> DEFINE Still == OnePlace(t)' /\ SpentOnce(t)'
<1> HIDE DEF Still
<1>0. TypeOK /\ OnePlace(t) /\ SpentOnce(t)
  BY DEF Invariant, TokensPlaced
<1>1. ASSUME NEW r \in Requests, QuietRest(t), QuietCall(r, t),
             \A q \in Requests \ {r} : SameLocals(q) /\ call'[q] = call[q]
      PROVE  Still
  BY <1>0, <1>1, QuietAt DEF Still
<1>2. ASSUME UNCHANGED token, jar' = jar, excused \subseteq excused' PROVE QuietRest(t)
  BY <1>2 DEF QuietRest, Spent
<1>3. ASSUME NEW r \in Requests, Acts(r), NEW q \in Requests \ {r} PROVE SameLocals(q)
  BY <1>0, <1>3, ActsAlone DEF Alone, SameLocals
<1>4. ASSUME NEW r \in Requests, NEW c, call' = [call EXCEPT ![r] = c], NEW q \in Requests \ {r}
      PROVE  call'[q] = call[q]
  BY <1>4 DEF ClientTypeOK
<1>5. ASSUME UNCHANGED vars, NEW q \in Requests PROVE SameLocals(q)
  BY <1>5 DEF vars, SameLocals
<1>6. ASSUME NEW r \in Requests, NEW b \in Browsers, NEW u \in Users, Login(r, b, u)
      PROVE  Still
  <2>1. PICK s \in SessionIds, x \in Tokens : Create(r, u, s, x)
    BY <1>6, FreshIsToken, FreshIsSession DEF Login
  <2>2. CreateEffect(u, s, x) /\ Acts(r)
    BY <1>0, <2>1, CreateWrites DEF Acts
  <2>3. call[r].stage = "idle" /\ call'[r].stage = "login" /\ UNCHANGED <<jar, excused>>
    BY <1>6, CallFields DEF Login, ClientTypeOK, Stages
  <2>4. \A q \in Requests \ {r} : SameLocals(q) /\ call'[q] = call[q]
    BY <1>3, <1>4, <1>6, <2>2 DEF Login
  <2>5. CASE x = t
    <3>1. token[t] = None /\ ~Spent(t)'
      BY <2>2, <2>5 DEF CreateEffect, Issued, Spent
    <3>2. ~Refreshing(r, t)'
      BY <2>3 DEF Refreshing
    <3>. QED BY <2>3, <2>4, <3>1, <3>2, NewToken DEF Still
  <2>6. CASE x # t
    <3>1. QuietRest(t)
      BY <2>2, <2>3, <2>6 DEF CreateEffect, QuietRest, Spent
    <3>2. arg'[r].token = x
      BY <1>0, <2>1, BeginAt DEF Create
    <3>3. QuietCall(r, t)
      BY <2>3, <2>6, <3>2 DEF QuietCall, Carries, Refreshing
    <3>. QED BY <1>1, <2>4, <3>1, <3>3
  <2>. QED BY <2>5, <2>6
<1>7. ASSUME NEW r \in Requests, NEW b \in Browsers, Send(r, b) PROVE Still
  <2>1. call'[r].stage = "sent" /\ call[r].stage = "idle"
    BY <1>7 DEF Send, ClientTypeOK, SentWith, CallIn, NoCall
  <2>2. QuietCall(r, t)
    BY <1>5, <1>7, <2>1 DEF Send, QuietCall, SameLocals, Carries, Delivers, Refreshing
  <2>3. QuietRest(t)
    BY <1>2, <1>7 DEF Send, vars
  <2>. QED BY <1>1, <1>4, <1>5, <1>7, <2>2, <2>3 DEF Send
<1>8. ASSUME NEW r \in Requests, Serve(r) PROVE Still
  <2>1. call[r].stage = "sent" /\ call'[r].stage \in {"idle", "act"}
    <3>1. PICK c : c = CallIn("act", call[r].browser)
      OBVIOUS
    <3>2. NoCall.stage = "idle" /\ c.stage = "act"
      BY <3>1 DEF CallIn, NoCall
    <3>3. /\ call[r].stage = "sent"
          /\ call' \in {[call EXCEPT ![r] = NoCall], [call EXCEPT ![r] = c]}
      BY <1>8, <3>1, Zenon DEF Serve
    <3>. QED BY <3>2, <3>3 DEF ClientTypeOK
  <2>2. UNCHANGED <<tables, jar, excused>>
    BY <1>8 DEF Serve, Revoke, RevokeAll, vars, tables
  <2>3. ~Delivers(r)'
    <3>1. phase[r] = "idle"
      BY <2>1 DEF CallsSound, CallSound
    <3>2. CASE UNCHANGED vars
      BY <3>1, <3>2 DEF vars, Delivers
    <3>3. CASE Revoke(r, call[r].access) \/ RevokeAll(r, session[call[r].access].user)
      BY <1>0, <3>3, BeginAt DEF Revoke, RevokeAll, Delivers
    <3>. QED BY <1>8, <3>2, <3>3 DEF Serve
  <2>4. QuietCall(r, t)
    BY <2>1, <2>3 DEF QuietCall, Carries, Refreshing
  <2>5. QuietRest(t)
    BY <1>2, <2>2 DEF tables
  <2>6. ASSUME NEW q \in Requests \ {r} PROVE SameLocals(q) /\ call'[q] = call[q]
    <3>1. CASE UNCHANGED vars
      BY <1>4, <1>5, <1>8, <3>1 DEF Serve
    <3>2. CASE Revoke(r, call[r].access) \/ RevokeAll(r, session[call[r].access].user)
      BY <1>0, <1>4, <1>8, <3>2 DEF Serve, Revoke, RevokeAll, Begin, SameLocals, TypeOK
    <3>. QED BY <1>8, <3>1, <3>2 DEF Serve
  <2>. QED BY <1>1, <2>4, <2>5, <2>6
<1>9. ASSUME NEW r \in Requests, Unauthorized(r) PROVE Still
  <2>1. call[r].stage = "sent" /\ phase[r] = "idle" /\ UNCHANGED <<vars, jar>>
    BY <1>9 DEF Unauthorized, CallsSound, CallSound
  <2>2. PICK b \in Browsers : b = call[r].browser
    BY <2>1 DEF CallsSound, CallSound
  <2>3. PICK x : x = jar[b].refresh
    OBVIOUS
  <2>4. ~Delivers(r)'
    BY <2>1 DEF vars, Delivers
  <2>5. CASE call' = [call EXCEPT ![r] = NoCall] /\ UNCHANGED excused
    <3>1. call'[r].stage = "idle"
      BY <2>5 DEF ClientTypeOK, NoCall
    <3>2. QuietCall(r, t)
      BY <2>1, <2>4, <3>1 DEF QuietCall, Carries, Refreshing
    <3>3. QuietRest(t)
      BY <1>2, <2>1, <2>5 DEF vars
    <3>. QED BY <1>1, <1>4, <1>5, <2>1, <2>5, <3>2, <3>3
  <2>6. CASE /\ x # None
             /\ call' = [call EXCEPT ![r] = [CallIn("refresh", b) EXCEPT !.refresh = x]]
             /\ excused' = excused \cup {u \in {x} : \E q \in Requests : Refreshing(q, u)}
    <3>1. x \in Tokens
      BY <2>3, <2>6 DEF ClientTypeOK, Jar
    <3>2. call'[r].stage = "refresh" /\ call'[r].refresh = x /\ call'[r].browser = b
      <4>1. PICK c : c = [CallIn("refresh", b) EXCEPT !.refresh = x]
        OBVIOUS
      <4>2. c.stage = "refresh" /\ c.refresh = x /\ c.browser = b
        BY <3>1, <4>1, CallFields DEF Stages
      <4>. QED BY <2>6, <4>1, <4>2 DEF ClientTypeOK
    <3>3. \A q \in Requests \ {r} : SameLocals(q) /\ call'[q] = call[q]
      BY <1>4, <1>5, <2>1, <2>6
    <3>4. CASE x # t
      <4>1. QuietCall(r, t)
        BY <2>1, <2>4, <3>2, <3>4 DEF QuietCall, Carries, Refreshing
      <4>2. QuietRest(t)
        BY <1>2, <2>1, <2>6 DEF vars
      <4>. QED BY <1>1, <3>3, <4>1, <4>2
    <3>5. CASE x = t
      <4>1. \A q \in Requests : ~Carries(q, t)
        BY <1>0, <2>3, <3>5 DEF OnePlace
      <4>2. \A q \in Requests : ~Carries(q, t)'
        BY <2>1, <4>1 DEF vars, Carries, Delivers
      <4>3. \A q \in Requests \ {r} : Refreshing(q, t)' =>
                 Refreshing(q, t) /\ call'[q].browser = call[q].browser
        BY <3>3 DEF Refreshing
      <4>4. OnePlace(t)'
        <5>1. \A c, d \in Browsers : jar'[c].refresh = t /\ jar'[d].refresh = t => c = d
          BY <1>0, <2>1 DEF OnePlace
        <5>2. ASSUME NEW q \in Requests, NEW c \in Browsers, Refreshing(q, t)', jar'[c].refresh = t
              PROVE  call'[q].browser = c
          <6>1. c = b
            BY <1>0, <2>1, <2>3, <3>5, <5>2 DEF OnePlace
          <6>2. CASE q = r
            BY <3>2, <6>1, <6>2
          <6>3. CASE q # r
            BY <1>0, <2>1, <4>3, <5>2, <6>3 DEF OnePlace
          <6>. QED BY <6>2, <6>3
        <5>. QED BY <4>2, <5>1, <5>2 DEF OnePlace
      <4>5. ASSUME t \notin excused' PROVE \A q \in Requests : ~Refreshing(q, t)
        BY <2>6, <3>5, <4>5
      <4>6. ASSUME t \notin excused', Spent(t)' PROVE FALSE
        <5>1. Spent(t) /\ t \notin excused
          BY <2>1, <2>6, <4>6 DEF vars, Spent
        <5>. QED BY <1>0, <2>3, <3>5, <4>5, <4>6, <5>1 DEF SpentOnce
      <4>7. ASSUME t \notin excused', NEW p \in Requests, NEW q \in Requests,
                   Refreshing(p, t)', Refreshing(q, t)'
            PROVE  p = q
        BY <4>3, <4>5, <4>7
      <4>8. SpentOnce(t)'
        BY <4>6, <4>7 DEF SpentOnce
      <4>. QED BY <4>4, <4>8 DEF Still
    <3>. QED BY <3>4, <3>5
  <2>. QED BY <1>9, <2>2, <2>3, <2>5, <2>6 DEF Unauthorized
<1>10. ASSUME NEW r \in Requests, Refresh(r) PROVE Still
  <2>1. PICK x : x = call[r].refresh
    OBVIOUS
  <2>2. x \in Tokens /\ RotateRead(r, x) /\ UNCHANGED clientVars /\ phase[r] = "idle"
    BY <1>10, <2>1 DEF Refresh, CallsSound, CallSound
  <2>3. phase'[r] \in {"checked", "revoking"}
    BY <1>0, <2>2, RotateReadAt
  <2>4. QuietCall(r, t)
    BY <2>2, <2>3 DEF QuietCall, Carries, Delivers, Settled, Refreshing, clientVars
  <2>5. QuietRest(t)
    BY <1>2, <2>2 DEF RotateRead, tables, clientVars
  <2>6. Acts(r)
    BY <2>2 DEF Acts
  <2>. QED BY <1>1, <1>3, <2>2, <2>4, <2>5, <2>6 DEF clientVars
<1>11. ASSUME NEW r \in Requests, Statement(r) \/ Rollback(r), UNCHANGED clientVars PROVE Still
  <2>1. Acts(r)
    BY <1>11 DEF Acts, Statement, Deadlock
  <2>2. phase[r] \in Revocations => outcome[r] \in Refusals \cup {"REVOKED"}
    BY DEF CallsSound, CallSound
  <2>3. ~Delivers(r)' /\ phase[r] # "done"
    BY <1>0, <1>11, <2>2, ServerAt DEF Delivers, Rotations, Revocations, Refusals
  <2>4. QuietCall(r, t)
    BY <1>11, <2>3 DEF QuietCall, Carries, Settled, Refreshing, clientVars
  <2>5. Spent(t)' => Spent(t)
    <3>1. CASE RevokeTokens(r)
      BY <3>1, RevokeWrites DEF RevokeEffect, TokenRevoked, Issued, Spent
    <3>2. CASE ~RevokeTokens(r)
      <4>1. UNCHANGED tables
        BY <1>11, <3>2 DEF Statement, Consume, RotateSession, RevokeSessions, RevokeScan,
                           Deadlock, Rollback, tables
      <4>. QED BY <4>1 DEF Spent, tables
    <3>. QED BY <3>1, <3>2
  <2>6. QuietRest(t)
    BY <1>11, <2>5 DEF QuietRest, clientVars
  <2>. QED BY <1>1, <1>3, <1>11, <2>1, <2>4, <2>6 DEF clientVars
<1>12. ASSUME NEW r \in Requests, NEW x \in Tokens, RotateCommit(r, x), UNCHANGED clientVars
       PROVE  Still
  <2>1. PICK f, o : f = arg[r].family /\ o = arg[r].token
    OBVIOUS
  <2>2. RotateEffect(f, o, x) /\ Acts(r)
    BY <1>12, <2>1, RotateWrites DEF Acts
  <2>3. /\ phase[r] = "rotating" /\ phase'[r] = "done" /\ outcome'[r] = "ROTATED"
        /\ arg'[r].token = x
    BY <1>0, <1>12, CommitAt
  <2>4. Refreshing(r, o) /\ ~Delivers(r)
    BY <2>1, <2>3 DEF CallsSound, CallSound, Rotations, Refreshing, Delivers
  <2>5. \A q \in Requests \ {r} : SameLocals(q) /\ call'[q] = call[q]
    BY <1>3, <1>12, <2>2 DEF clientVars
  <2>6. UNCHANGED <<jar, call, excused>>
    BY <1>12 DEF clientVars
  <2>7. CASE t \notin {o, x}
    <3>1. QuietRest(t)
      BY <2>2, <2>6, <2>7 DEF RotateEffect, QuietRest, Spent
    <3>2. QuietCall(r, t)
      BY <2>3, <2>6, <2>7, <2>4 DEF QuietCall, Carries, Settled, Delivers, Refreshing
    <3>. QED BY <1>1, <2>5, <3>1, <3>2
  <2>8. CASE t = x
    <3>1. token[t] = None /\ ~Spent(t)'
      BY <2>2, <2>8 DEF RotateEffect, Issued, Spent
    <3>2. ~Refreshing(r, t)'
      BY <2>2, <2>4, <2>6, <2>8 DEF RotateEffect, Refreshing
    <3>. QED BY <2>5, <2>6, <3>1, <3>2, NewToken DEF Still
  <2>9. CASE t = o
    <3>1. \A q \in Requests : ~Carries(q, t)
      BY <1>0, <2>4, <2>9 DEF OnePlace
    <3>2. \A q \in Requests : ~Carries(q, t)'
      BY <2>2, <2>3, <2>5, <2>9, <3>1 DEF RotateEffect, SameLocals, Carries, Delivers
    <3>3. OnePlace(t)'
      BY <1>0, <2>6, <3>2 DEF OnePlace, Refreshing
    <3>4. Settled(r)'
      BY <2>3 DEF Settled
    <3>5. SpentOnce(t)'
      BY <1>0, <2>4, <2>6, <2>9, <3>4 DEF SpentOnce, Refreshing
    <3>. QED BY <3>3, <3>5 DEF Still
  <2>. QED BY <2>7, <2>8, <2>9
<1>13. ASSUME NEW r \in Requests, Lose(r) PROVE Still
  <2>1. /\ Respond(r) /\ call' = [call EXCEPT ![r] = NoCall] /\ UNCHANGED jar
        /\ excused' = excused \cup {u \in {call[r].refresh} : u # None}
    BY <1>13 DEF Lose
  <2>2. Acts(r) /\ UNCHANGED tables /\ ~Delivers(r)'
    BY <1>0, <2>1, RespondAt DEF Acts, Delivers
  <2>3. call'[r].stage = "idle"
    BY <2>1 DEF ClientTypeOK, NoCall
  <2>4. Refreshing(r, t) => t \in excused'
    BY <2>1, NoneAssumption DEF Refreshing
  <2>5. QuietCall(r, t)
    BY <2>2, <2>3, <2>4 DEF QuietCall, Carries, Refreshing
  <2>6. QuietRest(t)
    BY <1>2, <2>1, <2>2 DEF tables
  <2>. QED BY <1>1, <1>3, <1>4, <2>1, <2>2, <2>5, <2>6
<1>14. ASSUME NEW r \in Requests, Receive(r) PROVE Still
  <2>1. Respond(r) /\ Acts(r) /\ UNCHANGED <<tables, excused>> /\ ~Delivers(r)' /\ phase[r] = "done"
    BY <1>0, <1>14, RespondAt DEF Receive, Acts, Delivers
  <2>2. PICK b \in Browsers : b = call[r].browser
    BY <2>1 DEF CallsSound, CallSound
  <2>3. PICK x, f : x = arg[r].token /\ f = arg[r].family
    OBVIOUS
  <2>4. /\ call'[r].stage \in {"idle", "sent"}
        /\ \A q \in Requests \ {r} : SameLocals(q) /\ call'[q] = call[q]
    <3>1. PICK c : c = SentWith(b, f, TRUE)
      OBVIOUS
    <3>2. NoCall.stage = "idle" /\ c.stage = "sent"
      BY <3>1 DEF SentWith, CallIn, NoCall
    <3>3. call' \in {[call EXCEPT ![r] = NoCall], [call EXCEPT ![r] = c]}
      BY <1>14, <2>2, <2>3, <3>1 DEF Receive
    <3>. QED BY <1>3, <1>4, <2>1, <3>2, <3>3 DEF ClientTypeOK
  <2>5. CASE outcome[r] \in {"CREATED", "ROTATED"}
    <3>1. Carries(r, x) /\ x \in Tokens
      BY <2>1, <2>3, <2>5 DEF Carries, Delivers, CallsSound, CallSound
    <3>2. jar' = [jar EXCEPT ![b] = [access |-> f, refresh |-> x]]
      BY <1>14, <2>2, <2>3, <2>5 DEF Receive, SetCookies, Refusals
    <3>3. jar'[b].refresh = x /\ \A c \in Browsers \ {b} : jar'[c] = jar[c]
      BY <3>2 DEF ClientTypeOK
    <3>4. CASE t # x
      <4>1. QuietRest(t)
        BY <2>1, <3>3, <3>4 DEF tables, Spent, QuietRest
      <4>2. QuietCall(r, t)
        BY <2>1, <2>2, <2>4, <3>3, <3>4 DEF QuietCall, Carries, Refreshing
      <4>. QED BY <1>1, <2>4, <4>1, <4>2
    <3>5. CASE t = x
      <4>1. /\ ~Spent(t) /\ \A c \in Browsers : jar[c].refresh # t
            /\ \A q \in Requests : ~Refreshing(q, t) /\ (Carries(q, t) => q = r)
        BY <1>0, <3>1, <3>5 DEF OnePlace
      <4>2. ~Spent(t)'
        BY <2>1, <4>1 DEF tables, Spent
      <4>3. \A c \in Browsers : jar'[c].refresh = t => c = b
        BY <3>3, <4>1
      <4>4. \A q \in Requests : ~Refreshing(q, t)'
        BY <2>4, <4>1 DEF Refreshing
      <4>5. \A q \in Requests : ~Carries(q, t)'
        BY <2>1, <2>4, <4>1 DEF Carries, Delivers, SameLocals
      <4>. QED BY <4>2, <4>3, <4>4, <4>5 DEF OnePlace, SpentOnce, Still
    <3>. QED BY <3>4, <3>5
  <2>6. CASE outcome[r] \notin {"CREATED", "ROTATED"}
    <3>1. \/ jar' = [jar EXCEPT ![b] = NoCookies]
          \/ jar' = jar
      BY <1>14, <2>2, <2>6 DEF Receive
    <3>2. NoCookies.refresh # t
      BY NoneAssumption DEF NoCookies
    <3>3. \A c \in Browsers : jar'[c].refresh = t => jar[c].refresh = t
      BY <3>1, <3>2 DEF ClientTypeOK
    <3>4. QuietRest(t)
      BY <2>1, <3>3 DEF tables, Spent, QuietRest
    <3>5. QuietCall(r, t)
      BY <2>1, <2>4, <2>6 DEF QuietCall, Carries, Refreshing, Settled
    <3>. QED BY <1>1, <2>4, <3>4, <3>5
  <2>. QED BY <2>5, <2>6
<1>15. ASSUME UNCHANGED <<tables, locals, call, excused>>,
              \A b \in Browsers : jar'[b].refresh = t => jar[b].refresh = t
       PROVE  Still
  <2>1. QuietRest(t)
    BY <1>15 DEF tables, Spent, QuietRest
  <2>2. \A q \in Requests : QuietCall(q, t)
    BY <1>15, QuietAside DEF locals, SameLocals
  <2>. QED BY <1>0, <2>1, <2>2, QuietStep DEF Still
<1>16. ASSUME NEW b \in Browsers, AccessExpires(b) PROVE Still
  <2>1. \A c \in Browsers : jar'[c].refresh = jar[c].refresh
    BY <1>16 DEF AccessExpires, ClientTypeOK, Jar
  <2>. QED BY <1>15, <1>16, <2>1 DEF AccessExpires, vars, tables, locals
<1>17. ASSUME NEW s \in SessionIds, Lapse(s), UNCHANGED clientVars PROVE Still
  BY <1>15, <1>17 DEF Lapse, clientVars
<1>18. ASSUME NEW r \in Requests, Server(r) PROVE Still
  BY <1>11, <1>12, <1>18, ServerStep
<1>19. ASSUME UNCHANGED allVars PROVE Still
  BY <1>15, <1>19 DEF allVars, clientVars, vars, tables, locals
<1>20. Still
  BY <1>6, <1>7, <1>8, <1>9, <1>10, <1>11, <1>13, <1>14, <1>16, <1>17, <1>18, <1>19, Zenon
     DEF ClientNext
<1>. QED BY <1>20 DEF Still

(* A cookie is of a token the service has issued.                          *)
LEMMA NextCookies ==
  ASSUME Invariant, ClientTypeOK, CallsSound, CookiesIssued, [ClientNext]_allVars
  PROVE  CookiesIssued'
<1>0. TypeOK /\ Grown
  BY ClientSteps, TablesGrow DEF Invariant
<1>1. ASSUME UNCHANGED jar PROVE CookiesIssued'
  <2>1. \A b \in Browsers : jar[b].refresh \in Tokens \cup {None}
    BY DEF ClientTypeOK, Jar
  <2>. QED BY <1>0, <1>1, <2>1 DEF CookiesIssued, Grown
<1>2. ASSUME NEW r \in Requests, Receive(r) PROVE CookiesIssued'
  <2>1. Respond(r) /\ phase[r] = "done" /\ UNCHANGED tables
    BY <1>0, <1>2, RespondAt DEF Receive
  <2>2. PICK b \in Browsers : b = call[r].browser
    BY <2>1 DEF CallsSound, CallSound
  <2>3. PICK x, f : x = arg[r].token /\ f = arg[r].family
    OBVIOUS
  <2>4. UNCHANGED token
    BY <2>1 DEF tables
  <2>5. CASE outcome[r] \in {"CREATED", "ROTATED"}
    <3>1. x \in Tokens /\ token[x] # None
      BY <2>1, <2>3, <2>5 DEF Delivers, CallsSound, CallSound
    <3>2. jar' = [jar EXCEPT ![b] = [access |-> f, refresh |-> x]]
      BY <1>2, <2>2, <2>3, <2>5 DEF Receive, SetCookies, Refusals
    <3>. QED BY <2>4, <3>1, <3>2 DEF ClientTypeOK, CookiesIssued
  <2>6. CASE outcome[r] \notin {"CREATED", "ROTATED"}
    <3>1. \/ jar' = [jar EXCEPT ![b] = NoCookies]
          \/ jar' = jar
      BY <1>2, <2>2, <2>6 DEF Receive
    <3>. QED BY <2>4, <3>1 DEF ClientTypeOK, CookiesIssued, NoCookies
  <2>. QED BY <2>5, <2>6
<1>3. ASSUME NEW b \in Browsers, AccessExpires(b) PROVE CookiesIssued'
  <2>1. \A c \in Browsers : jar'[c].refresh = jar[c].refresh
    BY <1>3 DEF AccessExpires, ClientTypeOK, Jar
  <2>. QED BY <1>3, <2>1 DEF AccessExpires, vars, CookiesIssued
<1>4. ASSUME NEW r \in Requests,
             \/ \E b \in Browsers, u \in Users : Login(r, b, u)
             \/ \E b \in Browsers : Send(r, b)
             \/ Serve(r) \/ Unauthorized(r) \/ Refresh(r) \/ Lose(r) \/ Server(r)
      PROVE  UNCHANGED jar
  BY <1>4 DEF Login, Send, Serve, Unauthorized, Refresh, Lose, Server, clientVars
<1>5. ASSUME UNCHANGED clientVars \/ UNCHANGED allVars PROVE UNCHANGED jar
  BY <1>5 DEF clientVars, allVars
<1>. QED BY <1>1, <1>2, <1>3, <1>4, <1>5, Zenon DEF ClientNext

LEMMA NextClient == ClientInvariant /\ [ClientNext]_allVars => ClientInvariant'
<1> SUFFICES ASSUME ClientInvariant, [ClientNext]_allVars PROVE ClientInvariant'
  OBVIOUS
<1> USE DEF ClientInvariant
<1>1. Invariant'
  BY ClientSteps, NextInvariant DEF Invariant
<1>2. TokensPlaced'
  BY NextPlaced DEF TokensPlaced
<1>. QED BY <1>1, <1>2, NextCalls, NextCallsSound, NextCookies

LEMMA InitClient == ClientInit => ClientInvariant
<1> SUFFICES ASSUME ClientInit PROVE ClientInvariant
  OBVIOUS
<1> USE DEF ClientInit
<1>1. Invariant
  BY InitInvariant
<1>2. ClientTypeOK
  BY NoCallFields DEF ClientTypeOK, NoCookies, Jar
<1>3. /\ \A r \in Requests : call[r].stage = "idle" /\ phase[r] = "idle"
      /\ \A b \in Browsers : jar[b].refresh = None
  BY DEF Init, NoCall, NoCookies
<1>4. CallsSound
  BY <1>3 DEF CallsSound, CallSound, Rotations, Revocations, Delivers
<1>5. CookiesIssued
  BY <1>3 DEF CookiesIssued
<1>6. \A t \in Tokens : t # None
  BY NoneAssumption
<1>7. TokensPlaced
  BY <1>3, <1>6 DEF TokensPlaced, OnePlace, SpentOnce, Refreshing, Carries, Delivers
<1>. QED BY <1>1, <1>2, <1>4, <1>5, <1>7 DEF ClientInvariant

LEMMA AlwaysClient == ClientSpec => []ClientInvariant
BY InitClient, NextClient, PTL DEF ClientSpec

(* The browsers only do to the service what its clients may do: whatever   *)
(* is true of Sessions is true of it behind apiRequest and the cookies.    *)
THEOREM BrowsersUseSessions == ClientSpec => Spec
<1>1. ClientInit => Init
  BY DEF ClientInit
<1>2. ClientInvariant /\ [ClientNext]_allVars => [Next]_vars
  BY ClientSteps DEF ClientInvariant, Invariant
<1>. QED BY <1>1, <1>2, AlwaysClient, PTL DEF ClientSpec, Spec

(* A refresh that is refused for a consumed token and has no excuse would  *)
(* be the call whose own rotation has succeeded.                           *)
LEMMA RefusedForAReason == ClientInvariant => NoFalseAlarm
BY DEF ClientInvariant, CallsSound, CallSound, TokensPlaced, SpentOnce, Spent, Settled, Refreshing,
       NoFalseAlarm

(* The reuse detection has no false alarm, however answers and refreshes   *)
(* of the browsers overlap.                                                *)
THEOREM NoAlarmWithoutCause == ClientSpec => []NoFalseAlarm
BY AlwaysClient, RefusedForAReason, PTL
=============================================================================
