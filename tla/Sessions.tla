------------------------------ MODULE Sessions ------------------------------
(***************************************************************************)
(* The session service of apps/api: a login creates a session with its     *)
(* first refresh token, a refresh consumes the token and inserts its       *)
(* successor, a logout revokes the session and all its tokens, a logout    *)
(* from every device those of the user, and a token that is presented      *)
(* although it was consumed or revoked revokes its family.                 *)
(*                                                                         *)
(* Requests run as transactions under READ COMMITTED.  The tables hold     *)
(* what is committed.  An UPDATE waits for the lock of a row another open  *)
(* transaction has written and then evaluates its WHERE again.  rotate     *)
(* locks the token and then the session, a revocation the session and then *)
(* the tokens, so the two can deadlock; PostgreSQL then ends one of them.  *)
(*                                                                         *)
(* Abstractions.  tokenFamilyId is drawn for each session, so a family is  *)
(* a session.  A token expires with its session; a session that is expired *)
(* and one whose user or membership has become inactive are refused alike. *)
(* The metadata, the rotation counter and the CSRF hash, which no decision *)
(* reads, are left out.                                                    *)
(***************************************************************************)
CONSTANTS Users, SessionIds, Tokens,
          Requests,     \* the requests the API serves at a time
          None

Outcomes == {"CREATED", "ROTATED", "REVOKED", "REUSED", "INVALID", "ERROR"}
Refusals == {"REUSED", "INVALID"}
Phases   == {"idle", "checked", "consumed", "rotating",
             "revoking", "marking", "sweeping", "done"}

Session == [user: Users, revoked: BOOLEAN, current: Tokens]
Token   == [session: SessionIds, used: BOOLEAN, revoked: BOOLEAN]
(* What a request is about: rotate has a token and its family, revoke a    *)
(* family, revokeAll a user.                                               *)
Argument == [token: Tokens \cup {None}, family: SessionIds \cup {None},
             user: Users \cup {None}]
NoArgument == [token |-> None, family |-> None, user |-> None]

ASSUME NoneAssumption == None \notin Session \cup Token \cup SessionIds \cup Users \cup Tokens

VARIABLES session,     \* the Session table
          token,       \* the SessionRefreshToken table
          lapsed,      \* sessions past expiresAt, or of an inactive user or member
          phase,       \* the last statement of each request's transaction
          arg,         \* its argument
          locked,      \* the session rows it has set revokedAt in
          todo,        \* the token rows its last UPDATE has found
          outcome      \* what it will answer

tables  == <<session, token>>
locals  == <<phase, arg, locked, todo, outcome>>
vars    == <<session, token, lapsed, phase, arg, locked, todo, outcome>>

Created(s)  == session[s] # None
Issued(t)   == token[t] # None
(* Variant, for the runs' mutants: a revoked token counts as unused.       *)
NotConsumed(t) == Issued(t) /\ ~token[t].used
Unused(t)   == Issued(t) /\ ~token[t].used /\ ~token[t].revoked
Revoked(s)  == Created(s) /\ session[s].revoked
TokensOf(S) == {t \in Tokens : Issued(t) /\ token[t].session \in S}

(* The sessions a revocation is about: the family, or all of the user's.   *)
Scope(r) == {s \in SessionIds : /\ Created(s)
                                /\ IF arg[r].user = None THEN s = arg[r].family
                                   ELSE session[s].user = arg[r].user}

(* Row locks, held until the transaction ends.                             *)
HoldsToken(r, t)   == phase[r] \in {"consumed", "rotating"} /\ arg[r].token = t
HoldsSession(r, s) == \/ phase[r] = "rotating" /\ arg[r].family = s
                      \/ phase[r] \in {"marking", "sweeping"} /\ s \in locked[r]
(* Variants, for the runs' mutants: a row lock nobody waits for.           *)
TokenUnguarded(r, t)   == TRUE
SessionUnguarded(r, s) == TRUE
TokenFree(r, t)    == \A q \in Requests \ {r} : ~HoldsToken(q, t)
SessionFree(r, s)  == \A q \in Requests \ {r} : ~HoldsSession(q, s)

(* What the access-token guard and rotate ask of a session.                *)
Admitted(s) == Created(s) /\ ~session[s].revoked /\ s \notin lapsed

Init == /\ session = [s \in SessionIds |-> None]
        /\ token = [t \in Tokens |-> None]
        /\ lapsed = {}
        /\ phase = [r \in Requests |-> "idle"]
        /\ arg = [r \in Requests |-> NoArgument]
        /\ locked = [r \in Requests |-> {}]
        /\ todo = [r \in Requests |-> {}]
        /\ outcome = [r \in Requests |-> "ERROR"]

(* Each request moves through its own entries of the locals.               *)
Begin(r, p, a, o) == /\ phase[r] = "idle"
                     /\ phase' = [phase EXCEPT ![r] = p]
                     /\ arg' = [arg EXCEPT ![r] = a]
                     /\ outcome' = [outcome EXCEPT ![r] = o]
                     /\ UNCHANGED <<locked, todo>>
Finish(r, o) == /\ phase' = [phase EXCEPT ![r] = "done"]
                /\ outcome' = [outcome EXCEPT ![r] = o]
                /\ locked' = [locked EXCEPT ![r] = {}]
                /\ todo' = [todo EXCEPT ![r] = {}]

(***************************************************************************)
(* create: the session and its first token, in one transaction.            *)
(***************************************************************************)
Create(r, u, s, t) ==
  /\ ~Created(s) /\ ~Issued(t)
  /\ Begin(r, "done", [token |-> t, family |-> s, user |-> None], "CREATED")
  /\ session' = [session EXCEPT ![s] = [user |-> u, revoked |-> FALSE, current |-> t]]
  /\ token' = [token EXCEPT ![t] = [session |-> s, used |-> FALSE, revoked |-> FALSE]]
  /\ UNCHANGED lapsed

(***************************************************************************)
(* rotate                                                                  *)
(***************************************************************************)
Supplied(t) == [token |-> t, family |-> token[t].session, user |-> None]

RotateRead(r, t) ==
  /\ Issued(t)
  /\ \/ /\ token[t].used \/ token[t].revoked
        /\ Begin(r, "revoking", Supplied(t), "REUSED")
     \/ /\ Unused(t) /\ ~Admitted(token[t].session)
        /\ Begin(r, "revoking", Supplied(t), "INVALID")
     \/ /\ Unused(t) /\ Admitted(token[t].session)
        /\ Begin(r, "checked", Supplied(t), "ROTATED")
  /\ UNCHANGED <<tables, lapsed>>

(* The UPDATE of the token that sets usedAt if it is still unused, and     *)
(* takes what it finds otherwise for a reuse.                              *)
Consume(r) ==
  /\ phase[r] = "checked"
  /\ TokenFree(r, arg[r].token)
  /\ phase' = [phase EXCEPT ![r] = IF Unused(arg[r].token) THEN "consumed" ELSE "revoking"]
  /\ outcome' = [outcome EXCEPT ![r] = IF Unused(arg[r].token) THEN "ROTATED" ELSE "REUSED"]
  /\ UNCHANGED <<tables, lapsed, arg, locked, todo>>

(* The UPDATE of the session by its id: it asks nothing of revokedAt.      *)
RotateSession(r) ==
  /\ phase[r] = "consumed"
  /\ SessionFree(r, arg[r].family)
  /\ phase' = [phase EXCEPT ![r] = "rotating"]
  /\ UNCHANGED <<tables, lapsed, arg, locked, todo, outcome>>

(* Variant, for the runs' mutants: the row loses its token.                *)
TokenCleared(s, t) == [user |-> session[s].user, revoked |-> session[s].revoked, current |-> None]
Rotated(s, t) == [user |-> session[s].user, revoked |-> session[s].revoked, current |-> t]

(* The INSERT of the successor t, and the commit.                          *)
RotateCommit(r, t) ==
  /\ phase[r] = "rotating"
  /\ ~Issued(t)
  /\ LET s == arg[r].family
         spent == [session |-> s, used |-> TRUE, revoked |-> token[arg[r].token].revoked]
         fresh == [session |-> s, used |-> FALSE, revoked |-> FALSE]
     IN  /\ token' = [token EXCEPT ![arg[r].token] = spent, ![t] = fresh]
         /\ session' = [session EXCEPT ![s] = Rotated(s, t)]
         /\ arg' = [arg EXCEPT ![r] = [token |-> t, family |-> s, user |-> None]]
  /\ Finish(r, "ROTATED")
  /\ UNCHANGED lapsed

(***************************************************************************)
(* revokeFamily, at the end of a refused rotate and of revoke; revokeAll   *)
(* runs the same two UPDATEs over the sessions of a user.                  *)
(***************************************************************************)
Revoke(r, s) ==
  /\ Created(s)
  /\ Begin(r, "revoking", [token |-> None, family |-> s, user |-> None], "REVOKED")
  /\ UNCHANGED <<tables, lapsed>>

RevokeAll(r, u) ==
  /\ Begin(r, "revoking", [token |-> None, family |-> None, user |-> u], "REVOKED")
  /\ UNCHANGED <<tables, lapsed>>

(* Variant, for the runs' mutants: expired sessions are left alone.        *)
NotLapsed(r) == {s \in Scope(r) : ~Revoked(s) /\ s \notin lapsed}

Unrevoked(r) == {s \in Scope(r) : ~Revoked(s)}

RevokeSessions(r) ==
  /\ phase[r] = "revoking"
  /\ \A s \in Unrevoked(r) : SessionFree(r, s)
  /\ phase' = [phase EXCEPT ![r] = "marking"]
  /\ locked' = [locked EXCEPT ![r] = Unrevoked(r)]
  /\ UNCHANGED <<tables, lapsed, arg, todo, outcome>>

(* The UPDATE of the tokens acts on those its snapshot shows ...           *)
RevokeScan(r) ==
  /\ phase[r] = "marking"
  /\ phase' = [phase EXCEPT ![r] = "sweeping"]
  /\ todo' = [todo EXCEPT ![r] = {t \in TokensOf(Scope(r)) : ~token[t].revoked}]
  /\ UNCHANGED <<tables, lapsed, arg, locked, outcome>>

(* ... once their locks are free; the transaction commits.                 *)
RevokeTokens(r) ==
  /\ phase[r] = "sweeping"
  /\ \A t \in todo[r] : TokenFree(r, t)
  /\ session' = [s \in SessionIds |->
        IF s \in locked[r]
        THEN [user |-> session[s].user, revoked |-> TRUE, current |-> session[s].current]
        ELSE session[s]]
  /\ token' = [t \in Tokens |->
        IF t \in todo[r]
        THEN [session |-> token[t].session, used |-> token[t].used, revoked |-> TRUE]
        ELSE token[t]]
  /\ Finish(r, outcome[r])
  /\ UNCHANGED <<lapsed, arg>>

(***************************************************************************)
(* A transaction that ends without a commit: PostgreSQL picks it to break  *)
(* a deadlock, it exceeds its time, or the API dies.  The answer is 500.   *)
(***************************************************************************)
Open(r) == phase[r] \notin {"idle", "done"}

(* Variant, for the runs' mutants: nobody looks for deadlocks.             *)
Unseen(r, q) == FALSE

Waits(r, q) ==
  \/ phase[r] = "checked" /\ HoldsToken(q, arg[r].token)
  \/ phase[r] = "consumed" /\ HoldsSession(q, arg[r].family)
  \/ phase[r] = "revoking" /\ \E s \in Unrevoked(r) : HoldsSession(q, s)
  \/ phase[r] = "sweeping" /\ \E t \in todo[r] : HoldsToken(q, t)

Rollback(r) == /\ Open(r)
               /\ Finish(r, "ERROR")
               /\ arg' = [arg EXCEPT ![r] = NoArgument]
               /\ UNCHANGED <<tables, lapsed>>

Deadlock(r) == /\ \E q \in Requests \ {r} : Waits(r, q) /\ Waits(q, r)
               /\ Rollback(r)

(* The answer leaves the API.                                              *)
Respond(r) == /\ phase[r] = "done"
              /\ phase' = [phase EXCEPT ![r] = "idle"]
              /\ arg' = [arg EXCEPT ![r] = NoArgument]
              /\ outcome' = [outcome EXCEPT ![r] = "ERROR"]
              /\ UNCHANGED <<tables, lapsed, locked, todo>>

(* Time passes: a session expires, a membership ends, a user is disabled.  *)
Lapse(s) == /\ Created(s) /\ s \notin lapsed
            /\ lapsed' = lapsed \cup {s}
            /\ UNCHANGED <<tables, locals>>

Statement(r) == \/ Consume(r) \/ RotateSession(r)
                \/ RevokeSessions(r) \/ RevokeScan(r) \/ RevokeTokens(r)
                \/ Deadlock(r)

Next == \/ \E r \in Requests :
             \/ \E u \in Users, s \in SessionIds, t \in Tokens : Create(r, u, s, t)
             \/ \E t \in Tokens : RotateRead(r, t) \/ RotateCommit(r, t)
             \/ \E s \in SessionIds : Revoke(r, s)
             \/ \E u \in Users : RevokeAll(r, u)
             \/ Statement(r) \/ Rollback(r) \/ Respond(r)
        \/ \E s \in SessionIds : Lapse(s)

Spec == Init /\ [][Next]_vars

-----------------------------------------------------------------------------
TypeOK == /\ session \in [SessionIds -> Session \cup {None}]
          /\ token \in [Tokens -> Token \cup {None}]
          /\ lapsed \subseteq SessionIds
          /\ phase \in [Requests -> Phases]
          /\ arg \in [Requests -> Argument]
          /\ locked \in [Requests -> SUBSET SessionIds]
          /\ todo \in [Requests -> SUBSET Tokens]
          /\ outcome \in [Requests -> Outcomes]

(* A token is consumed once: whatever rotations and revocations overlap, a *)
(* session has one token that was not consumed, the last one it was given. *)
ChainEnds ==
  \A s \in SessionIds : Created(s) =>
     {t \in TokensOf({s}) : ~token[t].used} = {session[s].current}

(* No successor escapes a revocation: a revoked session has no token left  *)
(* that could be rotated, although rotate never looks at revokedAt again   *)
(* after its first read.                                                   *)
RevokedIsDead ==
  \A s \in SessionIds : Revoked(s) => \A t \in TokensOf({s}) : token[t].revoked

(* When the API answers that a token was reused, or is invalid, its family *)
(* is already revoked, whatever other requests do with it at the time.     *)
Refused(r) == phase[r] = "done" /\ outcome[r] \in Refusals
RefusedIsDead == \A r \in Requests : Refused(r) => Revoked(arg[r].family)

(* What the theorems rest on, besides: which rows an open transaction is   *)
(* about, that it alone holds the lock of a row, that nobody writes a      *)
(* token another has consumed, and that a sweep has found every token of   *)
(* the sessions it has locked.                                             *)
RotationSound(r) ==
  /\ phase[r] \in {"checked", "consumed", "rotating"} =>
       /\ arg[r].token \in Tokens /\ Issued(arg[r].token)
       /\ arg[r].family = token[arg[r].token].session /\ arg[r].user = None
  /\ phase[r] \in {"consumed", "rotating"} => Unused(arg[r].token)

RevocationSound(r) ==
  /\ phase[r] \in {"revoking", "marking", "sweeping"} =>
       /\ arg[r].user = None => arg[r].family \in SessionIds /\ Created(arg[r].family)
       /\ outcome[r] \in Refusals => arg[r].user = None
  /\ phase[r] \in {"marking", "sweeping"} =>
       /\ locked[r] \subseteq Scope(r)
       /\ outcome[r] \in Refusals => Revoked(arg[r].family) \/ arg[r].family \in locked[r]
  /\ phase[r] = "sweeping" =>
       /\ \A t \in todo[r] : Issued(t)
       /\ \A t \in TokensOf(locked[r]) : token[t].revoked \/ t \in todo[r]
  /\ Refused(r) => arg[r].family \in SessionIds

LocksApart(r, q) ==
  /\ \A t \in Tokens : ~(HoldsToken(r, t) /\ HoldsToken(q, t))
  /\ \A s \in SessionIds : ~(HoldsSession(r, s) /\ HoldsSession(q, s))

TransactionsSound ==
  /\ \A r \in Requests : RotationSound(r) /\ RevocationSound(r)
  /\ \A r, q \in Requests : r # q => LocksApart(r, q)

TokensHaveSession == \A t \in Tokens : Issued(t) => Created(token[t].session)

SessionsInductive == TransactionsSound /\ TokensHaveSession

(* The session tables implement token families, whose life ends with the   *)
(* revocation of their last token.                                         *)
Life(s) == IF ~Created(s) THEN "unborn"
           ELSE IF token[session[s].current].revoked THEN "dead" ELSE "live"
Head(s) == IF Created(s) THEN session[s].current ELSE None

Family == INSTANCE TokenFamily WITH
            Families <- SessionIds,
            life <- [s \in SessionIds |-> Life(s)],
            head <- [s \in SessionIds |-> Head(s)],
            spent <- {t \in Tokens : Issued(t)}
KeepsFamily == Family!Spec
=============================================================================
