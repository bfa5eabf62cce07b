------------------------------ MODULE Passkeys ------------------------------
(***************************************************************************)
(* The passkey service of apps/api for the sessions of one user: a page    *)
(* asks for options and is given a challenge, an authenticator answers it, *)
(* and the answer registers a passkey or marks the session as verified,    *)
(* which StepUpGuard accepts for a while.                                  *)
(*                                                                         *)
(* Requests run as transactions under READ COMMITTED; the tables hold what *)
(* is committed.  What a request reads one statement after the other, with *)
(* nothing in between, is read in one step; the UPDATE of the challenge    *)
(* and the commit are steps of their own, so are the two statements of     *)
(* replaceChallenge.                                                       *)
(*                                                                         *)
(* Abstractions.  Time is counted in ticks.  A challenge is answered by    *)
(* one authenticator at most.  The checks of the origin, of the relying    *)
(* party, of the signature and of the user never fail for a page and an    *)
(* authenticator of this user, and are left out.                           *)
(***************************************************************************)
EXTENDS Integers, FiniteSets

CONSTANTS SessionIds,      \* the user's sessions
          Devices,         \* the user's authenticators
          Challenges,
          Requests,        \* the requests the API serves at a time
          ChallengeTtl, LoginTtl, StepUpTtl,
          MaxTime,         \* bound: the clock stops here
          None

Times == 0..MaxTime
Purposes == {"REGISTRATION", "STEP_UP"}
Challenge == [session: SessionIds, purpose: Purposes, issued: Times, used: BOOLEAN]
(* The authenticator's answer, with its signature counter.                 *)
Answer == [device: Devices, counter: Nat]
Argument == [session: SessionIds, purpose: Purposes, challenge: Challenges \cup {None}, at: Times]

ASSUME PasskeyAssumption ==
  /\ MaxTime \in Nat /\ ChallengeTtl \in Nat /\ LoginTtl \in Nat /\ StepUpTtl \in Nat
  /\ None \notin Times \cup Challenge \cup Answer \cup Argument \cup Nat \cup Challenges

VARIABLES now,
          login,        \* authenticatedAt of each session, None before it is created
          stepUp,       \* stepUpVerifiedAt of each session
          challenge,    \* the PasskeyChallenge table
          credential,   \* the WebAuthnCredential table: the stored counter
          signed,       \* the counter of each authenticator
          answer,       \* what a page holds to answer a challenge with
          phase,        \* the last statement of each request
          arg,          \* what it is about
          todo,         \* the challenges its UPDATE has found
          accepted,     \* history: how often each challenge was accepted
          replaced,     \* history: the challenges that were set aside
          verified      \* history: the times each session was verified at

tables   == <<stepUp, challenge, credential>>
world    == <<login, signed, answer>>
locals   == <<phase, arg, todo>>
history  == <<accepted, replaced, verified>>
passkeys == <<now, tables, world, locals, history>>

Phases == {"idle", "replacing", "verified", "consumed"}

PasskeyInit ==
  /\ now = 0
  /\ login = [s \in SessionIds |-> None]
  /\ stepUp = [s \in SessionIds |-> None]
  /\ challenge = [c \in Challenges |-> None]
  /\ credential = [d \in Devices |-> None]
  /\ signed = [d \in Devices |-> 0]
  /\ answer = [c \in Challenges |-> None]
  /\ phase = [r \in Requests |-> "idle"]
  /\ arg = [r \in Requests |-> None]
  /\ todo = [r \in Requests |-> {}]
  /\ accepted = [c \in Challenges |-> 0]
  /\ replaced = {}
  /\ verified = [s \in SessionIds |-> {}]

Issued(c)     == challenge[c] # None
Registered(d) == credential[d] # None
Fresh == CHOOSE c \in Challenges : ~Issued(c)
Within(ttl, since) == since # None /\ now - since <= ttl

(* Variants, for the runs' mutants: the guard forgets the age of the       *)
(* verification; a login authorizes any number of passkeys.                *)
EverVerified(s) == stepUp[s] # None
OnceSignedIn(s) == login[s] # None

(* StepUpGuard.                                                            *)
Recent(s) == Within(StepUpTtl, stepUp[s])

(* assertRegistrationAuthorized.                                           *)
Authorized(s) == IF \E d \in Devices : Registered(d) THEN Recent(s)
                 ELSE Within(LoginTtl, login[s])

SignIn(s) == /\ login[s] = None
             /\ login' = [login EXCEPT ![s] = now]
             /\ UNCHANGED <<now, tables, signed, answer, locals, history>>

(***************************************************************************)
(* registrationOptions, stepUpOptions                                      *)
(***************************************************************************)
Unused(c)    == Issued(c) /\ ~challenge[c].used
Of(s, p)     == {c \in Challenges : /\ Issued(c) /\ challenge[c].session = s
                                    /\ challenge[c].purpose = p}
(* Row locks, held until the transaction ends.                             *)
Holds(r, c)  == \/ phase[r] = "consumed" /\ arg[r].challenge = c
                \/ phase[r] = "replacing" /\ c \in todo[r]
(* Variant, for the runs' mutants: a row lock nobody waits for.            *)
Unguarded(r, c) == TRUE
Free(r, c)   == \A q \in Requests \ {r} : ~Holds(q, c)

(* The checks, and the UPDATE of replaceChallenge.                         *)
Ask(r, s, p) ==
  LET old == {c \in Of(s, p) : Unused(c)} IN
  /\ phase[r] = "idle" /\ login[s] # None
  /\ p = "REGISTRATION" => Authorized(s)
  /\ p = "STEP_UP" => \E d \in Devices : Registered(d)
  /\ \A c \in old : Free(r, c)
  /\ phase' = [phase EXCEPT ![r] = "replacing"]
  /\ arg' = [arg EXCEPT ![r] = [session |-> s, purpose |-> p, challenge |-> None, at |-> now]]
  /\ todo' = [todo EXCEPT ![r] = old]
  /\ UNCHANGED <<now, tables, world, history>>

Idle(r) == /\ phase' = [phase EXCEPT ![r] = "idle"]
           /\ arg' = [arg EXCEPT ![r] = None]
           /\ todo' = [todo EXCEPT ![r] = {}]

(* Its INSERT, and the commit.                                             *)
Issue(r, c) ==
  /\ phase[r] = "replacing" /\ ~Issued(c)
  /\ challenge' = [x \in Challenges |->
       IF x = c THEN [session |-> arg[r].session, purpose |-> arg[r].purpose,
                      issued |-> arg[r].at, used |-> FALSE]
       ELSE IF x \in todo[r] THEN [challenge[x] EXCEPT !.used = TRUE] ELSE challenge[x]]
  /\ replaced' = replaced \cup todo[r]
  /\ Idle(r)
  /\ UNCHANGED <<now, stepUp, credential, world, accepted, verified>>

(* The page hands the options to an authenticator: one that has no passkey *)
(* here yet, or one that has.                                              *)
Sign(c, d) ==
  /\ Issued(c) /\ answer[c] = None
  /\ \/ /\ challenge[c].purpose = "REGISTRATION" /\ ~Registered(d)
        /\ answer' = [answer EXCEPT ![c] = [device |-> d, counter |-> signed[d]]]
        /\ UNCHANGED signed
     \/ /\ challenge[c].purpose = "STEP_UP" /\ Registered(d)
        /\ answer' = [answer EXCEPT ![c] = [device |-> d, counter |-> signed[d] + 1]]
        /\ signed' = [signed EXCEPT ![d] = @ + 1]
  /\ UNCHANGED <<now, login, tables, locals, history>>

(***************************************************************************)
(* verifyRegistration, verifyStepUp                                        *)
(***************************************************************************)
Expired(c, t) == t >= challenge[c].issued + ChallengeTtl
(* activeChallenge: the newest, and any of those created at the same time. *)
Active(s, p) == LET open == {c \in Of(s, p) : Unused(c) /\ ~Expired(c, now)}
                IN  {c \in open : \A o \in open : challenge[o].issued <= challenge[c].issued}

(* The reads and the verification; any other answer is refused.            *)
Verify(r, c) ==
  LET s == challenge[c].session
      p == challenge[c].purpose
  IN
  /\ phase[r] = "idle" /\ Issued(c) /\ answer[c] # None
  /\ c \in Active(s, p)
  /\ p = "STEP_UP" => /\ Registered(answer[c].device)
                      /\ answer[c].counter > credential[answer[c].device]
  /\ phase' = [phase EXCEPT ![r] = "verified"]
  /\ arg' = [arg EXCEPT ![r] = [session |-> s, purpose |-> p, challenge |-> c, at |-> now]]
  /\ UNCHANGED <<now, tables, world, todo, history>>

(* A step-up is dated before its transaction begins, a registration in it. *)
Date(r) == IF arg[r].purpose = "STEP_UP" THEN arg[r].at ELSE now

(* Variant, for the runs' mutants: the UPDATE asks for the id only.        *)
Anyway(r) == TRUE

(* The WHERE of the UPDATE that sets usedAt, after its wait for the row.   *)
Consumable(r) == Unused(arg[r].challenge) /\ ~Expired(arg[r].challenge, Date(r))

Consume(r) ==
  /\ phase[r] = "verified"
  /\ Free(r, arg[r].challenge)
  /\ \/ /\ Consumable(r)
        /\ phase' = [phase EXCEPT ![r] = "consumed"]
        /\ arg' = [arg EXCEPT ![r] = [@ EXCEPT !.at = Date(r)]]
        /\ UNCHANGED todo
     \/ /\ ~Consumable(r)
        /\ Idle(r)
  /\ UNCHANGED <<now, tables, world, history>>

Accept(r) == LET c == arg[r].challenge IN
  /\ challenge' = [challenge EXCEPT ![c] = [@ EXCEPT !.used = TRUE]]
  /\ accepted' = [accepted EXCEPT ![c] = @ + 1]
  /\ Idle(r)

(* The new passkey; its id is unique.                                      *)
Register(r) == LET d == answer[arg[r].challenge].device IN
  /\ phase[r] = "consumed" /\ arg[r].purpose = "REGISTRATION"
  /\ ~Registered(d)
  /\ credential' = [credential EXCEPT ![d] = answer[arg[r].challenge].counter]
  /\ Accept(r)
  /\ UNCHANGED <<now, stepUp, world, replaced, verified>>

(* The counter of the passkey and the session, whatever they are by now.   *)
StepUp(r) == LET a == answer[arg[r].challenge]
                 s == arg[r].session IN
  /\ phase[r] = "consumed" /\ arg[r].purpose = "STEP_UP"
  /\ credential' = [credential EXCEPT ![a.device] = a.counter]
  /\ stepUp' = [stepUp EXCEPT ![s] = arg[r].at]
  /\ verified' = [verified EXCEPT ![s] = @ \cup {arg[r].at}]
  /\ Accept(r)
  /\ UNCHANGED <<now, world, replaced>>

(* The transaction fails, exceeds its time, or the API dies.               *)
GiveUp(r) == /\ phase[r] \in Phases \ {"idle"}
             /\ Idle(r)
             /\ UNCHANGED <<now, tables, world, history>>

Tick == /\ now < MaxTime
        /\ now' = now + 1
        /\ UNCHANGED <<tables, world, locals, history>>

PasskeyNext ==
  \/ \E s \in SessionIds : SignIn(s)
  \/ \E r \in Requests :
       \/ \E s \in SessionIds, p \in Purposes : Ask(r, s, p)
       \/ (\E c \in Challenges : ~Issued(c)) /\ Issue(r, Fresh)
       \/ \E c \in Challenges : Verify(r, c)
       \/ Consume(r) \/ Register(r) \/ StepUp(r) \/ GiveUp(r)
  \/ \E c \in Challenges, d \in Devices : Sign(c, d)
  \/ Tick

PasskeySpec == PasskeyInit /\ [][PasskeyNext]_passkeys
-----------------------------------------------------------------------------
PasskeysTypeOK ==
  /\ now \in Times
  /\ login \in [SessionIds -> Times \cup {None}] /\ stepUp \in [SessionIds -> Times \cup {None}]
  /\ challenge \in [Challenges -> Challenge \cup {None}]
  /\ credential \in [Devices -> Nat \cup {None}] /\ signed \in [Devices -> Nat]
  /\ answer \in [Challenges -> Answer \cup {None}]
  /\ arg \in [Requests -> Argument \cup {None}] /\ todo \in [Requests -> SUBSET Challenges]
  /\ accepted \in [Challenges -> Nat] /\ replaced \subseteq Challenges
  /\ verified \in [SessionIds -> SUBSET Times]

(* A challenge has one end: it is accepted once, or it is set aside by a   *)
(* newer one, whatever requests with the same answer overlap, and although *)
(* the stored counter may move back.                                       *)
ChallengesEndOnce ==
  \A c \in Challenges :
     /\ accepted[c] <= 1
     /\ accepted[c] = 1 => c \notin replaced
     /\ Issued(c) => (challenge[c].used <=> accepted[c] = 1 \/ c \in replaced)

(* A session counts as verified from a time at which a challenge of its    *)
(* own was open, and no verification reaches another session.              *)
VerifiedByOwnChallenge ==
  \A s \in SessionIds : stepUp[s] # None =>
     \E c \in Of(s, "STEP_UP") : /\ accepted[c] = 1
                                 /\ challenge[c].issued <= stepUp[s]
                                 /\ ~Expired(c, stepUp[s])

(* The options are checked, the answer is not: adding a passkey is still   *)
(* possible while the challenge lives, and not any longer.                 *)
AddedWhileAuthorized ==
  [][\A r \in Requests : Register(r) =>
        LET used == arg[r].at
            s    == arg[r].session IN
        \/ used - login[s] < LoginTtl + ChallengeTtl
        \/ \E t \in verified[s] : used - t < StepUpTtl + ChallengeTtl]_passkeys
=============================================================================
