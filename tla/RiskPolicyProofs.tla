-------------------------- MODULE RiskPolicyProofs --------------------------
(* Theorems about Passkeys and RiskPolicy, for any sessions,               *)
(* authenticators, challenges and limits of time, any defaults, patches,   *)
(* facts and requests.  Those about Passkeys are of PasskeySpec alone,     *)
(* those about RiskPolicy hold whatever the passkeys do meanwhile.         *)
EXTENDS RiskPolicy, TLAPS

(***************************************************************************)
(* Passkeys                                                                *)
(***************************************************************************)

(* What a request relies on: a challenge it has verified or consumed is    *)
(* answered and is the one of its session and purpose, and the rows it has *)
(* locked are still unused.                                                *)
InOrder(r) ==
  /\ phase[r] # "idle" => arg[r] # None /\ arg[r].at <= now
  /\ phase[r] = "replacing" => \A c \in todo[r] : Unused(c)
  /\ phase[r] \in {"verified", "consumed"} =>
       /\ arg[r].challenge \in Challenges
       /\ Issued(arg[r].challenge) /\ answer[arg[r].challenge] # None
       /\ challenge[arg[r].challenge].session = arg[r].session
       /\ challenge[arg[r].challenge].purpose = arg[r].purpose
       /\ challenge[arg[r].challenge].issued <= arg[r].at
  /\ phase[r] = "consumed" => /\ Unused(arg[r].challenge)
                              /\ ~Expired(arg[r].challenge, arg[r].at)

RequestsInOrder == \A r \in Requests : InOrder(r)

IssuedBefore == \A c \in Challenges : Issued(c) => challenge[c].issued <= now

EndedWereIssued ==
  \A c \in Challenges : challenge[c] = None => accepted[c] = 0 /\ c \notin replaced

(* No two transactions hold one row.                                       *)
LocksApart ==
  \A r, q \in Requests : r # q => \A c \in Challenges : ~(Holds(r, c) /\ Holds(q, c))

(* A session is marked as verified since a time at which it was.           *)
MarksAreVerified == \A s \in SessionIds :
  stepUp[s] # None => stepUp[s] \in verified[s] /\ stepUp[s] <= now

(* A registration is only begun by a session that may: with its login or a *)
(* step-up not too long before.                                            *)
MayRegister(s, t) == \/ login[s] # None /\ t - login[s] <= LoginTtl
                     \/ \E u \in verified[s] : t - u <= StepUpTtl

RegistrationsAuthorized ==
  /\ \A c \in Challenges : Issued(c) /\ challenge[c].purpose = "REGISTRATION" =>
       MayRegister(challenge[c].session, challenge[c].issued)
  /\ \A r \in Requests : phase[r] = "replacing" /\ arg[r].purpose = "REGISTRATION" =>
       MayRegister(arg[r].session, arg[r].at)

Typed == PasskeysTypeOK /\ phase \in [Requests -> Phases]

PasskeyInvariant ==
  /\ Typed /\ RequestsInOrder /\ IssuedBefore /\ LocksApart
  /\ ChallengesEndOnce /\ EndedWereIssued
  /\ VerifiedByOwnChallenge /\ MarksAreVerified /\ RegistrationsAuthorized

LEMMA PasskeyInitInvariant ==
  ASSUME PasskeyInit
  PROVE  PasskeyInvariant
<1> USE DEF PasskeyInit
<1>1. 0 \in Times
  BY PasskeyAssumption DEF Times
<1>2. Typed
  BY <1>1 DEF Typed, PasskeysTypeOK, Phases
<1>3. RequestsInOrder /\ IssuedBefore /\ LocksApart
  BY DEF RequestsInOrder, InOrder, IssuedBefore, LocksApart, Holds, Issued
<1>4. ChallengesEndOnce /\ EndedWereIssued /\ VerifiedByOwnChallenge
  BY DEF ChallengesEndOnce, EndedWereIssued, VerifiedByOwnChallenge, Issued
<1>5. MarksAreVerified /\ RegistrationsAuthorized
  BY DEF MarksAreVerified, RegistrationsAuthorized, Issued
<1>. QED BY <1>2, <1>3, <1>4, <1>5 DEF PasskeyInvariant

(***************************************************************************)
(* Types                                                                   *)
(***************************************************************************)
LEMMA IdleType ==
  ASSUME Typed, NEW r \in Requests, Idle(r)
  PROVE  /\ phase' \in [Requests -> Phases] /\ arg' \in [Requests -> Argument \cup {None}]
         /\ todo' \in [Requests -> SUBSET Challenges]
BY DEF Typed, PasskeysTypeOK, Idle, Phases

(* What accepting a request's challenge does to the tables.                *)
Accepts(r, c, used) ==
  /\ c = arg[r].challenge /\ challenge[c] \in Challenge /\ ~challenge[c].used
  /\ used.session = challenge[c].session /\ used.purpose = challenge[c].purpose
  /\ used.issued = challenge[c].issued /\ used.used = TRUE
  /\ challenge' = [challenge EXCEPT ![c] = used]
  /\ accepted' = [accepted EXCEPT ![c] = accepted[c] + 1]

LEMMA AcceptRows ==
  ASSUME Typed, NEW r \in Requests, InOrder(r), phase[r] = "consumed", Accept(r)
  PROVE  \E c, used : c \in Challenges /\ used \in Challenge /\ Accepts(r, c, used)
<1>1. PICK c : c = arg[r].challenge
  OBVIOUS
<1>2. c \in Challenges /\ Issued(c) /\ Unused(c)
  BY <1>1 DEF InOrder
<1>3. challenge[c] \in Challenge /\ ~challenge[c].used
  BY <1>2 DEF Typed, PasskeysTypeOK, Issued, Unused
<1>4. PICK used : used = [challenge[c] EXCEPT !.used = TRUE]
  OBVIOUS
<1>5. /\ used \in Challenge /\ used.session = challenge[c].session
      /\ used.purpose = challenge[c].purpose
      /\ used.issued = challenge[c].issued /\ used.used = TRUE
  BY <1>3, <1>4 DEF Challenge
<1>6. challenge' = [challenge EXCEPT ![c] = used] /\ accepted' = [accepted EXCEPT ![c] = accepted[c] + 1]
  BY <1>1, <1>4, Zenon DEF Accept
<1>. QED BY <1>1, <1>2, <1>3, <1>5, <1>6 DEF Accepts

(* The challenge a request inserts, and the ones it sets aside.            *)
Inserts(r, c) ==
  /\ challenge[c] = None /\ challenge'[c] \in Challenge
  /\ challenge'[c].session = arg[r].session /\ challenge'[c].purpose = arg[r].purpose
  /\ challenge'[c].issued = arg[r].at /\ challenge'[c].used = FALSE

SetsAside(x) ==
  /\ challenge[x] \in Challenge /\ ~challenge[x].used
  /\ challenge'[x] \in Challenge /\ challenge'[x].used = TRUE
  /\ challenge'[x].session = challenge[x].session
  /\ challenge'[x].purpose = challenge[x].purpose
  /\ challenge'[x].issued = challenge[x].issued

LEMMA IssueRows ==
  ASSUME Typed, NEW r \in Requests, InOrder(r), NEW c \in Challenges, Issue(r, c)
  PROVE  /\ Inserts(r, c)
         /\ \A x \in todo[r] : x \in Challenges \ {c} /\ SetsAside(x)
         /\ \A x \in Challenges \ {c} : x \notin todo[r] => challenge'[x] = challenge[x]
         /\ challenge' \in [Challenges -> Challenge \cup {None}]
<1>1. arg[r] \in Argument /\ todo[r] \subseteq Challenges /\ challenge[c] = None
  BY DEF Typed, PasskeysTypeOK, InOrder, Issue, Issued
<1>2. PICK new : new = [session |-> arg[r].session, purpose |-> arg[r].purpose,
                        issued |-> arg[r].at, used |-> FALSE]
  OBVIOUS
<1>3. /\ new \in Challenge /\ new.session = arg[r].session /\ new.purpose = arg[r].purpose
      /\ new.issued = arg[r].at /\ new.used = FALSE
  BY <1>1, <1>2 DEF Challenge, Argument
<1>4. challenge' = [x \in Challenges |->
         IF x = c THEN new
         ELSE IF x \in todo[r] THEN [challenge[x] EXCEPT !.used = TRUE] ELSE challenge[x]]
  BY <1>2, Zenon DEF Issue
<1>5. challenge'[c] = new
  BY <1>4
<1>6. ASSUME NEW x \in Challenges \ {c}, x \notin todo[r] PROVE challenge'[x] = challenge[x]
  BY <1>4, <1>6
<1>7. ASSUME NEW x \in todo[r] PROVE x \in Challenges \ {c} /\ SetsAside(x)
  <2>1. Unused(x) /\ x \in Challenges
    BY <1>1 DEF Issue, InOrder
  <2>2. x # c /\ challenge[x] \in Challenge /\ ~challenge[x].used
    BY <1>1, <2>1 DEF Unused, Issued, Typed, PasskeysTypeOK
  <2>3. challenge'[x] = [challenge[x] EXCEPT !.used = TRUE]
    BY <1>4, <2>1, <2>2, Zenon
  <2>. QED BY <2>1, <2>2, <2>3 DEF Challenge, SetsAside
<1>8. challenge' \in [Challenges -> Challenge \cup {None}]
  <2>1. challenge' = [x \in Challenges |-> challenge'[x]]
    BY <1>4
  <2>2. \A x \in Challenges : challenge[x] \in Challenge \cup {None}
    BY DEF Typed, PasskeysTypeOK
  <2>3. \A x \in Challenges : challenge'[x] \in Challenge \cup {None}
    BY <1>3, <1>5, <1>6, <1>7, <2>2 DEF SetsAside
  <2>. QED BY <2>1, <2>3
<1>. QED BY <1>1, <1>3, <1>5, <1>6, <1>7, <1>8 DEF Inserts

LEMMA PasskeyNextType ==
  ASSUME Typed, RequestsInOrder, [PasskeyNext]_passkeys
  PROVE  Typed'
<1> USE DEF Typed, PasskeysTypeOK
<1>1. CASE UNCHANGED passkeys
  BY <1>1 DEF passkeys, tables, world, locals, history
<1>2. ASSUME NEW s \in SessionIds, SignIn(s) PROVE Typed'
  BY <1>2 DEF SignIn, tables, locals, history
<1>3. ASSUME NEW r \in Requests, NEW s \in SessionIds, NEW p \in Purposes, Ask(r, s, p) PROVE Typed'
  <2>1. [session |-> s, purpose |-> p, challenge |-> None, at |-> now] \in Argument
    BY DEF Argument
  <2>2. {c \in Of(s, p) : Unused(c)} \in SUBSET Challenges
    BY DEF Of
  <2>3. "replacing" \in Phases
    BY DEF Phases
  <2>. QED BY <1>3, <2>1, <2>2, <2>3 DEF Ask, tables, world, history
<1>4. ASSUME NEW r \in Requests, NEW c \in Challenges, Issue(r, c) PROVE Typed'
  <2>1. challenge' \in [Challenges -> Challenge \cup {None}]
    BY <1>4, IssueRows DEF RequestsInOrder
  <2>2. replaced' \subseteq Challenges
    BY <1>4 DEF Issue
  <2>. QED BY <1>4, <2>1, <2>2, IdleType DEF Issue, world
<1>5. ASSUME NEW c \in Challenges, NEW d \in Devices, Sign(c, d) PROVE Typed'
  <2>1. /\ [device |-> d, counter |-> signed[d]] \in Answer
        /\ [device |-> d, counter |-> signed[d] + 1] \in Answer
    BY DEF Answer
  <2>2. answer' \in [Challenges -> Answer \cup {None}]
    BY <1>5, <2>1 DEF Sign
  <2>3. signed' \in [Devices -> Nat]
    BY <1>5 DEF Sign
  <2>. QED BY <1>5, <2>2, <2>3 DEF Sign, tables, locals, history
<1>6. ASSUME NEW r \in Requests, NEW c \in Challenges, Verify(r, c) PROVE Typed'
  <2>1. challenge[c] \in Challenge
    BY <1>6 DEF Verify, Issued
  <2>2. [session |-> challenge[c].session, purpose |-> challenge[c].purpose,
         challenge |-> c, at |-> now] \in Argument
    BY <2>1 DEF Argument, Challenge
  <2>3. "verified" \in Phases
    BY DEF Phases
  <2>. QED BY <1>6, <2>2, <2>3 DEF Verify, tables, world, history
<1>7. ASSUME NEW r \in Requests, Consume(r) PROVE Typed'
  <2>1. CASE Idle(r)
    BY <1>7, <2>1, IdleType DEF Consume, tables, world, history
  <2>2. CASE /\ phase' = [phase EXCEPT ![r] = "consumed"]
             /\ arg' = [arg EXCEPT ![r] = [@ EXCEPT !.at = Date(r)]]
             /\ UNCHANGED todo
    <3>1. arg[r] \in Argument
      BY <1>7 DEF Consume, RequestsInOrder, InOrder
    <3>2. Date(r) \in Times
      BY <3>1 DEF Date, Argument
    <3>3. [arg[r] EXCEPT !.at = Date(r)] \in Argument
      BY <3>1, <3>2 DEF Argument
    <3>4. "consumed" \in Phases
      BY DEF Phases
    <3>. QED BY <1>7, <2>2, <3>3, <3>4 DEF Consume, tables, world, history
  <2>. QED BY <1>7, <2>1, <2>2 DEF Consume
<1>8. ASSUME NEW r \in Requests, Register(r) PROVE Typed'
  <2>1. Accept(r) /\ phase[r] = "consumed" /\ InOrder(r)
    BY <1>8 DEF Register, RequestsInOrder
  <2>2. PICK c, used : c \in Challenges /\ used \in Challenge /\ Accepts(r, c, used)
    BY <2>1, AcceptRows
  <2>3. challenge' \in [Challenges -> Challenge \cup {None}] /\ accepted' \in [Challenges -> Nat]
    BY <2>2 DEF Accepts
  <2>4. PICK a : a = answer[c]
    OBVIOUS
  <2>5. a \in Answer
    BY <2>1, <2>2, <2>4 DEF InOrder, Accepts
  <2>6. credential' = [credential EXCEPT ![a.device] = a.counter]
    BY <1>8, <2>2, <2>4 DEF Register, Accepts
  <2>7. credential' \in [Devices -> Nat \cup {None}]
    BY <2>5, <2>6 DEF Answer
  <2>. QED BY <1>8, <2>1, <2>3, <2>7, IdleType DEF Register, Accept, world
<1>9. ASSUME NEW r \in Requests, StepUp(r) PROVE Typed'
  <2>1. Accept(r) /\ phase[r] = "consumed" /\ InOrder(r)
    BY <1>9 DEF StepUp, RequestsInOrder
  <2>2. PICK c, used : c \in Challenges /\ used \in Challenge /\ Accepts(r, c, used)
    BY <2>1, AcceptRows
  <2>3. challenge' \in [Challenges -> Challenge \cup {None}] /\ accepted' \in [Challenges -> Nat]
    BY <2>2 DEF Accepts
  <2>4. PICK a : a = answer[c]
    OBVIOUS
  <2>5. a \in Answer
    BY <2>1, <2>2, <2>4 DEF InOrder, Accepts
  <2>6. credential' = [credential EXCEPT ![a.device] = a.counter]
    BY <1>9, <2>2, <2>4 DEF StepUp, Accepts
  <2>7. credential' \in [Devices -> Nat \cup {None}]
    BY <2>5, <2>6 DEF Answer
  <2>8. PICK s, t : s = arg[r].session /\ t = arg[r].at
    OBVIOUS
  <2>9. s \in SessionIds /\ t \in Times
    BY <2>1, <2>8 DEF InOrder, Argument
  <2>10. stepUp' = [stepUp EXCEPT ![s] = t] /\ verified' = [verified EXCEPT ![s] = verified[s] \cup {t}]
    BY <1>9, <2>8 DEF StepUp
  <2>11. stepUp' \in [SessionIds -> Times \cup {None}] /\ verified' \in [SessionIds -> SUBSET Times]
    BY <2>9, <2>10
  <2>. QED BY <1>9, <2>1, <2>3, <2>7, <2>11, IdleType DEF StepUp, Accept, world
<1>10. ASSUME NEW r \in Requests, GiveUp(r) PROVE Typed'
  BY <1>10, IdleType DEF GiveUp, tables, world, history
<1>11. CASE Tick
  <2>1. now' \in Times
    BY <1>11, PasskeyAssumption DEF Tick, Times
  <2>. QED BY <1>11, <2>1 DEF Tick, tables, world, locals, history
<1>12. ASSUME \E c \in Challenges : ~Issued(c) PROVE Fresh \in Challenges
  BY <1>12 DEF Fresh
<1>. QED
  BY <1>1, <1>2, <1>3, <1>4, <1>5, <1>6, <1>7, <1>8, <1>9, <1>10, <1>11, <1>12 DEF PasskeyNext

(***************************************************************************)
(* The requests and their locks                                            *)
(***************************************************************************)
(* Time goes on, and what a challenge was issued for never changes.        *)
Keeps ==
  /\ now <= now'
  /\ \A c \in Challenges : challenge[c] # None =>
       /\ challenge'[c] # None /\ challenge'[c].session = challenge[c].session
       /\ challenge'[c].purpose = challenge[c].purpose
       /\ challenge'[c].issued = challenge[c].issued
  /\ \A c \in Challenges : answer[c] # None => answer'[c] # None

LEMMA AcceptKeeps ==
  ASSUME Typed, NEW r \in Requests, InOrder(r), phase[r] = "consumed", Accept(r),
         UNCHANGED <<now, answer>>
  PROVE  Keeps
<1>1. PICK c, used : c \in Challenges /\ used \in Challenge /\ Accepts(r, c, used)
  BY AcceptRows
<1>2. now \in Nat /\ None \notin Challenge
  BY PasskeyAssumption DEF Typed, PasskeysTypeOK, Times
<1>. QED BY <1>1, <1>2 DEF Accepts, Keeps, Typed, PasskeysTypeOK

LEMMA NextKeeps ==
  ASSUME Typed, RequestsInOrder, [PasskeyNext]_passkeys
  PROVE  Keeps
<1>1. now \in Nat /\ None \notin Challenge /\ None \notin Answer
  BY PasskeyAssumption DEF Typed, PasskeysTypeOK, Times
<1>2. CASE UNCHANGED <<challenge, answer>> /\ (now' = now \/ now' = now + 1)
  BY <1>1, <1>2 DEF Keeps
<1>3. ASSUME NEW r \in Requests, NEW c \in Challenges, Issue(r, c) PROVE Keeps
  <2>1. UNCHANGED <<now, answer>>
    BY <1>3 DEF Issue, world
  <2>2. ASSUME NEW x \in Challenges, challenge[x] # None
        PROVE  /\ challenge'[x] # None /\ challenge'[x].session = challenge[x].session
               /\ challenge'[x].purpose = challenge[x].purpose
               /\ challenge'[x].issued = challenge[x].issued
    <3>1. InOrder(r)
      BY DEF RequestsInOrder
    <3>2. CASE x \in todo[r]
      <4>1. SetsAside(x)
        BY <1>3, <3>1, <3>2, IssueRows
      <4>. QED BY <1>1, <4>1 DEF SetsAside
    <3>3. CASE x \notin todo[r]
      <4>1. Inserts(r, c) /\ (x # c => challenge'[x] = challenge[x])
        BY <1>3, <3>1, <3>3, IssueRows
      <4>. QED BY <2>2, <4>1 DEF Inserts
    <3>. QED BY <3>2, <3>3
  <2>. QED BY <1>1, <2>1, <2>2 DEF Keeps
<1>4. ASSUME NEW c \in Challenges, NEW d \in Devices, Sign(c, d) PROVE Keeps
  <2>1. PICK n \in Nat : answer' = [answer EXCEPT ![c] = [device |-> d, counter |-> n]]
    BY <1>4 DEF Sign, Typed, PasskeysTypeOK
  <2>2. [device |-> d, counter |-> n] \in Answer
    BY DEF Answer
  <2>. QED BY <1>1, <1>4, <2>1, <2>2 DEF Sign, Keeps, tables, Typed, PasskeysTypeOK
<1>5. ASSUME NEW r \in Requests, Register(r) \/ StepUp(r) PROVE Keeps
  BY <1>5, AcceptKeeps DEF Register, StepUp, RequestsInOrder, world
<1>6. ASSUME NEW s \in SessionIds, SignIn(s) PROVE Keeps
  BY <1>2, <1>6 DEF SignIn, tables
<1>7. ASSUME NEW r \in Requests, NEW s \in SessionIds, NEW p \in Purposes, Ask(r, s, p) PROVE Keeps
  BY <1>2, <1>7 DEF Ask, tables, world
<1>8. ASSUME NEW r \in Requests, NEW c \in Challenges, Verify(r, c) PROVE Keeps
  BY <1>2, <1>8 DEF Verify, tables, world
<1>9. ASSUME NEW r \in Requests, Consume(r) \/ GiveUp(r) PROVE Keeps
  BY <1>2, <1>9 DEF Consume, GiveUp, tables, world
<1>10. CASE Tick \/ UNCHANGED passkeys
  BY <1>2, <1>10 DEF Tick, passkeys, tables, world
<1>11. ASSUME \E c \in Challenges : ~Issued(c) PROVE Fresh \in Challenges
  BY <1>11 DEF Fresh
<1>. QED
  BY <1>3, <1>4, <1>5, <1>6, <1>7, <1>8, <1>9, <1>10, <1>11 DEF PasskeyNext

(* A step of another leaves alone what a request remembers and has locked. *)
Spares(r) ==
  /\ phase'[r] = phase[r] /\ arg'[r] = arg[r] /\ todo'[r] = todo[r]
  /\ \A c \in Challenges : Holds(r, c) => challenge'[c].used = challenge[c].used

LEMMA StillInOrder ==
  ASSUME Typed, Typed', NEW r \in Requests, InOrder(r), Keeps, Spares(r)
  PROVE  InOrder(r)'
<1>1. todo[r] \subseteq Challenges
  BY DEF Typed, PasskeysTypeOK
<1>2. phase[r] # "idle" => arg[r] # None /\ arg[r].at <= now'
  <2>1. arg[r] # None => arg[r].at \in Nat
    BY DEF Typed, PasskeysTypeOK, Argument, Times
  <2>2. now \in Nat /\ now' \in Nat
    BY DEF Typed, PasskeysTypeOK, Times
  <2>. QED BY <2>1, <2>2 DEF InOrder, Keeps
<1>3. phase[r] = "replacing" => \A c \in todo[r] : challenge'[c] # None /\ ~challenge'[c].used
  BY <1>1 DEF InOrder, Spares, Keeps, Holds, Unused, Issued
<1>4. phase[r] \in {"verified", "consumed"} =>
        /\ arg[r].challenge \in Challenges
        /\ challenge'[arg[r].challenge] # None /\ answer'[arg[r].challenge] # None
        /\ challenge'[arg[r].challenge].session = arg[r].session
        /\ challenge'[arg[r].challenge].purpose = arg[r].purpose
        /\ challenge'[arg[r].challenge].issued = challenge[arg[r].challenge].issued
        /\ challenge'[arg[r].challenge].issued <= arg[r].at
  BY DEF InOrder, Keeps, Issued
<1>5. phase[r] = "consumed" => ~challenge'[arg[r].challenge].used
  BY DEF InOrder, Spares, Holds, Unused
<1>6. phase[r] = "consumed" => ~(arg[r].at >= challenge'[arg[r].challenge].issued + ChallengeTtl)
  BY <1>4 DEF InOrder, Expired
<1>. QED
  BY <1>2, <1>3, <1>4, <1>5, <1>6 DEF InOrder, Spares, Unused, Issued, Expired

LEMMA IdleInOrder ==
  ASSUME Typed, NEW r \in Requests, Idle(r)
  PROVE  InOrder(r)' /\ \A q \in Requests \ {r} : /\ phase'[q] = phase[q] /\ arg'[q] = arg[q]
                                                  /\ todo'[q] = todo[q]
BY DEF Typed, PasskeysTypeOK, Idle, InOrder

LEMMA AskInOrder ==
  ASSUME Typed, NEW r \in Requests, NEW s \in SessionIds, NEW p \in Purposes, Ask(r, s, p)
  PROVE  InOrder(r)'
<1>1. PICK a : a = [session |-> s, purpose |-> p, challenge |-> None, at |-> now]
  OBVIOUS
<1>2. a \in Argument /\ a # None /\ a.at <= now
  <2>1. now \in Times /\ now <= now
    BY PasskeyAssumption DEF Typed, PasskeysTypeOK, Times
  <2>. QED BY <1>1, <2>1, PasskeyAssumption DEF Argument
<1>3. arg'[r] = a /\ phase'[r] = "replacing" /\ UNCHANGED <<now, challenge>>
  BY <1>1 DEF Ask, Typed, PasskeysTypeOK, tables
<1>4. \A c \in todo'[r] : Unused(c)
  BY DEF Ask, Typed, PasskeysTypeOK
<1>. QED BY <1>2, <1>3, <1>4 DEF InOrder, Unused, Issued

LEMMA VerifyInOrder ==
  ASSUME Typed, IssuedBefore, NEW r \in Requests, NEW c \in Challenges, Verify(r, c)
  PROVE  InOrder(r)'
<1>1. PICK a : a = [session |-> challenge[c].session, purpose |-> challenge[c].purpose,
                    challenge |-> c, at |-> now]
  OBVIOUS
<1>2. challenge[c] \in Challenge /\ now \in Times
  BY DEF Verify, Issued, Typed, PasskeysTypeOK
<1>3. a \in Argument /\ a.challenge = c /\ a.at = now
      /\ a.session = challenge[c].session /\ a.purpose = challenge[c].purpose
  BY <1>1, <1>2 DEF Argument, Challenge
<1>4. a # None
  BY <1>3, PasskeyAssumption
<1>5. arg'[r] = a /\ phase'[r] = "verified" /\ UNCHANGED <<now, challenge, answer>>
  BY <1>1 DEF Verify, Typed, PasskeysTypeOK, tables, world
<1>6. challenge[c].issued <= now
  BY DEF IssuedBefore, Verify
<1>7. /\ c \in Challenges /\ challenge'[c] # None /\ answer'[c] # None
      /\ challenge'[c].session = a.session /\ challenge'[c].purpose = a.purpose
      /\ challenge'[c].issued <= a.at /\ a.at <= now'
  <2>1. now <= now
    BY <1>2, PasskeyAssumption DEF Times
  <2>. QED BY <1>3, <1>5, <1>6, <2>1 DEF Verify, Issued
<1>. QED BY <1>3, <1>4, <1>5, <1>7 DEF InOrder, Issued

LEMMA ConsumeInOrder ==
  ASSUME Typed, NEW r \in Requests, InOrder(r), Consume(r)
  PROVE  InOrder(r)'
<1>1. CASE Idle(r)
  BY <1>1, IdleInOrder
<1>2. CASE /\ Consumable(r)
           /\ phase' = [phase EXCEPT ![r] = "consumed"]
           /\ arg' = [arg EXCEPT ![r] = [@ EXCEPT !.at = Date(r)]]
  <2>1. PICK t : t = Date(r)
    OBVIOUS
  <2>2. PICK c : c = arg[r].challenge
    OBVIOUS
  <2>3. PICK a : a = [arg[r] EXCEPT !.at = t]
    OBVIOUS
  <2>4. /\ phase[r] = "verified" /\ arg[r] \in Argument /\ arg[r].at <= now
        /\ c \in Challenges /\ Issued(c) /\ answer[c] # None
        /\ challenge[c].session = arg[r].session /\ challenge[c].purpose = arg[r].purpose
        /\ challenge[c].issued <= arg[r].at
    BY <2>2 DEF Consume, InOrder, Typed, PasskeysTypeOK
  <2>5. now \in Times /\ challenge[c] \in Challenge
    BY <2>4 DEF Issued, Typed, PasskeysTypeOK
  <2>6. t \in Times /\ challenge[c].issued <= t /\ t <= now
    BY <2>1, <2>4, <2>5, PasskeyAssumption DEF Date, Times, Argument, Challenge
  <2>7. a \in Argument /\ a.at = t /\ a.challenge = c
        /\ a.session = arg[r].session /\ a.purpose = arg[r].purpose
    BY <2>2, <2>3, <2>4, <2>6 DEF Argument
  <2>8. a # None
    BY <2>7, PasskeyAssumption
  <2>9. arg'[r] = a /\ phase'[r] = "consumed" /\ UNCHANGED <<now, challenge, answer>>
    BY <1>2, <2>1, <2>3 DEF Consume, Typed, PasskeysTypeOK, tables, world
  <2>10. ~challenge[c].used /\ ~Expired(c, t)
    BY <1>2, <2>1, <2>2 DEF Consumable, Unused
  <2>. QED BY <2>4, <2>6, <2>7, <2>8, <2>9, <2>10 DEF InOrder, Issued, Unused, Expired
<1>. QED BY <1>1, <1>2 DEF Consume

LEMMA NextInOrder ==
  ASSUME Typed, Typed', RequestsInOrder, IssuedBefore, LocksApart, [PasskeyNext]_passkeys
  PROVE  RequestsInOrder'
<1> SUFFICES ASSUME NEW r \in Requests PROVE InOrder(r)'
  BY DEF RequestsInOrder
<1>1. Keeps /\ InOrder(r)
  BY NextKeeps DEF RequestsInOrder
<1>2. CASE Spares(r)
  BY <1>1, <1>2, StillInOrder
<1>3. CASE UNCHANGED <<challenge, phase, arg, todo>>
  BY <1>2, <1>3 DEF Spares
<1>4. ASSUME NEW q \in Requests, NEW s \in SessionIds, NEW p \in Purposes, Ask(q, s, p)
      PROVE  InOrder(r)'
  <2>1. CASE q = r
    BY <1>4, <2>1, AskInOrder
  <2>2. CASE q # r
    BY <1>2, <1>4, <2>2 DEF Ask, tables, Spares, Typed, PasskeysTypeOK
  <2>. QED BY <2>1, <2>2
<1>5. ASSUME NEW q \in Requests, NEW c \in Challenges, Verify(q, c) PROVE InOrder(r)'
  <2>1. CASE q = r
    BY <1>5, <2>1, VerifyInOrder
  <2>2. CASE q # r
    BY <1>2, <1>5, <2>2 DEF Verify, tables, Spares, Typed, PasskeysTypeOK
  <2>. QED BY <2>1, <2>2
<1>6. ASSUME NEW q \in Requests, Consume(q) PROVE InOrder(r)'
  <2>1. CASE q = r
    BY <1>1, <1>6, <2>1, ConsumeInOrder
  <2>2. CASE q # r
    BY <1>2, <1>6, <2>2 DEF Consume, Idle, tables, Spares, Typed, PasskeysTypeOK
  <2>. QED BY <2>1, <2>2
<1>7. ASSUME NEW q \in Requests, GiveUp(q) PROVE InOrder(r)'
  <2>1. CASE q = r
    BY <1>7, <2>1, IdleInOrder DEF GiveUp
  <2>2. CASE q # r
    BY <1>2, <1>7, <2>2 DEF GiveUp, Idle, tables, Spares, Typed, PasskeysTypeOK
  <2>. QED BY <2>1, <2>2
<1>8. ASSUME NEW q \in Requests, NEW c \in Challenges, Issue(q, c) PROVE InOrder(r)'
  <2>1. Idle(q) /\ InOrder(q) /\ phase[q] = "replacing"
    BY <1>8 DEF Issue, RequestsInOrder
  <2>2. CASE q = r
    BY <2>1, <2>2, IdleInOrder
  <2>3. CASE q # r
    <3>1. ASSUME NEW x \in Challenges, Holds(r, x) PROVE challenge'[x] = challenge[x]
      <4>1. x \notin todo[q]
        BY <2>1, <2>3, <3>1 DEF LocksApart, Holds
      <4>2. x # c
        BY <1>1, <1>8, <3>1 DEF Holds, InOrder, Unused, Issue
      <4>. QED BY <1>8, <2>1, <4>1, <4>2, IssueRows
    <3>2. Spares(r)
      BY <2>1, <2>3, <3>1, IdleInOrder DEF Spares
    <3>. QED BY <1>2, <3>2
  <2>. QED BY <2>2, <2>3
<1>9. ASSUME NEW q \in Requests, Register(q) \/ StepUp(q) PROVE InOrder(r)'
  <2>1. Accept(q) /\ Idle(q) /\ InOrder(q) /\ phase[q] = "consumed"
    BY <1>9 DEF Register, StepUp, Accept, RequestsInOrder
  <2>2. CASE q = r
    BY <2>1, <2>2, IdleInOrder
  <2>3. CASE q # r
    <3>1. PICK c, used : c \in Challenges /\ used \in Challenge /\ Accepts(q, c, used)
      BY <2>1, AcceptRows
    <3>2. ~Holds(r, c)
      BY <2>1, <2>3, <3>1 DEF LocksApart, Holds, Accepts
    <3>3. \A x \in Challenges : Holds(r, x) => challenge'[x] = challenge[x]
      BY <3>1, <3>2 DEF Accepts, Typed, PasskeysTypeOK
    <3>4. Spares(r)
      BY <2>1, <2>3, <3>3, IdleInOrder DEF Spares
    <3>. QED BY <1>2, <3>4
  <2>. QED BY <2>2, <2>3
<1>10. ASSUME \E c \in Challenges : ~Issued(c) PROVE Fresh \in Challenges
  BY <1>10 DEF Fresh
<1>11. ASSUME NEW s \in SessionIds, SignIn(s) PROVE InOrder(r)'
  BY <1>3, <1>11 DEF SignIn, tables, locals
<1>12. ASSUME NEW c \in Challenges, NEW d \in Devices, Sign(c, d) PROVE InOrder(r)'
  BY <1>3, <1>12 DEF Sign, tables, locals
<1>13. CASE Tick \/ UNCHANGED passkeys
  BY <1>3, <1>13 DEF Tick, passkeys, tables, locals
<1>. QED
  BY <1>4, <1>5, <1>6, <1>7, <1>8, <1>9, <1>10, <1>11, <1>12, <1>13 DEF PasskeyNext

(* The locks of the next state.                                            *)
HoldsNext(r, c) == \/ phase'[r] = "consumed" /\ arg'[r].challenge = c
                   \/ phase'[r] = "replacing" /\ c \in todo'[r]

(* A request only locks rows that are free.                                *)
LocksTaken(q) ==
  /\ \A r \in Requests \ {q} : \A c \in Challenges : HoldsNext(r, c) => Holds(r, c)
  /\ \A c \in Challenges : HoldsNext(q, c) => Holds(q, c) \/ Free(q, c)

LEMMA TakenApart ==
  ASSUME LocksApart, NEW q \in Requests, LocksTaken(q)
  PROVE  LocksApart'
<1>1. ASSUME NEW r1 \in Requests, NEW r2 \in Requests, r1 # r2, NEW c \in Challenges
      PROVE  ~(HoldsNext(r1, c) /\ HoldsNext(r2, c))
  <2>1. CASE r1 # q /\ r2 # q
    BY <1>1, <2>1 DEF LocksTaken, LocksApart
  <2>2. CASE r1 = q
    BY <1>1, <2>2 DEF LocksTaken, LocksApart, Free
  <2>3. CASE r2 = q
    BY <1>1, <2>3 DEF LocksTaken, LocksApart, Free
  <2>. QED BY <2>1, <2>2, <2>3
<1>. QED BY <1>1 DEF LocksApart, Holds, HoldsNext

LEMMA NextApart ==
  ASSUME Typed, LocksApart, [PasskeyNext]_passkeys
  PROVE  LocksApart'
<1> USE DEF Typed, PasskeysTypeOK
<1>1. CASE UNCHANGED <<phase, arg, todo>>
  BY <1>1 DEF LocksApart, Holds
<1>2. ASSUME NEW q \in Requests, Idle(q) PROVE LocksApart'
  <2>1. LocksTaken(q)
    BY <1>2 DEF Idle, LocksTaken, HoldsNext, Holds
  <2>. QED BY <2>1, TakenApart
<1>3. ASSUME NEW q \in Requests, NEW s \in SessionIds, NEW p \in Purposes, Ask(q, s, p)
      PROVE  LocksApart'
  <2>1. LocksTaken(q)
    BY <1>3 DEF Ask, LocksTaken, HoldsNext, Holds
  <2>. QED BY <2>1, TakenApart
<1>4. ASSUME NEW q \in Requests, NEW c \in Challenges, Verify(q, c) PROVE LocksApart'
  <2>1. LocksTaken(q)
    BY <1>4 DEF Verify, LocksTaken, HoldsNext, Holds
  <2>. QED BY <2>1, TakenApart
<1>5. ASSUME NEW q \in Requests, Consume(q) PROVE LocksApart'
  <2>1. CASE /\ phase' = [phase EXCEPT ![q] = "consumed"]
             /\ arg' = [arg EXCEPT ![q] = [@ EXCEPT !.at = Date(q)]]
             /\ UNCHANGED todo
    <3>1. PICK a : a = [arg[q] EXCEPT !.at = Date(q)]
      OBVIOUS
    <3>2. PICK b : b = arg[q]
      OBVIOUS
    <3>3. a.challenge = b.challenge
      BY <1>5, <3>1, <3>2 DEF Consume, Argument
    <3>4. arg' = [arg EXCEPT ![q] = a]
      BY <2>1, <3>1
    <3>5. Free(q, a.challenge)
      BY <1>5, <3>2, <3>3 DEF Consume
    <3>6. LocksTaken(q)
      BY <2>1, <3>4, <3>5 DEF LocksTaken, HoldsNext, Holds
    <3>. QED BY <3>6, TakenApart
  <2>. QED BY <1>2, <1>5, <2>1 DEF Consume
<1>. QED
  BY <1>1, <1>2, <1>3, <1>4, <1>5 DEF PasskeyNext, passkeys, locals, SignIn, Sign, Tick, Issue,
     Register, StepUp, Accept, GiveUp

(***************************************************************************)
(* The challenges                                                          *)
(***************************************************************************)
(* A step that writes no challenge, and one that does.                     *)
LEMMA ChallengeSteps ==
  ASSUME Typed, RequestsInOrder, [PasskeyNext]_passkeys
  PROVE  \/ UNCHANGED <<challenge, accepted, replaced>>
         \/ \E r \in Requests : \E c \in Challenges : Issue(r, c)
         \/ \E r \in Requests : /\ (Register(r) \/ StepUp(r)) /\ Accept(r) /\ Idle(r)
                                /\ phase[r] = "consumed" /\ replaced' = replaced
<1>1. ASSUME \E c \in Challenges : ~Issued(c) PROVE Fresh \in Challenges
  BY <1>1 DEF Fresh
<1>2. CASE \/ \E s \in SessionIds : SignIn(s)
           \/ \E c \in Challenges, d \in Devices : Sign(c, d)
           \/ Tick \/ UNCHANGED passkeys
  BY <1>2 DEF SignIn, Sign, Tick, passkeys, tables, history
<1>3. ASSUME NEW r \in Requests,
             \/ \E s \in SessionIds, p \in Purposes : Ask(r, s, p)
             \/ \E c \in Challenges : Verify(r, c)
             \/ Consume(r) \/ GiveUp(r)
      PROVE  UNCHANGED <<challenge, accepted, replaced>>
  BY <1>3 DEF Ask, Verify, Consume, GiveUp, tables, history
<1>4. ASSUME NEW r \in Requests, Register(r) \/ StepUp(r)
      PROVE  Accept(r) /\ Idle(r) /\ phase[r] = "consumed" /\ replaced' = replaced
  BY <1>4 DEF Register, StepUp, Accept
<1>. QED BY <1>1, <1>2, <1>3, <1>4 DEF PasskeyNext

LEMMA NextIssued ==
  ASSUME Typed, Typed', RequestsInOrder, IssuedBefore, [PasskeyNext]_passkeys
  PROVE  IssuedBefore'
<1> SUFFICES ASSUME NEW x \in Challenges, challenge'[x] # None
             PROVE  challenge'[x].issued <= now'
  BY DEF IssuedBefore, Issued
<1>1. Keeps
  BY NextKeeps
<1>2. CASE challenge[x] # None
  <2>1. challenge[x].issued \in Nat /\ now \in Nat /\ now' \in Nat
    BY <1>2 DEF Typed, PasskeysTypeOK, Times, Challenge
  <2>. QED BY <1>1, <1>2, <2>1 DEF Keeps, IssuedBefore, Issued
<1>3. ASSUME NEW r \in Requests, NEW c \in Challenges, Issue(r, c), challenge[x] = None
      PROVE  challenge'[x].issued <= now'
  <2>1. InOrder(r) /\ phase[r] = "replacing" /\ now' = now
    BY <1>3 DEF RequestsInOrder, Issue
  <2>2. CASE x = c
    BY <1>3, <2>1, <2>2, IssueRows DEF Inserts, InOrder
  <2>3. CASE x # c
    <3>1. x \notin todo[r]
      BY <1>3, <2>1 DEF InOrder, Unused, Issued
    <3>. QED BY <1>3, <2>1, <2>3, <3>1, IssueRows
  <2>. QED BY <2>2, <2>3
<1>4. ASSUME NEW r \in Requests, Accept(r), phase[r] = "consumed", challenge[x] = None
      PROVE  challenge'[x].issued <= now'
  <2>1. PICK c, used : c \in Challenges /\ used \in Challenge /\ Accepts(r, c, used)
    BY <1>4, AcceptRows DEF RequestsInOrder
  <2>2. x # c
    BY <1>4, <2>1, PasskeyAssumption DEF Accepts
  <2>. QED BY <1>4, <2>1, <2>2 DEF Accepts, Typed, PasskeysTypeOK
<1>. QED BY <1>2, <1>3, <1>4, ChallengeSteps

(* The challenge of an accepted request was unused, so that it had no end. *)
LEMMA NextEndOnce ==
  ASSUME Typed, Typed', RequestsInOrder, ChallengesEndOnce, EndedWereIssued,
         [PasskeyNext]_passkeys
  PROVE  ChallengesEndOnce' /\ EndedWereIssued'
<1> SUFFICES ASSUME NEW x \in Challenges
             PROVE  /\ accepted'[x] <= 1
                    /\ accepted'[x] = 1 => x \notin replaced'
                    /\ challenge'[x] # None =>
                         (challenge'[x].used <=> accepted'[x] = 1 \/ x \in replaced')
                    /\ challenge'[x] = None => accepted'[x] = 0 /\ x \notin replaced'
  BY DEF ChallengesEndOnce, EndedWereIssued, Issued
<1>1. /\ accepted[x] <= 1 /\ (accepted[x] = 1 => x \notin replaced)
      /\ challenge[x] # None => (challenge[x].used <=> accepted[x] = 1 \/ x \in replaced)
      /\ challenge[x] = None => accepted[x] = 0 /\ x \notin replaced
      /\ accepted[x] \in Nat
  BY DEF ChallengesEndOnce, EndedWereIssued, Issued, Typed, PasskeysTypeOK
<1>2. CASE UNCHANGED <<challenge, accepted, replaced>>
  BY <1>1, <1>2
<1>3. None \notin Challenge
  BY PasskeyAssumption
<1>4. ASSUME NEW r \in Requests, NEW c \in Challenges, Issue(r, c)
      PROVE  /\ accepted'[x] <= 1 /\ (accepted'[x] = 1 => x \notin replaced')
             /\ challenge'[x] # None =>
                  (challenge'[x].used <=> accepted'[x] = 1 \/ x \in replaced')
             /\ challenge'[x] = None => accepted'[x] = 0 /\ x \notin replaced'
  <2>1. /\ InOrder(r) /\ accepted' = accepted /\ replaced' = replaced \cup todo[r]
    BY <1>4 DEF RequestsInOrder, Issue
  <2>2. CASE x = c
    <3>1. Inserts(r, c) /\ c \notin todo[r]
      BY <1>4, <2>1, IssueRows
    <3>. QED BY <1>1, <1>3, <2>1, <2>2, <3>1 DEF Inserts
  <2>3. CASE x \in todo[r]
    <3>1. SetsAside(x)
      BY <1>4, <2>1, <2>3, IssueRows
    <3>. QED BY <1>1, <1>3, <2>1, <2>3, <3>1 DEF SetsAside
  <2>4. CASE x # c /\ x \notin todo[r]
    <3>1. challenge'[x] = challenge[x]
      BY <1>4, <2>1, <2>4, IssueRows
    <3>. QED BY <1>1, <2>1, <2>4, <3>1
  <2>. QED BY <2>2, <2>3, <2>4
<1>5. ASSUME NEW r \in Requests, Accept(r), phase[r] = "consumed", replaced' = replaced
      PROVE  /\ accepted'[x] <= 1 /\ (accepted'[x] = 1 => x \notin replaced')
             /\ challenge'[x] # None =>
                  (challenge'[x].used <=> accepted'[x] = 1 \/ x \in replaced')
             /\ challenge'[x] = None => accepted'[x] = 0 /\ x \notin replaced'
  <2>1. PICK c, used : c \in Challenges /\ used \in Challenge /\ Accepts(r, c, used)
    BY <1>5, AcceptRows DEF RequestsInOrder
  <2>2. CASE x = c
    <3>1. challenge'[x] = used /\ accepted'[x] = accepted[x] + 1 /\ used.used = TRUE
      BY <2>1, <2>2 DEF Accepts, Typed, PasskeysTypeOK
    <3>2. challenge[x] # None /\ ~challenge[x].used
      BY <1>3, <2>1, <2>2 DEF Accepts
    <3>3. accepted[x] = 0 /\ x \notin replaced
      BY <1>1, <3>2
    <3>. QED BY <1>3, <1>5, <2>1, <3>1, <3>3
  <2>3. CASE x # c
    <3>1. challenge'[x] = challenge[x] /\ accepted'[x] = accepted[x]
      BY <2>1, <2>3 DEF Accepts, Typed, PasskeysTypeOK
    <3>. QED BY <1>1, <1>5, <3>1
  <2>. QED BY <2>2, <2>3
<1>. QED BY <1>2, <1>4, <1>5, ChallengeSteps

(***************************************************************************)
(* Verification and authorization                                          *)
(***************************************************************************)
(* Nothing but a step-up marks a session, and it marks one it verifies.    *)
Marks ==
  /\ \A s \in SessionIds : verified[s] \subseteq verified'[s]
  /\ \A s \in SessionIds : login[s] # None => login'[s] = login[s]
  /\ \A c \in Challenges : accepted[c] = 1 => accepted'[c] = 1

LEMMA NextMarks ==
  ASSUME Typed, RequestsInOrder, ChallengesEndOnce, [PasskeyNext]_passkeys
  PROVE  Marks
<1> USE DEF Typed, PasskeysTypeOK
<1>1. UNCHANGED login \/ \E s \in SessionIds : SignIn(s)
  BY DEF PasskeyNext, passkeys, Ask, Issue, Verify, Consume, Register, StepUp, GiveUp, Sign,
     Tick, world
<1>2. \A s \in SessionIds : login[s] # None => login'[s] = login[s]
  BY <1>1 DEF SignIn
<1>3. UNCHANGED verified \/ \E r \in Requests : StepUp(r)
  BY DEF PasskeyNext, passkeys, Ask, Issue, Verify, Consume, Register, SignIn, GiveUp, Sign,
     Tick, history
<1>4. ASSUME NEW s \in SessionIds, NEW r \in Requests, StepUp(r)
      PROVE  verified[s] \subseteq verified'[s]
  <2>1. PICK z, t : z = arg[r].session /\ t = arg[r].at
    OBVIOUS
  <2>2. verified' = [verified EXCEPT ![z] = verified[z] \cup {t}]
    BY <1>4, <2>1 DEF StepUp
  <2>. QED BY <2>2
<1>5. ASSUME NEW c \in Challenges, accepted[c] = 1 PROVE accepted'[c] = 1
  <2>1. CASE UNCHANGED accepted
    BY <1>5, <2>1
  <2>2. ASSUME NEW r \in Requests, Accept(r), phase[r] = "consumed" PROVE accepted'[c] = 1
    <3>1. PICK d, used : d \in Challenges /\ used \in Challenge /\ Accepts(r, d, used)
      BY <2>2, AcceptRows DEF RequestsInOrder
    <3>2. d # c
      BY <1>5, <3>1, PasskeyAssumption DEF ChallengesEndOnce, Issued, Accepts
    <3>. QED BY <1>5, <3>1, <3>2 DEF Accepts
  <2>3. ASSUME NEW r \in Requests, NEW d \in Challenges, Issue(r, d) PROVE accepted'[c] = 1
    BY <1>5, <2>3 DEF Issue
  <2>. QED BY <2>1, <2>2, <2>3, ChallengeSteps
<1>. QED BY <1>2, <1>3, <1>4, <1>5 DEF Marks

(* What a step-up does to its session.                                     *)
Marked(r, s, t) ==
  /\ s = arg[r].session /\ t = arg[r].at
  /\ s \in SessionIds /\ t \in Times /\ t <= now
  /\ stepUp' = [stepUp EXCEPT ![s] = t]
  /\ verified' = [verified EXCEPT ![s] = verified[s] \cup {t}]
  /\ now' = now

LEMMA StepUpRows ==
  ASSUME Typed, NEW r \in Requests, InOrder(r), StepUp(r)
  PROVE  \E s, t : Marked(r, s, t)
<1>1. PICK s, t : s = arg[r].session /\ t = arg[r].at
  OBVIOUS
<1>2. s \in SessionIds /\ t \in Times /\ t <= now
  BY <1>1 DEF StepUp, InOrder, Typed, PasskeysTypeOK, Argument
<1>3. /\ stepUp' = [stepUp EXCEPT ![s] = t] /\ now' = now
      /\ verified' = [verified EXCEPT ![s] = verified[s] \cup {t}]
  BY <1>1 DEF StepUp
<1>. QED BY <1>1, <1>2, <1>3 DEF Marked

LEMMA StepUpSteps ==
  ASSUME [PasskeyNext]_passkeys
  PROVE  UNCHANGED <<stepUp, verified>> \/ \E r \in Requests : StepUp(r)
BY DEF PasskeyNext, passkeys, Ask, Issue, Verify, Consume, Register, SignIn, GiveUp, Sign,
   Tick, history, tables

LEMMA NextMarked ==
  ASSUME Typed, Typed', RequestsInOrder, MarksAreVerified, [PasskeyNext]_passkeys
  PROVE  MarksAreVerified'
<1> SUFFICES ASSUME NEW s \in SessionIds, stepUp'[s] # None
             PROVE  stepUp'[s] \in verified'[s] /\ stepUp'[s] <= now'
  BY DEF MarksAreVerified
<1>1. CASE UNCHANGED <<stepUp, verified>>
  <2>1. stepUp[s] \in verified[s] /\ stepUp[s] <= now
    BY <1>1 DEF MarksAreVerified
  <2>2. stepUp[s] \in Nat /\ now \in Nat /\ now' \in Nat /\ now <= now'
    BY <1>1, NextKeeps DEF Typed, PasskeysTypeOK, Times, Keeps
  <2>. QED BY <1>1, <2>1, <2>2
<1>2. ASSUME NEW r \in Requests, StepUp(r)
      PROVE  stepUp'[s] \in verified'[s] /\ stepUp'[s] <= now'
  <2>1. PICK z, t : Marked(r, z, t)
    BY <1>2, StepUpRows DEF RequestsInOrder
  <2>2. CASE s = z
    BY <2>1, <2>2 DEF Marked, Typed, PasskeysTypeOK
  <2>3. CASE s # z
    BY <2>1, <2>3 DEF Marked, MarksAreVerified, Typed, PasskeysTypeOK
  <2>. QED BY <2>2, <2>3
<1>. QED BY <1>1, <1>2, StepUpSteps

LEMMA NextVerified ==
  ASSUME Typed, Typed', RequestsInOrder, ChallengesEndOnce, VerifiedByOwnChallenge,
         [PasskeyNext]_passkeys
  PROVE  VerifiedByOwnChallenge'
<1> SUFFICES ASSUME NEW s \in SessionIds, stepUp'[s] # None
             PROVE  \E c \in Challenges :
                      /\ challenge'[c] # None /\ challenge'[c].session = s
                      /\ challenge'[c].purpose = "STEP_UP"
                      /\ accepted'[c] = 1 /\ challenge'[c].issued <= stepUp'[s]
                      /\ ~(stepUp'[s] >= challenge'[c].issued + ChallengeTtl)
  BY DEF VerifiedByOwnChallenge, Of, Issued, Expired
<1>1. Keeps /\ Marks
  BY NextKeeps, NextMarks
<1>2. CASE stepUp'[s] = stepUp[s]
  <2>1. PICK c \in Of(s, "STEP_UP") : /\ accepted[c] = 1
                                      /\ challenge[c].issued <= stepUp[s]
                                      /\ ~Expired(c, stepUp[s])
    BY <1>2 DEF VerifiedByOwnChallenge
  <2>2. /\ c \in Challenges /\ challenge[c] # None /\ challenge[c].session = s
        /\ challenge[c].purpose = "STEP_UP"
    BY <2>1 DEF Of, Issued
  <2>3. /\ challenge'[c] # None /\ challenge'[c].session = challenge[c].session
        /\ challenge'[c].purpose = challenge[c].purpose
        /\ challenge'[c].issued = challenge[c].issued /\ accepted'[c] = 1
    BY <1>1, <2>1, <2>2 DEF Keeps, Marks
  <2>4. ~(stepUp[s] >= challenge[c].issued + ChallengeTtl)
    BY <2>1 DEF Expired
  <2>. QED BY <1>2, <2>1, <2>2, <2>3, <2>4
<1>3. ASSUME NEW r \in Requests, StepUp(r), stepUp'[s] # stepUp[s]
      PROVE  \E c \in Challenges :
                /\ challenge'[c] # None /\ challenge'[c].session = s
                /\ challenge'[c].purpose = "STEP_UP"
                /\ accepted'[c] = 1 /\ challenge'[c].issued <= stepUp'[s]
                /\ ~(stepUp'[s] >= challenge'[c].issued + ChallengeTtl)
  <2>1. InOrder(r) /\ Accept(r) /\ phase[r] = "consumed" /\ arg[r].purpose = "STEP_UP"
    BY <1>3 DEF RequestsInOrder, StepUp
  <2>2. PICK z, t : Marked(r, z, t)
    BY <1>3, <2>1, StepUpRows
  <2>3. s = z /\ stepUp'[s] = t
    BY <1>3, <2>2 DEF Marked, Typed, PasskeysTypeOK
  <2>4. PICK c, used : c \in Challenges /\ used \in Challenge /\ Accepts(r, c, used)
    BY <2>1, AcceptRows
  <2>5. /\ challenge[c] # None /\ challenge[c].session = s /\ challenge[c].purpose = "STEP_UP"
        /\ challenge[c].issued <= t /\ ~(t >= challenge[c].issued + ChallengeTtl)
    BY <2>1, <2>2, <2>3, <2>4 DEF InOrder, Accepts, Marked, Issued, Expired
  <2>6. /\ challenge'[c] # None /\ challenge'[c].session = challenge[c].session
        /\ challenge'[c].purpose = challenge[c].purpose
        /\ challenge'[c].issued = challenge[c].issued
    BY <1>1, <2>4, <2>5 DEF Keeps
  <2>7. accepted'[c] = 1
    <3>1. accepted[c] <= 1 /\ (accepted[c] = 1 => challenge[c].used)
      BY <2>4, <2>5 DEF ChallengesEndOnce, Issued
    <3>2. ~challenge[c].used /\ accepted[c] \in Nat
      BY <2>4 DEF Accepts, Typed, PasskeysTypeOK
    <3>3. accepted[c] = 0
      BY <3>1, <3>2
    <3>. QED BY <2>4, <3>3 DEF Accepts, Typed, PasskeysTypeOK
  <2>. QED BY <2>3, <2>4, <2>5, <2>6, <2>7
<1>. QED BY <1>2, <1>3, StepUpSteps

LEMMA StillAuthorized ==
  ASSUME Marks, NEW s \in SessionIds, NEW t, MayRegister(s, t)
  PROVE  MayRegister(s, t)'
BY DEF Marks, MayRegister

LEMMA AskAuthorized ==
  ASSUME Typed, MarksAreVerified, NEW s \in SessionIds, Authorized(s)
  PROVE  MayRegister(s, now)
BY DEF Authorized, Recent, Within, MayRegister, MarksAreVerified

LEMMA ReplacingSteps ==
  ASSUME Typed, [PasskeyNext]_passkeys, NEW r \in Requests, phase'[r] = "replacing"
  PROVE  \/ phase[r] = "replacing" /\ arg'[r] = arg[r]
         \/ \E s \in SessionIds, p \in Purposes : Ask(r, s, p)
<1> USE DEF Typed, PasskeysTypeOK
<1>1. CASE UNCHANGED locals
  BY <1>1 DEF locals
<1>2. ASSUME NEW q \in Requests, Idle(q) PROVE phase[r] = "replacing" /\ arg'[r] = arg[r]
  BY <1>2 DEF Idle
<1>3. ASSUME NEW q \in Requests, NEW c \in Challenges, Verify(q, c)
      PROVE  phase[r] = "replacing" /\ arg'[r] = arg[r]
  BY <1>3 DEF Verify
<1>4. ASSUME NEW q \in Requests, Consume(q) PROVE phase[r] = "replacing" /\ arg'[r] = arg[r]
  BY <1>2, <1>4 DEF Consume
<1>5. ASSUME NEW q \in Requests, NEW s \in SessionIds, NEW p \in Purposes, Ask(q, s, p)
      PROVE  \/ phase[r] = "replacing" /\ arg'[r] = arg[r]
             \/ q = r
  BY <1>5 DEF Ask
<1>. QED
  BY <1>1, <1>2, <1>3, <1>4, <1>5 DEF PasskeyNext, passkeys, locals, Issue, Register, StepUp,
     Accept, GiveUp, Sign, SignIn, Tick

LEMMA NextAuthorized ==
  ASSUME Typed, Typed', RequestsInOrder, MarksAreVerified, RegistrationsAuthorized,
         ChallengesEndOnce, [PasskeyNext]_passkeys
  PROVE  RegistrationsAuthorized'
<1>1. Keeps /\ Marks
  BY NextKeeps, NextMarks
<1>2. ASSUME NEW c \in Challenges, challenge'[c] # None, challenge'[c].purpose = "REGISTRATION",
             NEW s, s = challenge'[c].session, NEW t, t = challenge'[c].issued
      PROVE  MayRegister(s, t)'
  <2>1. CASE challenge[c] # None
    <3>1. s = challenge[c].session /\ t = challenge[c].issued /\ challenge[c].purpose = "REGISTRATION"
      BY <1>1, <1>2, <2>1 DEF Keeps
    <3>2. s \in SessionIds
      BY <2>1, <3>1 DEF Typed, PasskeysTypeOK, Challenge
    <3>3. MayRegister(s, t)
      BY <2>1, <3>1 DEF RegistrationsAuthorized, Issued
    <3>. QED BY <1>1, <3>2, <3>3, StillAuthorized
  <2>2. ASSUME NEW r \in Requests, NEW d \in Challenges, Issue(r, d), challenge[c] = None
        PROVE  MayRegister(s, t)'
    <3>1. InOrder(r) /\ phase[r] = "replacing"
      BY <2>2 DEF RequestsInOrder, Issue
    <3>2. c = d
      <4>1. CASE c \in todo[r]
        BY <2>2, <3>1, <4>1 DEF InOrder, Unused, Issued
      <4>2. CASE c \notin todo[r] /\ c # d
        BY <1>2, <2>2, <3>1, <4>2, IssueRows
      <4>. QED BY <4>1, <4>2
    <3>3. Inserts(r, c)
      BY <2>2, <3>1, <3>2, IssueRows
    <3>4. s = arg[r].session /\ t = arg[r].at /\ arg[r].purpose = "REGISTRATION"
      BY <1>2, <3>3 DEF Inserts
    <3>5. s \in SessionIds
      BY <3>1, <3>4 DEF InOrder, Typed, PasskeysTypeOK, Argument
    <3>6. MayRegister(s, t)
      BY <3>1, <3>4 DEF RegistrationsAuthorized
    <3>. QED BY <1>1, <3>5, <3>6, StillAuthorized
  <2>3. ASSUME NEW r \in Requests, Accept(r), phase[r] = "consumed" PROVE challenge[c] # None
    <3>1. PICK d, used : d \in Challenges /\ used \in Challenge /\ Accepts(r, d, used)
      BY <2>3, AcceptRows DEF RequestsInOrder
    <3>. QED BY <1>2, <3>1, PasskeyAssumption DEF Accepts, Typed, PasskeysTypeOK
  <2>. QED BY <1>2, <2>1, <2>2, <2>3, ChallengeSteps
<1>3. ASSUME NEW r \in Requests, phase'[r] = "replacing", arg'[r].purpose = "REGISTRATION",
             NEW s, s = arg'[r].session, NEW t, t = arg'[r].at
      PROVE  MayRegister(s, t)'
  <2>1. CASE phase[r] = "replacing" /\ arg'[r] = arg[r]
    <3>1. MayRegister(s, t)
      BY <1>3, <2>1 DEF RegistrationsAuthorized
    <3>2. s \in SessionIds
      BY <1>3, <2>1 DEF RequestsInOrder, InOrder, Typed, PasskeysTypeOK, Argument
    <3>. QED BY <1>1, <3>1, <3>2, StillAuthorized
  <2>2. ASSUME NEW z \in SessionIds, NEW p \in Purposes, Ask(r, z, p) PROVE MayRegister(s, t)'
    <3>1. arg'[r] = [session |-> z, purpose |-> p, challenge |-> None, at |-> now]
      BY <2>2 DEF Ask, Typed, PasskeysTypeOK
    <3>2. s = z /\ t = now /\ p = "REGISTRATION"
      BY <1>3, <3>1
    <3>3. MayRegister(s, t)
      BY <2>2, <3>2, AskAuthorized DEF Ask
    <3>. QED BY <1>1, <3>2, <3>3, StillAuthorized
  <2>. QED BY <1>3, <2>1, <2>2, ReplacingSteps
<1>. QED BY <1>2, <1>3 DEF RegistrationsAuthorized, Issued, MayRegister

LEMMA PasskeyInvariance ==
  ASSUME PasskeyInvariant, [PasskeyNext]_passkeys
  PROVE  PasskeyInvariant'
<1> USE DEF PasskeyInvariant
<1>1. Typed'
  BY PasskeyNextType
<1>2. RequestsInOrder' /\ IssuedBefore' /\ LocksApart'
  BY <1>1, NextInOrder, NextIssued, NextApart
<1>3. ChallengesEndOnce' /\ EndedWereIssued'
  BY <1>1, NextEndOnce
<1>4. VerifiedByOwnChallenge' /\ MarksAreVerified' /\ RegistrationsAuthorized'
  BY <1>1, NextVerified, NextMarked, NextAuthorized
<1>. QED BY <1>1, <1>2, <1>3, <1>4

(* The authorization of a challenge lasts while the challenge does.        *)
LEMMA RegisterAuthorized ==
  ASSUME PasskeyInvariant, NEW r \in Requests, Register(r)
  PROVE  \/ arg[r].at - login[arg[r].session] < LoginTtl + ChallengeTtl
         \/ \E t \in verified[arg[r].session] : arg[r].at - t < StepUpTtl + ChallengeTtl
<1>1. PICK c, s, i, at : /\ c = arg[r].challenge /\ s = arg[r].session /\ at = arg[r].at
                         /\ i = challenge[c].issued
  OBVIOUS
<1>2. /\ phase[r] = "consumed" /\ InOrder(r) /\ arg[r] \in Argument
      /\ arg[r].purpose = "REGISTRATION"
  BY DEF Register, PasskeyInvariant, Typed, PasskeysTypeOK, RequestsInOrder, InOrder
<1>3. /\ c \in Challenges /\ challenge[c] \in Challenge /\ challenge[c].session = s
      /\ challenge[c].purpose = "REGISTRATION" /\ at < i + ChallengeTtl
  BY <1>1, <1>2, PasskeyAssumption DEF InOrder, Issued, Expired, Argument, Challenge, Times,
     PasskeyInvariant, Typed, PasskeysTypeOK
<1>4. MayRegister(s, i)
  BY <1>1, <1>3, PasskeyAssumption DEF PasskeyInvariant, RegistrationsAuthorized, Issued
<1>5. /\ s \in SessionIds /\ i \in Nat /\ at \in Nat /\ verified[s] \subseteq Nat
      /\ login[s] # None => login[s] \in Nat
  BY <1>1, <1>2, <1>3 DEF Argument, Challenge, Times, PasskeyInvariant, Typed, PasskeysTypeOK
<1>6. CASE login[s] # None /\ i - login[s] <= LoginTtl
  <2>1. at - login[s] < LoginTtl + ChallengeTtl
    BY <1>3, <1>5, <1>6, PasskeyAssumption
  <2>. QED BY <1>1, <2>1
<1>7. ASSUME NEW u \in verified[s], i - u <= StepUpTtl
      PROVE  at - u < StepUpTtl + ChallengeTtl
  BY <1>3, <1>5, <1>7, PasskeyAssumption
<1>. QED BY <1>1, <1>4, <1>6, <1>7 DEF MayRegister

(* No challenge is accepted twice, nor accepted and set aside, whatever    *)
(* requests overlap.                                                       *)
THEOREM EndsOnce == PasskeySpec => []ChallengesEndOnce
<1>1. PasskeyInvariant => ChallengesEndOnce
  BY DEF PasskeyInvariant
<1>. QED BY <1>1, PasskeyInitInvariant, PasskeyInvariance, PTL DEF PasskeySpec

(* A session is marked as verified by a challenge of its own that was open *)
(* then.                                                                   *)
THEOREM OwnChallenge == PasskeySpec => []VerifiedByOwnChallenge
<1>1. PasskeyInvariant => VerifiedByOwnChallenge
  BY DEF PasskeyInvariant
<1>. QED BY <1>1, PasskeyInitInvariant, PasskeyInvariance, PTL DEF PasskeySpec

(* A passkey is added while the authorization of its challenge lasts.      *)
THEOREM AuthorizedAdditions == PasskeySpec => AddedWhileAuthorized
<1>1. PasskeyInvariant =>
        \A r \in Requests : Register(r) =>
           LET used == arg[r].at
               s    == arg[r].session IN
           \/ used - login[s] < LoginTtl + ChallengeTtl
           \/ \E t \in verified[s] : used - t < StepUpTtl + ChallengeTtl
  BY RegisterAuthorized
<1>. QED
  BY <1>1, PasskeyInitInvariant, PasskeyInvariance, PTL DEF PasskeySpec, AddedWhileAuthorized

(***************************************************************************)
(* The risk policy                                                         *)
(***************************************************************************)


Asked == [fields: Patches, session: SessionIds, asked: Times]

PolicyTypes ==
  /\ policy \in Policy \cup {None} /\ policies \subseteq Policy
  /\ work \in [Requests -> Works] /\ seen \in [Requests -> Policy \cup {None}]
  /\ patch \in [Requests -> Asked \cup {None}]
  /\ \A a \in assessments : a.level \in {"LOW", "MEDIUM", "HIGH"}

(* The row is the last of those that were ever committed.                  *)
RowsInOrder ==
  /\ policy = None => policies = {}
  /\ policy # None => policy \in policies /\ \A p \in policies : p.version <= policy.version
  /\ \A p, q \in policies : p.version = q.version => p = q

(* The row is inserted by one transaction while there is none, and what    *)
(* another has read was committed.                                         *)
WorkInOrder == \A r \in Requests :
  /\ work[r] = "inserted" => /\ policy = None /\ seen[r] = Defaults
                             /\ \A q \in Requests : work[q] = "inserted" => q = r
  /\ work[r] = "read" => policy # None /\ seen[r] \in policies

AssessmentsInOrder == \A a \in assessments :
  \E p \in policies : p.version = a.version /\ a.level = Evaluate(p, a.facts)

(* A change under way passed the guard when it was asked for.              *)
PatchesVerified == \A r \in Requests :
  patch[r] # None => \E t \in verified[patch[r].session] :
     t <= patch[r].asked /\ patch[r].asked - t <= StepUpTtl

ChangesOfSessions == \A ch \in changes : ch.session \in SessionIds

Invariant ==
  /\ PasskeyInvariant /\ PolicyTypes /\ RowsInOrder /\ WorkInOrder /\ AssessmentsInOrder
  /\ ThresholdsOrdered /\ PatchesVerified /\ PolicyChangesVerified
  /\ ChangesOfSessions

LEMMA InitInvariant ==
  ASSUME Init
  PROVE  Invariant
<1>1. PasskeyInvariant
  BY PasskeyInitInvariant DEF Init
<1>2. PolicyTypes
  BY DEF Init, PolicyTypes, Works
<1>3. /\ RowsInOrder /\ WorkInOrder /\ AssessmentsInOrder /\ ThresholdsOrdered
      /\ PatchesVerified /\ PolicyChangesVerified /\ ChangesOfSessions
  BY DEF Init, RowsInOrder, WorkInOrder, AssessmentsInOrder, ThresholdsOrdered, PatchesVerified,
     PolicyChangesVerified, ChangesOfSessions
<1>. QED BY <1>1, <1>2, <1>3 DEF Invariant

(***************************************************************************)
(* The rows                                                                *)
(***************************************************************************)
LEMMA RowType ==
  ASSUME PolicyTypes, WorkInOrder, NEW r \in Requests, HasRow(r)
  PROVE  Row(r) \in Policy /\ seen[r] \in Policy
BY PolicyAssumption DEF PolicyTypes, WorkInOrder, HasRow, Row

(* The row that an UPDATE makes.                                           *)
LEMMA PatchedType ==
  ASSUME PolicyTypes, WorkInOrder, NEW r \in Requests, HasRow(r), patch[r] # None,
         NextVersion(r) <= MaxVersion
  PROVE  /\ Patched(r) \in Policy /\ Patched(r).version = Row(r).version + 1
<1>1. PICK row : row = Row(r)
  OBVIOUS
<1>2. row \in Policy
  BY <1>1, RowType
<1>3. PICK fields : fields = patch[r].fields
  OBVIOUS
<1>4. fields \in Patch
  BY <1>3, PolicyAssumption DEF PolicyTypes, Asked
<1>5. row.version + 1 \in 1..MaxVersion
  BY <1>1, <1>2, PolicyAssumption DEF NextVersion, Policy
<1>6. PICK m : m = Changed(r, row, "medium")
  OBVIOUS
<1>7. PICK h : h = Changed(r, row, "high")
  OBVIOUS
<1>8. m \in Nat /\ h \in Nat
  BY <1>2, <1>3, <1>4, <1>6, <1>7 DEF Changed, Sent, Patch, Policy
<1>9. PICK s : s = IF Sent(r, "bank") THEN [row.score EXCEPT !["bank"] = fields.bank] ELSE row.score
  OBVIOUS
<1>10. s \in [Rules -> Nat]
  BY <1>2, <1>3, <1>4, <1>9 DEF Sent, Patch, Policy
<1>11. Patched(r) = [version |-> row.version + 1, medium |-> m, high |-> h, score |-> s]
  BY <1>1, <1>3, <1>6, <1>7, <1>9, Zenon DEF Patched, NextVersion
<1>. QED BY <1>1, <1>5, <1>8, <1>10, <1>11 DEF Policy

(* What a commit may do to the table: keep the row, insert the defaults,   *)
(* or put a row with a new version in its place.                           *)
Commits(r, row) ==
  /\ r \in Requests /\ HasRow(r) /\ Commit(r, row)
  /\ row \in Policy
  /\ row = Row(r) \/ row.version = Row(r).version + 1
  /\ row.medium < row.high

LEMMA CommitRows ==
  ASSUME PolicyTypes, RowsInOrder, WorkInOrder, NEW r, NEW row, Commits(r, row)
  PROVE  /\ RowsInOrder'
         /\ policy' # None /\ \A p \in policies : p \in policies'
         /\ \A q \in Requests \ {r} : /\ work'[q] = work[q] /\ seen'[q] = seen[q]
                                      /\ patch'[q] = patch[q] /\ work[q] # "inserted"
         /\ work'[r] = "idle" /\ seen'[r] = None /\ patch'[r] = None
<1> USE DEF Commits
<1>1. None \notin Policy
  BY PolicyAssumption
<1>2. policy' = row /\ policies' = policies \cup {row}
  BY DEF Commit
<1>3. CASE work[r] = "inserted"
  <2>1. policy = None /\ policies = {}
    BY <1>3 DEF WorkInOrder, RowsInOrder
  <2>2. row.version <= row.version
    BY DEF Policy
  <2>3. RowsInOrder'
    BY <1>1, <1>2, <2>1, <2>2 DEF RowsInOrder
  <2>4. \A q \in Requests \ {r} : work[q] # "inserted"
    BY <1>3 DEF WorkInOrder
  <2>. QED BY <1>1, <1>2, <2>3, <2>4 DEF Commit, Finish, Move, Saw, PolicyTypes
<1>4. CASE work[r] = "read"
  <2>1. policy # None /\ policy \in policies /\ \A p \in policies : p.version <= policy.version
    BY <1>4 DEF WorkInOrder, RowsInOrder
  <2>2. row = policy \/ row.version = policy.version + 1
    BY <1>4 DEF Row
  <2>3. policy.version \in Nat /\ row.version \in Nat /\ \A p \in policies : p.version \in Nat
    BY <2>1 DEF PolicyTypes, Policy
  <2>4. \A p \in policies : p.version <= row.version
    BY <2>1, <2>2, <2>3
  <2>5. \A p \in policies : p.version = row.version => p = row
    BY <2>1, <2>2, <2>3 DEF RowsInOrder
  <2>6. RowsInOrder'
    BY <1>1, <1>2, <2>3, <2>4, <2>5 DEF RowsInOrder
  <2>7. \A q \in Requests : work[q] # "inserted"
    BY <2>1 DEF WorkInOrder
  <2>. QED BY <1>1, <1>2, <2>6, <2>7 DEF Commit, Finish, Move, Saw, PolicyTypes
<1>. QED BY <1>3, <1>4 DEF HasRow

LEMMA UpdateCommits ==
  ASSUME PolicyTypes, WorkInOrder, NEW r \in Requests, UpdatePolicy(r)
  PROVE  \/ Commits(r, Patched(r))
         \/ Finish(r) /\ UNCHANGED <<policy, policies, changes>>
<1>1. CASE Acceptable(r) /\ Commit(r, Patched(r))
  <2>1. Patched(r) \in Policy /\ Patched(r).version = Row(r).version + 1
    BY PatchedType DEF UpdatePolicy
  <2>2. Patched(r).medium < Patched(r).high
    BY <1>1, <2>1 DEF Acceptable, ThresholdsCheck, Policy
  <2>. QED BY <1>1, <2>1, <2>2 DEF Commits, UpdatePolicy
<1>. QED BY <1>1 DEF UpdatePolicy

LEMMA AssessCommits ==
  ASSUME PolicyTypes, WorkInOrder, RowsInOrder, ThresholdsOrdered,
         NEW r \in Requests, NEW facts, Assess(r, facts)
  PROVE  Commits(r, Row(r))
<1>1. Row(r) \in Policy
  BY RowType DEF Assess
<1>2. Row(r).medium < Row(r).high
  BY PolicyAssumption DEF Assess, HasRow, Row, WorkInOrder, RowsInOrder, ThresholdsOrdered
<1>. QED BY <1>1, <1>2 DEF Assess, Commits

(***************************************************************************)
(* The parts of the invariant                                              *)
(***************************************************************************)
LEMMA FinishTypes ==
  ASSUME PolicyTypes, NEW r \in Requests, Finish(r)
  PROVE  /\ work' \in [Requests -> Works] /\ seen' \in [Requests -> Policy \cup {None}]
         /\ patch' \in [Requests -> Asked \cup {None}]
BY DEF PolicyTypes, Finish, Move, Saw, Works

LEMMA NextTypes ==
  ASSUME Typed, PolicyTypes, WorkInOrder, RowsInOrder, ThresholdsOrdered, PolicyNext
  PROVE  PolicyTypes'
<1> USE DEF PolicyTypes
<1>1. ASSUME NEW r \in Requests, NEW p \in Asked \cup {None}, Read(r, p) PROVE PolicyTypes'
  BY <1>1 DEF Read, Move, Saw, Works
<1>2. ASSUME NEW r \in Requests, NEW s \in SessionIds, NEW p \in Patches, BeginUpdate(r, s, p)
      PROVE  PolicyTypes'
  <2>1. [fields |-> p, session |-> s, asked |-> now] \in Asked
    BY DEF Asked, Typed, PasskeysTypeOK
  <2>. QED BY <1>1, <1>2, <2>1 DEF BeginUpdate
<1>3. ASSUME NEW r \in Requests, BeginSubmission(r) PROVE PolicyTypes'
  BY <1>1, <1>3 DEF BeginSubmission
<1>4. ASSUME NEW r \in Requests, Insert(r) PROVE PolicyTypes'
  <2>1. CASE Finish(r)
    BY <1>4, <2>1, FinishTypes DEF Insert
  <2>2. CASE Move(r, "inserted") /\ Saw(r, Defaults) /\ UNCHANGED patch
    BY <1>4, <2>2, PolicyAssumption DEF Insert, Move, Saw, Works
  <2>. QED BY <1>4, <2>1, <2>2 DEF Insert
<1>5. ASSUME NEW r \in Requests, NEW row, Commits(r, row), UNCHANGED assessments
      PROVE  PolicyTypes'
  BY <1>5, FinishTypes DEF Commits, Commit
<1>6. ASSUME NEW r \in Requests, UpdatePolicy(r) PROVE PolicyTypes'
  <2>1. CASE Finish(r) /\ UNCHANGED <<policy, policies, changes>>
    BY <1>6, <2>1, FinishTypes DEF UpdatePolicy
  <2>. QED BY <1>5, <1>6, <2>1, UpdateCommits DEF UpdatePolicy
<1>7. ASSUME NEW r \in Requests, NEW facts \in Facts, Assess(r, facts) PROVE PolicyTypes'
  <2>1. Commits(r, Row(r))
    BY <1>7, AssessCommits
  <2>2. Evaluate(seen[r], facts) \in {"LOW", "MEDIUM", "HIGH"}
    BY DEF Evaluate, LevelOf
  <2>3. \A a \in assessments' : a.level \in {"LOW", "MEDIUM", "HIGH"}
    BY <1>7, <2>2 DEF Assess
  <2>. QED BY <2>1, <2>3, FinishTypes DEF Commits, Commit
<1>8. ASSUME NEW r \in Requests, Abandon(r) PROVE PolicyTypes'
  BY <1>8, FinishTypes DEF Abandon
<1>. QED BY <1>2, <1>3, <1>4, <1>6, <1>7, <1>8 DEF PolicyNext

(* The steps by what they do to the table.                                 *)
LEMMA PolicySteps ==
  ASSUME PolicyTypes, WorkInOrder, RowsInOrder, ThresholdsOrdered, PolicyNext
  PROVE  \/ UNCHANGED <<policy, policies, assessments>>
         \/ \E r, row : Commits(r, row) /\ UNCHANGED assessments
         \/ \E r \in Requests : \E facts \in Facts : Assess(r, facts) /\ Commits(r, Row(r))
<1>1. ASSUME NEW r \in Requests, UpdatePolicy(r)
      PROVE  \/ UNCHANGED <<policy, policies, assessments>>
             \/ Commits(r, Patched(r)) /\ UNCHANGED assessments
  BY <1>1, UpdateCommits DEF UpdatePolicy
<1>2. ASSUME NEW r \in Requests, NEW facts \in Facts, Assess(r, facts) PROVE Commits(r, Row(r))
  BY <1>2, AssessCommits
<1>. QED
  BY <1>1, <1>2 DEF PolicyNext, BeginUpdate, BeginSubmission, Read, Insert, Abandon

LEMMA NextRows ==
  ASSUME PolicyTypes, WorkInOrder, RowsInOrder, ThresholdsOrdered, PolicyNext
  PROVE  RowsInOrder' /\ ThresholdsOrdered' /\ \A p \in policies : p \in policies'
<1>1. CASE UNCHANGED <<policy, policies>>
  BY <1>1 DEF RowsInOrder, ThresholdsOrdered
<1>2. ASSUME NEW r, NEW row, Commits(r, row)
      PROVE  RowsInOrder' /\ ThresholdsOrdered' /\ \A p \in policies : p \in policies'
  <2>1. RowsInOrder' /\ \A p \in policies : p \in policies'
    BY <1>2, CommitRows
  <2>2. ThresholdsOrdered'
    BY <1>2 DEF Commits, Commit, ThresholdsOrdered
  <2>. QED BY <2>1, <2>2
<1>. QED BY <1>1, <1>2, PolicySteps

LEMMA NextWork ==
  ASSUME PolicyTypes, WorkInOrder, RowsInOrder, ThresholdsOrdered, PolicyNext
  PROVE  WorkInOrder'
<1> USE DEF PolicyTypes
<1>1. ASSUME NEW r \in Requests, Finish(r), UNCHANGED <<policy, policies>> PROVE WorkInOrder'
  BY <1>1 DEF Finish, Move, Saw, WorkInOrder
<1>2. ASSUME NEW r \in Requests, NEW p, Read(r, p) PROVE WorkInOrder'
  BY <1>2 DEF Read, Move, Saw, WorkInOrder, RowsInOrder
<1>3. ASSUME NEW r \in Requests, Insert(r) PROVE WorkInOrder'
  <2>1. CASE policy = None /\ Move(r, "inserted") /\ Saw(r, Defaults)
    BY <1>3, <2>1 DEF Insert, Move, Saw, WorkInOrder
  <2>. QED BY <1>1, <1>3, <2>1 DEF Insert
<1>4. ASSUME NEW r, NEW row, Commits(r, row) PROVE WorkInOrder'
  <2>1. r \in Requests /\ policy' # None /\ \A p \in policies : p \in policies'
    BY <1>4, CommitRows DEF Commits
  <2>2. work'[r] = "idle" /\ \A q \in Requests \ {r} :
          work'[q] = work[q] /\ seen'[q] = seen[q] /\ work[q] # "inserted"
    BY <1>4, CommitRows
  <2>. QED BY <2>1, <2>2 DEF WorkInOrder
<1>5. ASSUME NEW r \in Requests, UpdatePolicy(r) PROVE WorkInOrder'
  BY <1>1, <1>4, <1>5, UpdateCommits
<1>6. ASSUME NEW r \in Requests, NEW facts \in Facts, Assess(r, facts) PROVE WorkInOrder'
  BY <1>4, <1>6, AssessCommits
<1>. QED
  BY <1>1, <1>2, <1>3, <1>5, <1>6 DEF PolicyNext, BeginUpdate, BeginSubmission, Abandon

LEMMA NextAssessments ==
  ASSUME PolicyTypes, WorkInOrder, RowsInOrder, ThresholdsOrdered, AssessmentsInOrder, PolicyNext
  PROVE  AssessmentsInOrder'
<1>1. \A p \in policies : p \in policies'
  BY NextRows
<1>2. ASSUME NEW a \in assessments
      PROVE  \E p \in policies' : p.version = a.version /\ a.level = Evaluate(p, a.facts)
  BY <1>1 DEF AssessmentsInOrder
<1>3. CASE UNCHANGED assessments
  BY <1>2, <1>3 DEF AssessmentsInOrder
<1>4. ASSUME NEW r \in Requests, NEW facts \in Facts, Assess(r, facts), Commits(r, Row(r))
      PROVE  AssessmentsInOrder'
  <2>1. PICK row : row = seen[r]
    OBVIOUS
  <2>2. row \in policies'
    BY <1>1, <1>4, <2>1 DEF Assess, HasRow, WorkInOrder, Row, Commits, Commit
  <2>3. PICK new : new = [facts |-> facts, version |-> row.version, level |-> Evaluate(row, facts)]
    OBVIOUS
  <2>4. new.version = row.version /\ new.level = Evaluate(row, new.facts)
    BY <2>3
  <2>5. assessments' = assessments \cup {new}
    BY <1>4, <2>1, <2>3 DEF Assess
  <2>6. ASSUME NEW a \in assessments'
        PROVE  \E p \in policies' : p.version = a.version /\ a.level = Evaluate(p, a.facts)
    BY <1>2, <2>2, <2>4, <2>5
  <2>. QED BY <2>6 DEF AssessmentsInOrder
<1>. QED BY <1>3, <1>4, PolicySteps

(***************************************************************************)
(* Who changes the policy                                                  *)
(***************************************************************************)
LEMMA NextPatches ==
  ASSUME Typed, MarksAreVerified, PolicyTypes, PatchesVerified, PolicyNext, UNCHANGED passkeys
  PROVE  PatchesVerified'
<1> USE DEF PolicyTypes
<1>1. UNCHANGED <<verified, now>>
  BY DEF passkeys, history
<1>2. ASSUME NEW r \in Requests, Finish(r) PROVE PatchesVerified'
  BY <1>1, <1>2 DEF Finish, PatchesVerified
<1>3. ASSUME NEW r \in Requests, NEW s \in SessionIds, NEW p \in Patches, BeginUpdate(r, s, p)
      PROVE  PatchesVerified'
  <2>1. PICK a : a = [fields |-> p, session |-> s, asked |-> now]
    OBVIOUS
  <2>2. a.session = s /\ a.asked = now
    BY <2>1
  <2>3. \E t \in verified[s] : t <= now /\ now - t <= StepUpTtl
    BY <1>3 DEF BeginUpdate, Recent, Within, MarksAreVerified
  <2>4. patch' = [patch EXCEPT ![r] = a]
    BY <1>3, <2>1 DEF BeginUpdate, Read
  <2>. QED BY <1>1, <2>2, <2>3, <2>4 DEF PatchesVerified
<1>4. ASSUME NEW r \in Requests, BeginSubmission(r) PROVE PatchesVerified'
  BY <1>1, <1>4 DEF BeginSubmission, Read, PatchesVerified
<1>5. ASSUME NEW r \in Requests, Insert(r) PROVE PatchesVerified'
  BY <1>1, <1>2, <1>5 DEF Insert, PatchesVerified
<1>. QED
  BY <1>2, <1>3, <1>4, <1>5 DEF PolicyNext, UpdatePolicy, Assess, Commit, Abandon

LEMMA NextChanges ==
  ASSUME PolicyTypes, PatchesVerified, PolicyChangesVerified, ChangesOfSessions,
         PolicyNext, UNCHANGED passkeys
  PROVE  PolicyChangesVerified' /\ ChangesOfSessions'
<1>1. UNCHANGED verified
  BY DEF passkeys, history
<1>2. CASE UNCHANGED changes
  BY <1>1, <1>2 DEF PolicyChangesVerified, ChangesOfSessions
<1>3. ASSUME NEW r \in Requests, UpdatePolicy(r), ~UNCHANGED changes
      PROVE  PolicyChangesVerified' /\ ChangesOfSessions'
  <2>1. PICK ch : ch = [session |-> patch[r].session, asked |-> patch[r].asked]
    OBVIOUS
  <2>2. ch.session = patch[r].session /\ ch.asked = patch[r].asked
    BY <2>1
  <2>3. changes' = changes \cup {ch} /\ patch[r] # None
    BY <1>3, <2>1 DEF UpdatePolicy
  <2>4. \E t \in verified[ch.session] : t <= ch.asked /\ ch.asked - t <= StepUpTtl
    BY <2>2, <2>3 DEF PatchesVerified
  <2>5. ch.session \in SessionIds
    BY <2>2, <2>3 DEF PolicyTypes, Asked
  <2>. QED BY <1>1, <2>3, <2>4, <2>5 DEF PolicyChangesVerified, ChangesOfSessions
<1>. QED
  BY <1>2, <1>3 DEF PolicyNext, BeginUpdate, BeginSubmission, Insert, Assess, Abandon

(* What the passkeys do meanwhile takes nothing from either.               *)
LEMMA StillVerified ==
  ASSUME Marks, PolicyTypes, PatchesVerified, PolicyChangesVerified, ChangesOfSessions,
         UNCHANGED policyVars
  PROVE  PatchesVerified' /\ PolicyChangesVerified' /\ ChangesOfSessions'
<1>1. UNCHANGED <<patch, changes>>
  BY DEF policyVars
<1>2. ASSUME NEW r \in Requests, patch[r] # None
      PROVE  \E t \in verified'[patch[r].session] :
                t <= patch[r].asked /\ patch[r].asked - t <= StepUpTtl
  <2>1. patch[r].session \in SessionIds
    BY <1>2 DEF PolicyTypes, Asked
  <2>. QED BY <1>2, <2>1 DEF Marks, PatchesVerified
<1>3. ASSUME NEW ch \in changes
      PROVE  \E t \in verified'[ch.session] : t <= ch.asked /\ ch.asked - t <= StepUpTtl
  BY <1>3 DEF Marks, PolicyChangesVerified, ChangesOfSessions
<1>. QED BY <1>1, <1>2, <1>3 DEF PatchesVerified, PolicyChangesVerified, ChangesOfSessions

(***************************************************************************)
(* Scores and levels                                                       *)
(***************************************************************************)
LEMMA ScoreGrows ==
  ASSUME NEW p \in Policy, NEW f, NEW g, NEW rule \in Rules,
         Contributions(f) \subseteq Contributions(g)
  PROVE  ScoreOf(p, f, rule) \in Nat /\ ScoreOf(p, g, rule) \in Nat
         /\ ScoreOf(p, f, rule) <= ScoreOf(p, g, rule)
<1>1. p.score[rule] \in Nat
  BY DEF Policy
<1>2. Applies(rule, f) => Applies(rule, g)
  BY DEF Contributions
<1>. QED BY <1>1, <1>2 DEF ScoreOf

LEMMA TotalGrows ==
  ASSUME NEW p \in Policy, NEW f, NEW g, Contributions(f) \subseteq Contributions(g)
  PROVE  TotalScore(p, f) \in Nat /\ TotalScore(p, g) \in Nat
         /\ TotalScore(p, f) <= TotalScore(p, g)
<1>1. \A rule \in {"bank", "document", "number", "limit", "spike"} :
        /\ ScoreOf(p, f, rule) \in Nat /\ ScoreOf(p, g, rule) \in Nat
        /\ ScoreOf(p, f, rule) <= ScoreOf(p, g, rule)
  BY ScoreGrows DEF Rules
<1>. QED BY <1>1 DEF TotalScore

LEMMA LevelGrows ==
  ASSUME NEW p \in Policy, NEW low \in Nat, NEW high \in Nat, low <= high
  PROVE  Rank(LevelOf(p, low)) <= Rank(LevelOf(p, high))
<1>1. p.medium \in Nat /\ p.high \in Nat
  BY DEF Policy
<1>2. Rank("LOW") = 0 /\ Rank("MEDIUM") = 1 /\ Rank("HIGH") = 2
  BY DEF Rank
<1>3. CASE high >= p.high
  BY <1>1, <1>2, <1>3 DEF LevelOf
<1>4. CASE high < p.high
  BY <1>1, <1>2, <1>4 DEF LevelOf
<1>. QED BY <1>1, <1>3, <1>4

(***************************************************************************)
(* The theorems                                                            *)
(***************************************************************************)
LEMMA Invariance ==
  ASSUME Invariant, [Next]_<<passkeys, policyVars>>
  PROVE  Invariant'
<1> USE DEF Invariant
<1>1. [PasskeyNext]_passkeys
  BY DEF Next, passkeys
<1>2. PasskeyInvariant'
  BY <1>1, PasskeyInvariance
<1>3. CASE UNCHANGED policyVars
  <2>1. Marks
    BY <1>1, NextMarks DEF PasskeyInvariant
  <2>2. PatchesVerified' /\ PolicyChangesVerified' /\ ChangesOfSessions'
    BY <1>3, <2>1, StillVerified
  <2>3. /\ PolicyTypes' /\ RowsInOrder' /\ WorkInOrder' /\ AssessmentsInOrder'
        /\ ThresholdsOrdered'
    BY <1>3 DEF policyVars, PolicyTypes, RowsInOrder, WorkInOrder, AssessmentsInOrder,
       ThresholdsOrdered
  <2>. QED BY <1>2, <2>2, <2>3
<1>4. CASE PolicyNext /\ UNCHANGED passkeys
  <2>1. Typed /\ MarksAreVerified
    BY DEF PasskeyInvariant
  <2>2. PolicyTypes' /\ WorkInOrder' /\ AssessmentsInOrder'
    BY <1>4, <2>1, NextTypes, NextWork, NextAssessments
  <2>3. RowsInOrder' /\ ThresholdsOrdered'
    BY <1>4, NextRows
  <2>4. PatchesVerified' /\ PolicyChangesVerified' /\ ChangesOfSessions'
    BY <1>4, <2>1, NextPatches, NextChanges
  <2>. QED BY <1>2, <2>2, <2>3, <2>4
<1>. QED BY <1>3, <1>4 DEF Next, policyVars

LEMMA InvariantHolds == Spec => []Invariant
BY InitInvariant, Invariance, PTL DEF Spec

(* The tables and what the requests remember have their types.             *)
THEOREM TypesHold == Spec => []TypeOK
<1>1. Invariant => TypeOK
  BY DEF Invariant, PasskeyInvariant, Typed, PolicyTypes, Asked, TypeOK
<1>. QED BY <1>1, InvariantHolds, PTL

(* The version an assessment stores names the policy it was made with.     *)
THEOREM Reproducible == Spec => []AssessmentsReproducible
<1>1. Invariant => AssessmentsReproducible
  BY DEF Invariant, RowsInOrder, AssessmentsInOrder, AssessmentsReproducible
<1>. QED BY <1>1, InvariantHolds, PTL

(* The thresholds of every row that is committed are in order, whatever    *)
(* its writer had read.                                                    *)
THEOREM Ordered == Spec => []ThresholdsOrdered
<1>1. Invariant => ThresholdsOrdered
  BY DEF Invariant
<1>. QED BY <1>1, InvariantHolds, PTL

(* Every change of the policy was asked for by a session that had proved a *)
(* passkey a short while before.                                           *)
THEOREM ChangesVerified == Spec => []PolicyChangesVerified
<1>1. Invariant => PolicyChangesVerified
  BY DEF Invariant
<1>. QED BY <1>1, InvariantHolds, PTL

(* Under every row that is ever committed, whatever its thresholds and     *)
(* scores, an invoice with more reasons for concern is not assessed lower. *)
THEOREM MoreReasons == Spec => []MoreReasonsHigherLevel
<1>1. ASSUME policies \subseteq Policy
      PROVE  MoreReasonsHigherLevel
  <2>1. ASSUME NEW p \in policies, NEW f \in Facts, NEW g \in Facts,
               Contributions(f) \subseteq Contributions(g)
        PROVE  Rank(Evaluate(p, f)) <= Rank(Evaluate(p, g))
    <3>1. p \in Policy
      BY <1>1
    <3>2. /\ TotalScore(p, f) \in Nat /\ TotalScore(p, g) \in Nat
          /\ TotalScore(p, f) <= TotalScore(p, g)
      BY <2>1, <3>1, TotalGrows
    <3>. QED BY <3>1, <3>2, LevelGrows DEF Evaluate
  <2>. QED BY <2>1 DEF MoreReasonsHigherLevel
<1>2. Invariant => policies \subseteq Policy
  BY DEF Invariant, PolicyTypes
<1>. QED BY <1>1, <1>2, InvariantHolds, PTL
=============================================================================
