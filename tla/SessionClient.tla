---------------------------- MODULE SessionClient ----------------------------
(***************************************************************************)
(* The web application's side of a session, composed with Sessions: a      *)
(* browser's cookies, the guard that reads the access cookie, and          *)
(* apiRequest, which answers a 401 by one refresh and one repetition.      *)
(* Answers may be lost and overtake one another; the cookies change when   *)
(* an answer arrives.  A page has several calls under way at a time.       *)
(***************************************************************************)
EXTENDS Sessions

CONSTANT Browsers

VARIABLES jar,       \* the access and refresh cookies of each browser
          call,      \* what each apiRequest is doing, on the client
          excused    \* history: tokens two calls hold, or whose answer got lost

clientVars == <<jar, call, excused>>

Stages == {"idle", "login", "sent", "refresh", "act"}
Jar    == [access: SessionIds \cup {None}, refresh: Tokens \cup {None}]
NoCookies == [access |-> None, refresh |-> None]
(* access and refresh are the cookies as the request left with them.       *)
Call   == [stage: Stages, browser: Browsers \cup {None}, retried: BOOLEAN,
           access: SessionIds \cup {None}, refresh: Tokens \cup {None}]
NoCall == [stage |-> "idle", browser |-> None, retried |-> FALSE,
           access |-> None, refresh |-> None]
CallIn(stage, b) == [NoCall EXCEPT !.stage = stage, !.browser = b]
SentWith(b, a, again) == [CallIn("sent", b) EXCEPT !.access = a, !.retried = again]

ClientInit == /\ Init
              /\ jar = [b \in Browsers |-> NoCookies]
              /\ call = [r \in Requests |-> NoCall]
              /\ excused = {}

FreshSession == CHOOSE s \in SessionIds : ~Created(s)
FreshToken == CHOOSE t \in Tokens : ~Issued(t)
TokenLeft  == \E t \in Tokens : ~Issued(t)

(* Variant, for the runs' mutants: a refresh cookie is not replaced.       *)
FirstCookie(r) == [access |-> arg[r].family,
                   refresh |-> IF call[r].refresh = None THEN arg[r].token ELSE call[r].refresh]
(* setSessionCookies with what the answer of r brings.                     *)
SetCookies(r) == [access |-> arg[r].family, refresh |-> arg[r].token]

Login(r, b, u) ==
  /\ call[r].stage = "idle"
  /\ TokenLeft /\ \E s \in SessionIds : ~Created(s)
  /\ Create(r, u, FreshSession, FreshToken)
  /\ call' = [call EXCEPT ![r] = CallIn("login", b)]
  /\ UNCHANGED <<jar, excused>>

(* A page calls the API.  Which operation it asks for is open until Serve. *)
Send(r, b) ==
  /\ call[r].stage = "idle" /\ phase[r] = "idle"
  /\ jar[b] # NoCookies
  /\ call' = [call EXCEPT ![r] = SentWith(b, jar[b].access, FALSE)]
  /\ UNCHANGED <<vars, jar, excused>>

(* SessionAuthGuard, and the handler behind it.                            *)
Passes(r) == call[r].access # None /\ Admitted(call[r].access)

Serve(r) ==
  /\ call[r].stage = "sent" /\ Passes(r)
  /\ \/ /\ call' = [call EXCEPT ![r] = NoCall]
        /\ UNCHANGED vars
     \/ /\ \/ Revoke(r, call[r].access)
           \/ RevokeAll(r, session[call[r].access].user)
        /\ call' = [call EXCEPT ![r] = CallIn("act", call[r].browser)]
  /\ UNCHANGED <<jar, excused>>

Refreshing(r, t) == call[r].stage = "refresh" /\ call[r].refresh = t

(* The 401 and the call of /auth/refresh it leads to, with the refresh     *)
(* cookie of that moment; the second 401, or no cookie, ends the call.     *)
Unauthorized(r) ==
  LET b == call[r].browser
      t == jar[b].refresh
  IN
  /\ call[r].stage = "sent" /\ ~Passes(r)
  /\ \/ /\ ~call[r].retried /\ t # None
        /\ call' = [call EXCEPT ![r] = [CallIn("refresh", b) EXCEPT !.refresh = t]]
        /\ excused' = excused \cup {u \in {t} : \E q \in Requests : Refreshing(q, u)}
     \/ /\ call[r].retried \/ t = None
        /\ call' = [call EXCEPT ![r] = NoCall]
        /\ UNCHANGED excused
  /\ UNCHANGED <<vars, jar>>

Refresh(r) == /\ call[r].stage = "refresh" /\ phase[r] = "idle"
              /\ RotateRead(r, call[r].refresh)
              /\ UNCHANGED clientVars

(* The answer of a login, refresh or logout arrives.                       *)
Receive(r) ==
  LET b == call[r].browser IN
  /\ Respond(r)
  /\ \/ /\ outcome[r] = "CREATED"
        /\ jar' = [jar EXCEPT ![b] = SetCookies(r)]
        /\ call' = [call EXCEPT ![r] = NoCall]
     \/ /\ outcome[r] = "ROTATED"
        /\ jar' = [jar EXCEPT ![b] = SetCookies(r)]
        /\ call' = [call EXCEPT ![r] = SentWith(b, arg[r].family, TRUE)]
     \/ /\ outcome[r] = "REVOKED"
        /\ jar' = [jar EXCEPT ![b] = NoCookies]
        /\ call' = [call EXCEPT ![r] = NoCall]
     \/ /\ outcome[r] \in Refusals \cup {"ERROR"}
        /\ UNCHANGED jar
        /\ call' = [call EXCEPT ![r] = NoCall]
  /\ UNCHANGED excused

(* The answer does not: the browser keeps the cookies it had.              *)
Lose(r) == /\ Respond(r)
           /\ call' = [call EXCEPT ![r] = NoCall]
           /\ excused' = excused \cup {t \in {call[r].refresh} : t # None}
           /\ UNCHANGED jar

AccessExpires(b) == /\ jar[b].access # None
                    /\ jar' = [jar EXCEPT ![b].access = None]
                    /\ UNCHANGED <<vars, call, excused>>

(* Bound: with no token left to issue, a rotation exceeds its time.        *)
Server(r) == /\ \/ Statement(r)
                \/ TokenLeft /\ RotateCommit(r, FreshToken)
                \/ ~TokenLeft /\ phase[r] = "rotating" /\ Rollback(r)
             /\ UNCHANGED clientVars

ClientNext ==
  \/ \E r \in Requests :
       \/ \E b \in Browsers, u \in Users : Login(r, b, u)
       \/ \E b \in Browsers : Send(r, b)
       \/ Serve(r) \/ Unauthorized(r) \/ Refresh(r) \/ Receive(r) \/ Lose(r)
       \/ Server(r)
       \/ Rollback(r) /\ UNCHANGED clientVars
  \/ \E b \in Browsers : AccessExpires(b)
  \/ \E s \in SessionIds : Lapse(s) /\ UNCHANGED clientVars

allVars == <<vars, clientVars>>

ClientSpec == ClientInit /\ [][ClientNext]_allVars

(* The API serves what it has begun, and an answer arrives or the fetch    *)
(* fails.  PostgreSQL breaks deadlocks and grants a row lock to those who  *)
(* wait for it in turn, hence the strong fairness.  Nobody has to send     *)
(* anything.                                                               *)
Fairness ==
  \A r \in Requests :
    /\ WF_allVars(Serve(r) \/ Unauthorized(r) \/ Refresh(r) \/ Receive(r) \/ Lose(r))
    /\ SF_allVars(Server(r))

FairClientSpec == ClientSpec /\ Fairness
-----------------------------------------------------------------------------
(* The reuse detection has no false alarm: a consumed token is presented   *)
(* again only by a browser that had two refreshes under way with it, or    *)
(* that never got the answer to the first.                                 *)
NoFalseAlarm ==
  \A r \in Requests :
     call[r].stage = "refresh" /\ outcome[r] = "REUSED" /\ token[call[r].refresh].used
     => call[r].refresh \in excused

(* Every call of apiRequest ends, with at most one refresh and one         *)
(* repetition, whatever deadlocks rotations and revocations run into.      *)
CallsEnd == \A r \in Requests : call[r].stage # "idle" ~> call[r].stage = "idle"
=============================================================================
