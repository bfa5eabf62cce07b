------------------------------ MODULE FakeBank ------------------------------
(***************************************************************************)
(* The webhook of the fake bank: a provider delivers signed notices about  *)
(* bank accounts, again when it has no answer, and the service records the *)
(* first of each event.                                                    *)
(*                                                                         *)
(* Abstractions.  A notice stands for its payload and its timestamp, which *)
(* the stored hash covers; its signature is right.  Time is counted in     *)
(* ticks.  The INSERT, the audit event and the commit are one step: a      *)
(* second INSERT of the event waits for the first and fails if it commits. *)
(***************************************************************************)
EXTENDS Integers

CONSTANTS Notices,        \* [event, account, at]: what the provider sends
          Accounts,       \* the bank-account versions of the organization
          Requests,
          MaxAge, MaxClock,
          None

(* What the instances that are checked assume of the constants.            *)
NoticeAssumption == /\ MaxAge \in Nat /\ MaxClock \in Nat /\ None \notin Notices
                    /\ \A n \in Notices : n.at \in Nat

VARIABLES clock,
          delivery,       \* the FakeBankWebhookDelivery table
          reading,        \* the notice each request has found no delivery of
          answered        \* history: the answers the provider was given

bank == <<clock, delivery, reading, answered>>

BankInit == /\ clock = 0 /\ delivery = {} /\ answered = {}
            /\ reading = [r \in Requests |-> None]

(* Variant, for the runs' mutants: the table has no unique index.          *)
NoIndex(n) == FALSE

Recorded(n) == \E d \in delivery : d.event = n.event

(* verifyFakeBankWebhook: the age of the notice, in either direction.      *)
Timely(n) == clock - n.at <= MaxAge /\ n.at - clock <= MaxAge

Answer(n, duplicate) == answered' = answered \cup {[notice |-> n, duplicate |-> duplicate]}

(* The event has been recorded: a replay is a success, another notice with *)
(* the id of the event is refused.                                         *)
Replay(n) ==
  /\ Timely(n)
  /\ n \in delivery
  /\ Answer(n, TRUE)
  /\ UNCHANGED <<clock, delivery, reading>>

Receive(r, n) ==
  /\ reading[r] = None /\ Timely(n) /\ ~Recorded(n)
  /\ n.account \in Accounts
  /\ reading' = [reading EXCEPT ![r] = n]
  /\ UNCHANGED <<clock, delivery, answered>>

Done(r) == reading' = [reading EXCEPT ![r] = None]

(* The unique index on the id of the event.                                *)
Taken(n) == Recorded(n)

Record(r) == LET n == reading[r] IN
  /\ n # None
  /\ \/ /\ ~Taken(n)
        /\ delivery' = delivery \cup {n}
        /\ Answer(n, FALSE)
     \/ /\ Taken(n)
        /\ UNCHANGED <<delivery, answered>>
  /\ Done(r)
  /\ UNCHANGED clock

(* The transaction fails, or its answer is lost after the commit.          *)
Fail(r) == /\ reading[r] # None
           /\ Done(r)
           /\ UNCHANGED <<clock, delivery, answered>>

Unanswered(r) == LET n == reading[r] IN
  /\ n # None /\ ~Taken(n)
  /\ delivery' = delivery \cup {n}
  /\ Done(r)
  /\ UNCHANGED <<clock, answered>>

Later == /\ clock < MaxClock
         /\ clock' = clock + 1
         /\ UNCHANGED <<delivery, reading, answered>>

BankNext == \/ Later
            \/ \E n \in Notices : Replay(n)
            \/ \E r \in Requests : \/ \E n \in Notices : Receive(r, n)
                                   \/ Record(r) \/ Unanswered(r) \/ Fail(r)

BankSpec == BankInit /\ [][BankNext]_bank
-----------------------------------------------------------------------------
BankTypeOK == /\ clock \in 0..MaxClock /\ delivery \subseteq Notices
              /\ reading \in [Requests -> Notices \cup {None}]
              /\ answered \subseteq [notice: Notices, duplicate: BOOLEAN]

(* However often and however concurrently an event is delivered, one       *)
(* notice of it is recorded, and only that one was ever accepted.          *)
EventsRecordedOnce ==
  /\ \A d, e \in delivery : d.event = e.event => d = e
  /\ \A a \in answered : a.notice \in delivery
=============================================================================
