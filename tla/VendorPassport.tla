---------------------------- MODULE VendorPassport ----------------------------
(***************************************************************************)
(* The passport of a vendor: its contacts, the versions of its bank        *)
(* account and their verifications, and the dashboard that lists what is   *)
(* missing from it.                                                        *)
(*                                                                         *)
(* Contacts, versions and verifications are only ever added.  A request    *)
(* stamps a verification when it inserts it and shows it when it commits,  *)
(* so they need not appear in the order of their stamps.  The dashboard is *)
(* one transaction under READ COMMITTED, but each of its queries sees what *)
(* has been committed by then.                                             *)
(*                                                                         *)
(* Abstractions.  One vendor, which stays within the scope of everyone.    *)
(* Its other required fields are filled in.  Stamps are counted in ticks.  *)
(* A verdict is VERIFIED or not: a PENDING one counts like a REJECTED one. *)
(* What a new version does to invoices is in InvoiceApproval.              *)
(***************************************************************************)
EXTENDS Integers, FiniteSets

CONSTANTS Requests,
          MaxNumber, MaxTick,  \* bounds: versions of the account, stamps,
          MaxVerdicts,         \* verifications of a version
          None

Numbers == 1..MaxNumber
Verdicts == {"VERIFIED", "REJECTED"}
Verification == [status: {"PENDING"} \cup Verdicts, at: 0..MaxTick]

(* What the instances that are checked assume of the constants.            *)
PassportAssumption == /\ MaxNumber \in Nat /\ MaxTick \in Nat /\ MaxVerdicts \in Nat
                      /\ None \notin Int /\ \A rows \in SUBSET Verification : rows # None

VARIABLES tick,
          contact,         \* the vendor has a verified contact
          account,         \* the verifications of each version, None if there is none
          adding,          \* the latest version each request has read
          verifying,       \* the verification each request has inserted, and of what
          dashboard,       \* what the dashboard has read
          known            \* history: the versions committed when it began

passport == <<tick, contact, account, adding, verifying, dashboard, known>>

Idle == [phase |-> "idle", contact |-> FALSE, latest |-> 0, complete |-> FALSE]
Dashboard == [phase: {"idle", "vendors", "contacts", "accounts", "reported"},
              contact: BOOLEAN, latest: 0..MaxNumber, complete: BOOLEAN]

NoAccount == [n \in Numbers |-> None]

PassportInit == /\ tick = 0 /\ contact = FALSE
                /\ account = NoAccount /\ known = NoAccount
                /\ adding = [r \in Requests |-> None]
                /\ verifying = [r \in Requests |-> None]
                /\ dashboard = Idle

Committed(accounts) == {n \in Numbers : accounts[n] # None}
Largest(ns) == IF ns = {} THEN 0 ELSE CHOOSE n \in ns : \A k \in ns : k <= n

Tick == /\ tick < MaxTick
        /\ tick' = tick + 1
        /\ UNCHANGED <<contact, account, adding, verifying, dashboard, known>>

(***************************************************************************)
(* The requests                                                            *)
(***************************************************************************)
AddContact(isVerified) ==
  /\ contact' = (contact \/ isVerified)
  /\ UNCHANGED <<tick, account, adding, verifying, dashboard, known>>

ReadLatest(r) ==
  /\ adding[r] = None /\ verifying[r] = None
  /\ adding' = [adding EXCEPT ![r] = Largest(Committed(account))]
  /\ UNCHANGED <<tick, contact, account, verifying, dashboard, known>>

(* The version and its first verification; the unique index refuses a      *)
(* number that another request has taken since.                            *)
InsertVersion(r) ==
  LET n == adding[r] + 1 IN
  /\ adding[r] # None
  /\ adding' = [adding EXCEPT ![r] = None]
  /\ \/ /\ n \in Numbers /\ account[n] = None
        /\ account' = [account EXCEPT ![n] = {[status |-> "PENDING", at |-> tick]}]
     \/ n \in Committed(account) /\ UNCHANGED account
  /\ UNCHANGED <<tick, contact, verifying, dashboard, known>>

InsertVerification(r, n, s) ==
  /\ adding[r] = None /\ verifying[r] = None
  /\ n \in Committed(account) /\ Cardinality(account[n]) < MaxVerdicts
  /\ verifying' = [verifying EXCEPT ![r] = [number |-> n, row |-> [status |-> s, at |-> tick]]]
  /\ UNCHANGED <<tick, contact, account, adding, dashboard, known>>

CommitVerification(r) ==
  LET v == verifying[r] IN
  /\ v # None
  /\ account' = [account EXCEPT ![v.number] = @ \cup {v.row}]
  /\ verifying' = [verifying EXCEPT ![r] = None]
  /\ UNCHANGED <<tick, contact, adding, dashboard, known>>

(***************************************************************************)
(* The dashboard                                                           *)
(***************************************************************************)
Seen(d) == dashboard' = d /\ UNCHANGED <<tick, contact, account, adding, verifying>>

ReadVendors == /\ dashboard.phase = "idle"
               /\ known' = account
               /\ Seen([dashboard EXCEPT !.phase = "vendors"])

ReadContacts == /\ dashboard.phase = "vendors"
                /\ Seen([dashboard EXCEPT !.phase = "contacts", !.contact = contact])
                /\ UNCHANGED known

ReadAccounts == /\ dashboard.phase = "contacts"
                /\ Seen([dashboard EXCEPT !.phase = "accounts", !.latest = Largest(Committed(account))])
                /\ UNCHANGED known

(* Variant, for the runs' mutants: the verifications are not ordered.      *)
Any(rows) == rows

(* Stamps may be equal: whichever the database puts first.                 *)
Newest(rows) == {w \in rows : \A u \in rows : u.at <= w.at}

(* The verifications of the version read before, and what is missing.      *)
Report ==
  /\ dashboard.phase = "accounts"
  /\ \E verified \in IF dashboard.latest = 0 THEN {FALSE}
                     ELSE {w.status = "VERIFIED" : w \in Newest(account[dashboard.latest])} :
       Seen([dashboard EXCEPT !.phase = "reported", !.complete = dashboard.contact /\ verified])
  /\ UNCHANGED known

PassportNext ==
  \/ Tick \/ \E v \in BOOLEAN : AddContact(v)
  \/ \E r \in Requests : \/ ReadLatest(r) \/ InsertVersion(r) \/ CommitVerification(r)
                         \/ \E n \in Numbers, s \in Verdicts : InsertVerification(r, n, s)
  \/ ReadVendors \/ ReadContacts \/ ReadAccounts \/ Report

PassportSpec == PassportInit /\ [][PassportNext]_passport
-----------------------------------------------------------------------------
PassportTypeOK ==
  /\ tick \in 0..MaxTick /\ contact \in BOOLEAN /\ dashboard \in Dashboard
  /\ account \in [Numbers -> {None} \cup SUBSET Verification]
  /\ known \in [Numbers -> {None} \cup SUBSET Verification]
  /\ adding \in [Requests -> 0..MaxNumber \cup {None}]
  /\ verifying \in [Requests -> {None} \cup [number: Numbers, row: Verification]]

(* A dashboard that finds nothing missing has seen a VERIFIED verification *)
(* of a version no older than any the organization had when it was asked   *)
(* for, and no later verdict was known of that version by then: a new      *)
(* account or a rejection that was committed before is never overlooked,   *)
(* although the versions and the verdicts are read at different times.     *)
CompleteIsVerified ==
  dashboard.complete =>
    /\ contact
    /\ \E n \in Committed(account) :
         /\ \A k \in Committed(known) : k <= n
         /\ \E w \in account[n] :
              /\ w.status = "VERIFIED"
              /\ n \in Committed(known) => \A u \in known[n] : u.at <= w.at
=============================================================================
