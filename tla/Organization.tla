----------------------------- MODULE Organization -----------------------------
(***************************************************************************)
(* The records of an organization: vendors and contracts, vendor           *)
(* passports, lists and the webhook of the fake bank.  They share no state *)
(* here, and take their steps in any order.                                *)
(***************************************************************************)
EXTENDS VendorCoverage

CONSTANTS Notices, Accounts, MaxAge, MaxClock,
          RowIds, Places, Limits, MaxChanges,
          MaxNumber, MaxTick, MaxVerdicts

VARIABLES clock, delivery, reading, answered
bank == <<clock, delivery, reading, answered>>
VARIABLES table, list, limit, phase, cursor, listed, served, written, moved
lists == <<table, list, limit, phase, cursor, listed, served, written, moved>>
VARIABLES tick, contact, account, adding, verifying, dashboard, known
passport == <<tick, contact, account, adding, verifying, dashboard, known>>

Bank == INSTANCE FakeBank
Lists == INSTANCE Listings
Passport == INSTANCE VendorPassport
ASSUME OrganizationAssumption ==
  /\ Bank!NoticeAssumption /\ Lists!ListAssumption /\ Passport!PassportAssumption

EventsRecordedOnce == Bank!EventsRecordedOnce
ListingComplete == Lists!ListingComplete
CompleteIsVerified == Passport!CompleteIsVerified

Init == CrmInit /\ Bank!BankInit /\ Lists!ListInit /\ Passport!PassportInit

Records == CrmNext /\ UNCHANGED <<bank, lists, passport>>
Webhook == Bank!BankNext /\ UNCHANGED <<crm, lists, passport>>
Reading == Lists!ListNext /\ UNCHANGED <<crm, bank, passport>>
Passports == Passport!PassportNext /\ UNCHANGED <<crm, bank, lists>>

Next == Records \/ Webhook \/ Reading \/ Passports

Spec == Init /\ [][Next]_<<crm, bank, lists, passport>>

TypeOK == /\ CrmTypeOK /\ Bank!BankTypeOK /\ Lists!ListTypeOK
          /\ Passport!PassportTypeOK
=============================================================================
