--------------------------- MODULE MCOrganization ---------------------------
(* Organization for TLC.  What shares no state is explored side by side: a *)
(* behaviour moves one of the components.                                  *)
EXTENDS Organization, FiniteSetsExt, TLC

CONSTANTS MaxWrites,     \* bound: versions of all rows while requests begin
          Events, Strangers

(* An account may be another organization's, and a notice may be sent      *)
(* again with a new timestamp.                                             *)
MCNotices == [event: Events, account: Accounts \cup Strangers, at: 0..1]

(* One component moves while the others are in their initial states.       *)
Moving == {c \in {"crm", "bank", "lists", "passport"} :
             CASE c = "crm"      -> ~CrmInit
               [] c = "bank"     -> ~Bank!BankInit
               [] c = "lists"    -> ~Lists!ListInit
               [] c = "passport" -> ~Passport!PassportInit}

SideBySide == LET moving == Moving IN
  \/ moving \subseteq {"crm"} /\ Records
  \/ moving \subseteq {"bank"} /\ Webhook
  \/ moving \subseteq {"lists"} /\ Reading
  \/ moving \subseteq {"passport"} /\ Passports

MCSpec == Init /\ [][SideBySide]_<<crm, bank, lists, passport>>

(* Bound: once the rows of vendors and contracts have been written         *)
(* MaxWrites times, only what is past its checks goes on; and once there   *)
(* are all vendors, nothing is granted to the administrator.               *)
Writes == MapThenSumSet(Version, Ids)
Explored == /\ Writes <= MaxWrites \/ {stage[r] : r \in Requests} = {"idle", "linked"}
            /\ granted = {} \/ \E v \in Vendors : ~Exists(v)

Interchangeable == Permutations(Requests) \cup Permutations(Vendors) \cup Permutations(Buildings)
=============================================================================
