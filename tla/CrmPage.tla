-------------------------------- MODULE CrmPage --------------------------------
(***************************************************************************)
(* The CRM page of the web interface: lists of buildings and vendors, one  *)
(* of each selected, the details of both, and the forms that create        *)
(* records.  Effects fetch the details again whenever a selection or the   *)
(* profile changes, and nobody cancels the calls that run already.         *)
(*                                                                         *)
(* Abstractions.  A building keeps the apartments and occupancies its      *)
(* detail shows, a vendor its bank-account versions: entries.  The lists   *)
(* are left out, so any record there is may be chosen, and a search finds  *)
(* any of them; nor is the text in the search field kept.  Equal loads     *)
(* under way count as one, and the calls of a page that was left are not   *)
(* followed.                                                               *)
(***************************************************************************)
EXTENDS Integers, Sequences, FiniteSets

CONSTANTS Buildings, Vendors, Entries,
          MaxLoads, MaxFetches,    \* bounds: calls under way at once
          None

Kinds == {"building", "vendor"}
Records(k) == IF k = "building" THEN Buildings ELSE Vendors

VARIABLES record,      \* the entries of each record, None if there is none
          page,        \* the state of the page
          loads,       \* the calls of load under way
          fetches,     \* those for each detail, in the order they were sent
          request,     \* the form that was sent
          mine         \* history: entries the page was told it has created

crmPage == <<record, page, loads, fetches, request, mine>>

All == Buildings \cup Vendors
Detail == [id: All, entries: SUBSET Entries]
Page == [profile: BOOLEAN,                           \* load has been answered
         selected: [Kinds -> All \cup {None}],
         detail: [Kinds -> Detail \cup {None}],
         late: [Kinds -> BOOLEAN],    \* history: that of a call overtaken before
         pending: BOOLEAN]
NoPage == [profile |-> FALSE, selected |-> [k \in Kinds |-> None],
           detail |-> [k \in Kinds |-> None], late |-> [k \in Kinds |-> FALSE],
           pending |-> FALSE]
NoFetch == [k \in Kinds |-> <<>>]

Loads == [search: BOOLEAN, awaited: BOOLEAN]         \* a form awaits its load
Fetch == [id: All, late: BOOLEAN, answer: Detail \cup {None}]
Forms == {"building", "apartment", "occupancy", "vendor", "account", "contract"}
Requests == [form: Forms, for: All \cup {None},
             answer: All \cup Entries \cup {None, "refused", "created"}]

(* What the instances that are checked assume of the constants.            *)
CrmPageAssumption == /\ Buildings \cap Vendors = {}
                     /\ None \notin All \cup Detail \cup Requests
                     /\ \A es \in SUBSET Entries : es # None
                     /\ MaxLoads \in Nat /\ MaxFetches \in Nat

CrmPageInit == /\ record = [x \in All |-> None]
               /\ page = NoPage /\ loads = {} /\ fetches = NoFetch
               /\ request = None /\ mine = {}

Existing(k) == {x \in Records(k) : record[x] # None}
FreshEntries == {e \in Entries : \A x \in All : record[x] # None => e \notin record[x]}
Shown(x) == [id |-> x, entries |-> record[x]]

(* The records of other members.                                           *)
Elsewhere ==
  /\ \/ \E x \in All : record[x] = None /\ record' = [record EXCEPT ![x] = {}]
     \/ \E x \in All, e \in FreshEntries :
          record[x] # None /\ record' = [record EXCEPT ![x] = @ \cup {e}]
  /\ UNCHANGED <<page, loads, fetches, request, mine>>

(***************************************************************************)
(* Loading                                                                 *)
(***************************************************************************)
Load(search, awaited) == [search |-> search, awaited |-> awaited]
Calls(ls) == loads' = ls /\ Cardinality(ls) <= MaxLoads

Mount == /\ page = NoPage /\ loads = {} /\ fetches = NoFetch /\ request = None
         /\ Calls({Load(FALSE, FALSE)})
         /\ UNCHANGED <<record, page, fetches, request, mine>>

(* The effect of a detail: a call for what is selected, or no detail, and  *)
(* then every call under way has been overtaken.                           *)
Overtaken(calls) == [i \in DOMAIN calls |-> [calls[i] EXCEPT !.late = TRUE]]
Sent(k, id) == IF id = None THEN Overtaken(fetches[k])
               ELSE Append(fetches[k], [id |-> id, late |-> FALSE, answer |-> None])
Kept(k, id) == IF id = None THEN None ELSE page.detail[k]
StillLate(k, id) == id # None /\ page.late[k]

(* Variant, for the runs' mutants: the effect depends on the selection     *)
(* only.                                                                   *)
IfSelected(k, id) == IF id = page.selected[k] THEN fetches[k] ELSE Sent(k, id)

(* Every load brings another profile, on which the effects depend.         *)
AfterLoad(k, id) == Sent(k, id)

LoadArrives(l, first) ==
  LET selected == [k \in Kinds |-> IF page.selected[k] # None THEN page.selected[k] ELSE first[k]] IN
  /\ \A k \in Kinds : \/ first[k] \in Existing(k)
                      \/ first[k] = None /\ (l.search \/ Existing(k) = {})
  /\ page' = [page EXCEPT !.profile = TRUE, !.selected = selected,
                          !.detail = [k \in Kinds |-> Kept(k, selected[k])],
                          !.late = [k \in Kinds |-> StillLate(k, selected[k])],
                          !.pending = @ /\ ~l.awaited]
  /\ fetches' = [k \in Kinds |-> AfterLoad(k, selected[k])]
  /\ Calls(loads \ {l})
  /\ UNCHANGED <<record, request, mine>>

(* The page is left for the login.                                         *)
LoadFails(l) ==
  /\ page' = NoPage /\ loads' = {} /\ fetches' = NoFetch /\ request' = None
  /\ UNCHANGED <<record, mine>>

Served(calls, i) == [calls EXCEPT ![i] = [@ EXCEPT !.answer = Shown(calls[i].id)]]

Serve(k, i) ==
  /\ fetches[k][i].answer = None
  /\ fetches' = [fetches EXCEPT ![k] = Served(fetches[k], i)]
  /\ UNCHANGED <<record, page, loads, request, mine>>

(* An answer overtakes the calls before.                                   *)
Without(calls, i) == Overtaken(SubSeq(calls, 1, i - 1)) \o SubSeq(calls, i + 1, Len(calls))

(* An answer, or a failure, which shows no detail.                         *)
Arrive(k, i) ==
  LET f == fetches[k][i] IN
  /\ \/ f.answer # None /\ page' = [page EXCEPT !.detail[k] = f.answer, !.late[k] = f.late]
     \/ page' = [page EXCEPT !.detail[k] = None, !.late[k] = FALSE]
  /\ fetches' = [fetches EXCEPT ![k] = Without(fetches[k], i)]
  /\ UNCHANGED <<record, loads, request, mine>>

(***************************************************************************)
(* The user                                                                *)
(***************************************************************************)
Search(q) == /\ page.profile \/ loads # {}
             /\ Calls(loads \cup {Load(q, FALSE)})
             /\ UNCHANGED <<record, page, fetches, request, mine>>

Chosen(k, id) ==
  /\ page' = [page EXCEPT !.selected[k] = id, !.detail[k] = Kept(k, id),
                          !.late[k] = StillLate(k, id)]
  /\ fetches' = [fetches EXCEPT ![k] = IF id = page.selected[k] THEN @ ELSE Sent(k, id)]

Select(k, id) == /\ page.profile /\ id \in Existing(k) \cup {None}
                 /\ Chosen(k, id)
                 /\ UNCHANGED <<record, loads, request, mine>>

Perform(form, for) ==
  /\ ~page.pending /\ page.profile
  /\ request' = [form |-> form, for |-> for, answer |-> None]
  /\ page' = [page EXCEPT !.pending = TRUE]
  /\ UNCHANGED <<record, loads, fetches, mine>>

CreateBuilding  == Perform("building", None)
CreateApartment == /\ page.selected["building"] # None
                   /\ Perform("apartment", page.selected["building"])
(* One of the apartments shown, whose building need not be selected.       *)
CreateOccupancy == LET d == page.detail["building"] IN
                   /\ d # None /\ d.entries # {}
                   /\ Perform("occupancy", d.id)
CreateVendor    == Existing("building") # {} /\ Perform("vendor", None)
AddBankVersion  == /\ page.selected["vendor"] # None
                   /\ Perform("account", page.selected["vendor"])
CreateContract  == /\ Existing("vendor") # {} /\ Existing("building") # {}
                   /\ Perform("contract", None)

Answered(answer) == request' = [request EXCEPT !.answer = answer]

ServeRequest ==
  /\ request # None /\ request.answer = None
  /\ \/ /\ request.form \in Kinds
        /\ \E x \in Records(request.form) : /\ record[x] = None
                                            /\ record' = [record EXCEPT ![x] = {}]
                                            /\ Answered(x)
     \/ /\ request.for # None
        /\ \E e \in FreshEntries : /\ record' = [record EXCEPT ![request.for] = @ \cup {e}]
                                   /\ Answered(e)
     \/ request.form = "contract" /\ Answered("created") /\ UNCHANGED record
     \/ Answered("refused") /\ UNCHANGED record
  /\ UNCHANGED <<page, loads, fetches, mine>>

(* What was created is selected, and everything is loaded again.           *)
RequestArrives ==
  /\ request # None /\ request.answer \notin {None, "refused"}
  /\ request' = None
  /\ \E q \in BOOLEAN : Calls(loads \cup {Load(q, TRUE)})
  /\ IF request.form \in Kinds THEN Chosen(request.form, request.answer) ELSE UNCHANGED <<page, fetches>>
  /\ mine' = IF request.for = None THEN mine
             ELSE mine \cup {[id |-> request.for, entry |-> request.answer]}
  /\ UNCHANGED record

(* Refused, or the answer is lost.                                         *)
RequestFails ==
  /\ request # None /\ request' = None
  /\ page' = [page EXCEPT !.pending = FALSE]
  /\ UNCHANGED <<record, loads, fetches, mine>>

Within == Len(fetches'["building"]) + Len(fetches'["vendor"]) <= MaxFetches

CrmPageNext ==
  /\ \/ Elsewhere \/ Mount \/ \E q \in BOOLEAN : Search(q)
     \/ \E l \in loads : \/ LoadFails(l)
                         \/ \E first \in [Kinds -> All \cup {None}] : LoadArrives(l, first)
     \/ \E k \in Kinds : \/ \E i \in DOMAIN fetches[k] : Serve(k, i) \/ Arrive(k, i)
                         \/ \E id \in Records(k) \cup {None} : Select(k, id)
     \/ CreateBuilding \/ CreateApartment \/ CreateOccupancy
     \/ CreateVendor \/ AddBankVersion \/ CreateContract
     \/ ServeRequest \/ RequestArrives \/ RequestFails
  /\ Within

CrmPageSpec == CrmPageInit /\ [][CrmPageNext]_crmPage
-----------------------------------------------------------------------------
CrmPageTypeOK ==
  /\ record \in [All -> {None} \cup SUBSET Entries]
  /\ page \in Page /\ loads \subseteq Loads /\ fetches \in [Kinds -> Seq(Fetch)]
  /\ request \in Requests \cup {None} /\ mine \subseteq [id: All, entry: Entries]

(* Once the page has come to rest, the details it shows are those of what  *)
(* is selected, with everything the user was told that he has created      *)
(* there, although loads, searches and fetches of his and the work of      *)
(* others overlap.  Unless the last answer to arrive was not the answer to *)
(* the last call.                                                          *)
OwnWritesShown ==
  /\ CrmPageTypeOK
  /\ \A k \in Kinds :
       LET d == page.detail[k] IN
       ~page.pending /\ fetches[k] = <<>> /\ ~page.late[k] /\ d # None =>
         /\ d.id = page.selected[k]
         /\ \A m \in mine : m.id = d.id => m.entry \in d.entries
=============================================================================
