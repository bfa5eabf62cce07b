------------------------------- MODULE Listings -------------------------------
(***************************************************************************)
(* The lists of vendors, contracts, buildings and audit events: a client   *)
(* follows nextCursor from page to page while other requests write the     *)
(* rows.  The cursor is the id of the last row of a page; the next page    *)
(* starts where that row stands when the page is read.                     *)
(*                                                                         *)
(* Abstractions.  A row keeps its place in the order of the list (a name,  *)
(* a date) and whether the caller's scope and the query's filter find it.  *)
(* Ids are numbers: only their order matters.  A page is the rows of       *)
(* certain ranks in the result; the client counts how often it is shown    *)
(* a row.                                                                  *)
(***************************************************************************)
EXTENDS Integers, FiniteSets

CONSTANTS RowIds, Places, Limits,
          MaxChanges,      \* bound: rows written, each once, while a list is read
          None

Lists == {"vendors", "contracts", "buildings", "audit"}
Entry == [place: Places, view: {"found", "filtered", "hidden"}]

(* What the instances that are checked assume of the constants.            *)
ListAssumption ==
  /\ IsFiniteSet(RowIds) /\ RowIds \cup Places \subseteq Nat /\ Limits \subseteq Nat \ {0}
  /\ None \notin Nat \cup Lists \cup Entry

VARIABLES table,           \* the rows of the list
          list, limit,     \* what the client reads, and by how many
          phase,           \* "idle", "asking", "checked", "done", "refused"
          cursor,          \* the id it presents
          listed,          \* how often each row is on the pages it has
          served,          \* history: the cursor's row when it was served
          written,         \* history: rows written since the client began
          moved            \* history: a cursor's row had changed when it was used

lists == <<table, list, limit, phase, cursor, listed, served, written, moved>>

ListInit == /\ table = [i \in RowIds |-> None]
            /\ list = None /\ limit = None /\ phase = "idle" /\ cursor = None
            /\ listed = [i \in RowIds |-> 0] /\ served = None /\ written = {} /\ moved = FALSE

(***************************************************************************)
(* The rows                                                                *)
(***************************************************************************)
Visible(i) == table[i] # None /\ table[i].view # "hidden"
Found(i)   == table[i] # None /\ table[i].view = "found"

Lower(i, j) == \/ table[i].place < table[j].place
               \/ table[i].place = table[j].place /\ i < j
Earlier(i, j) == IF list = "audit" THEN Lower(j, i) ELSE Lower(i, j)

(* Audit events are never updated, and nobody's scope hides them; of a     *)
(* building only the access changes.                                       *)
MayBecome(old, new) ==
  CASE list = "audit"     -> old = None /\ new.view # "hidden"
    [] list = "buildings" -> \/ old = None
                             \/ /\ old # None /\ new.place = old.place
                                /\ (old.view = "hidden") # (new.view = "hidden")
    [] OTHER              -> TRUE

Write(i, e) ==
  /\ table[i] # e /\ MayBecome(table[i], e)
  /\ table' = [table EXCEPT ![i] = e]
  /\ \/ phase = "idle" /\ UNCHANGED written
     \/ /\ phase \in {"asking", "checked"} /\ i \notin written /\ Cardinality(written) < MaxChanges
        /\ written' = written \cup {i}
  /\ UNCHANGED <<list, limit, phase, cursor, listed, served, moved>>

(***************************************************************************)
(* The pages                                                               *)
(***************************************************************************)
Ask(l, n) ==
  /\ phase = "idle"
  /\ l = "audit" => \A i \in RowIds : table[i] # None => Visible(i)
  /\ list' = l /\ limit' = n /\ phase' = "asking"
  /\ UNCHANGED <<table, cursor, listed, served, written, moved>>

(* The first query of a page with a cursor: its row is in the scope.       *)
CheckCursor ==
  /\ phase = "asking" /\ cursor # None
  /\ phase' = IF Visible(cursor) THEN "checked" ELSE "refused"
  /\ UNCHANGED <<table, list, limit, cursor, listed, served, written, moved>>

(* Variant, for the runs' mutants: the cursor's row is listed again.       *)
NoSkip == 0

(* skip: 1 passes over the first row of the result, whichever it is.       *)
Skip == IF cursor = None THEN 0 ELSE 1

(* The rows from the place the cursor's row has now, and their ranks.      *)
Result == {i \in RowIds : Found(i) /\ (cursor # None => ~Earlier(i, cursor))}
Rank(i) == Cardinality({j \in Result : Earlier(j, i)})

(* take: limit + 1.  page: the row taken in excess says that there is      *)
(* another page.                                                           *)
Data    == {i \in Result : Rank(i) \in Skip..(Skip + limit - 1)}
HasMore == \E i \in Result : Rank(i) = Skip + limit
NextCursor == IF HasMore THEN CHOOSE i \in Result : Rank(i) = Skip + limit - 1 ELSE None

Page ==
  /\ \/ phase = "checked"
     \/ phase = "asking" /\ cursor = None
  /\ listed' = [i \in RowIds |-> IF i \in Data THEN listed[i] + 1 ELSE listed[i]]
  /\ cursor' = NextCursor
  /\ served' = IF HasMore THEN table[NextCursor] ELSE None
  /\ phase' = IF HasMore THEN "asking" ELSE "done"
  /\ moved' = (moved \/ (cursor # None /\ table[cursor] # served))
  /\ UNCHANGED <<table, list, limit, written>>

ListVendors   == list = "vendors" /\ (CheckCursor \/ Page)
ListContracts == list = "contracts" /\ (CheckCursor \/ Page)
ListBuildings == list = "buildings" /\ (CheckCursor \/ Page)
ListAudit     == list = "audit" /\ (CheckCursor \/ Page)

ListNext == \/ \E i \in RowIds, e \in Entry : Write(i, e)
            \/ \E l \in Lists, n \in Limits : Ask(l, n)
            \/ ListVendors \/ ListContracts \/ ListBuildings \/ ListAudit

ListSpec == ListInit /\ [][ListNext]_lists
-----------------------------------------------------------------------------
ListTypeOK ==
  /\ table \in [RowIds -> Entry \cup {None}] /\ list \in Lists \cup {None} /\ limit \in Limits \cup {None}
  /\ phase \in {"idle", "asking", "checked", "done", "refused"}
  /\ cursor \in RowIds \cup {None} /\ listed \in [RowIds -> Nat]
  /\ served \in Entry \cup {None} /\ written \subseteq RowIds /\ moved \in BOOLEAN

(* A list read to its end holds every row that nobody wrote meanwhile: once *)
(* if it was to be found, never if not.  Unless a cursor's row had changed  *)
(* when it was used, which cannot happen to audit events.                   *)
ListingComplete ==
  /\ phase = "done" /\ ~moved =>
       \A i \in RowIds \ written : listed[i] = IF Found(i) THEN 1 ELSE 0
  /\ list = "audit" => ~moved /\ phase # "refused"
=============================================================================
