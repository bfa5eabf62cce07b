--------------------------- MODULE VendorCoverage ---------------------------
(***************************************************************************)
(* Vendors, contracts and building access of an organization: a vendor is  *)
(* linked to the buildings it may work in, a contract covers buildings of  *)
(* its vendor, an owner manages everything and an administrator only what  *)
(* lies entirely in the buildings it was granted.                          *)
(*                                                                         *)
(* Every request is a transaction under READ COMMITTED: what it changes is *)
(* seen when it commits, and a plain SELECT, in the services and in the    *)
(* triggers alike, waits for nobody.  An UPDATE waits for the other        *)
(* transactions that have updated its row.                                 *)
(*                                                                         *)
(* Abstractions.  A row keeps its version and its links; every other field *)
(* is written with them.  The rows of the buildings never change.  A       *)
(* vendor is created in one step: nobody knows its id before.  The version *)
(* a page sends is the one it last loaded; one that is out of date when    *)
(* the request arrives is refused like one that goes out of date later.    *)
(***************************************************************************)
EXTENDS Integers, FiniteSets

CONSTANTS Vendors, Contracts, Buildings,
          Owner, Administrator,
          Requests,
          MaxVersion,      \* bound: versions of a row
          None, Same       \* no row; the field is absent from the request

Ids    == Vendors \cup Contracts
Actors == {Owner, Administrator}
Row == [version: 1..MaxVersion, vendor: Vendors \cup {None}, links: SUBSET Buildings]

ASSUME CoverageAssumption == /\ Owner # Administrator /\ Vendors \cap Contracts = {}
                             /\ None \notin Vendors \cup Row /\ \A bs \in SUBSET Buildings : bs # Same
                             /\ MaxVersion \in Nat \ {0}

VARIABLES row,         \* the Vendor and Contract tables with their links
          granted,     \* buildings the administrator has a valid grant for
          stage,       \* the last statement of each request
          job,         \* what it was asked
          before,      \* the links it has read
          allowed,     \* history: the grants it was checked against
          raced        \* history: contracts whose check overlapped an unlinking

crm == <<row, granted, stage, job, before, allowed, raced>>

Stages == {"idle", "checked", "claimed", "linked"}
Job == [id: Ids, expected: 0..MaxVersion, vendor: Vendors \cup {None},
        links: {Same} \cup SUBSET Buildings]

CrmInit == /\ row = [x \in Ids |-> None]
           /\ granted = {} /\ raced = {}
           /\ stage = [r \in Requests |-> "idle"]
           /\ job = [r \in Requests |-> None]
           /\ before = [r \in Requests |-> {}]
           /\ allowed = [r \in Requests |-> {}]

Exists(x) == row[x] # None
Linked(v, bs) == Exists(v) /\ bs \subseteq row[v].links

(***************************************************************************)
(* Building access                                                         *)
(***************************************************************************)
(* assertAllCanManage.                                                     *)
CanManageAll(a, bs) == a = Owner \/ bs \subseteq granted

(* grantAccess by the owner, and the grant running out.                    *)
GrantAccess(b) == /\ granted' = granted \cup {b}
                  /\ UNCHANGED <<row, stage, job, before, allowed, raced>>
Lapse(b)       == /\ b \in granted /\ granted' = granted \ {b}
                  /\ UNCHANGED <<row, stage, job, before, allowed, raced>>

(***************************************************************************)
(* The checks at the head of a request                                     *)
(***************************************************************************)
Begin(r, a, j, old) ==
  /\ stage[r] = "idle"
  /\ stage' = [stage EXCEPT ![r] = "checked"]
  /\ job' = [job EXCEPT ![r] = j]
  /\ before' = [before EXCEPT ![r] = old]
  /\ allowed' = [allowed EXCEPT ![r] = IF a = Owner THEN Buildings ELSE granted]
  /\ UNCHANGED <<row, granted, raced>>

(* Variant, for the runs' mutants: only what is asked for is checked.      *)
CanManageNew(a, old, bs) == bs # Same => CanManageAll(a, bs)

(* The buildings of the record and those it is to have.                    *)
CanManageBoth(a, old, bs) == /\ CanManageAll(a, old)
                             /\ bs # Same => CanManageAll(a, bs)

After(old, bs) == IF bs = Same THEN old ELSE bs

CreateVendor(a, v, bs) ==
  /\ ~Exists(v) /\ CanManageAll(a, bs)
  /\ a = Administrator => bs # {}
  /\ row' = [row EXCEPT ![v] = [version |-> 1, vendor |-> None, links |-> bs]]
  /\ UNCHANGED <<granted, stage, job, before, allowed, raced>>

UpdateVendor(r, a, v, bs) ==
  /\ Exists(v)
  /\ a = Administrator => row[v].links # {} /\ bs # {}    \* an owner may unlink it everywhere
  /\ CanManageBoth(a, row[v].links, bs)
  /\ Begin(r, a, [id |-> v, expected |-> row[v].version, vendor |-> None, links |-> bs],
           row[v].links)

(* A contract starts with a building; an update may leave it without.      *)
CreateContract(r, a, c, v, bs) ==
  /\ ~Exists(c) /\ \A q \in Requests : stage[q] # "idle" => job[q].id # c
  /\ bs # {} /\ CanManageAll(a, bs) /\ Linked(v, bs)
  /\ Begin(r, a, [id |-> c, expected |-> 0, vendor |-> v, links |-> bs], {})

UpdateContract(r, a, c, v, bs) ==
  /\ Exists(c) /\ CanManageBoth(a, row[c].links, bs)
  /\ Linked(v, After(row[c].links, bs))
  /\ Begin(r, a, [id |-> c, expected |-> row[c].version, vendor |-> v, links |-> bs],
           row[c].links)

(***************************************************************************)
(* The UPDATE, the links and the commit                                    *)
(***************************************************************************)
Reset(r) == /\ stage' = [stage EXCEPT ![r] = "idle"]
            /\ job' = [job EXCEPT ![r] = None]
            /\ before' = [before EXCEPT ![r] = {}]
            /\ allowed' = [allowed EXCEPT ![r] = {}]

Step(r, guard, to) ==
  \/ /\ guard
     /\ stage' = [stage EXCEPT ![r] = to]
     /\ UNCHANGED <<row, granted, job, before, allowed, raced>>
  \/ ~guard /\ Reset(r) /\ UNCHANGED <<row, granted, raced>>

Version(x) == IF Exists(x) THEN row[x].version ELSE 0

(* Variant, for the runs' mutants: the WHERE has no version.               *)
AnyVersion(r) == TRUE

RowFree(r) == \A q \in Requests \ {r} :
                stage[q] \in {"claimed", "linked"} => job[q].id # job[r].id
VersionMatches(r) == Version(job[r].id) = job[r].expected

(* updateMany with the expected version, or the INSERT of a contract.      *)
Claim(r) == /\ stage[r] = "checked"
            /\ Version(job[r].id) < MaxVersion
            /\ RowFree(r)
            /\ Step(r, VersionMatches(r), "claimed")

ForContract(r) == job[r].id \in Contracts
Wanted(r)  == After(before[r], job[r].links)
Removed(r) == before[r] \ Wanted(r)
Referenced(v, bs) == \E c \in Contracts : /\ Exists(c) /\ row[c].vendor = v
                                          /\ row[c].links \cap bs # {}

(* Variant, for the runs' mutants: no triggers on either table.            *)
Untriggered(r) == TRUE

(* The triggers: of an UPDATE of the contract's vendor and of every INSERT *)
(* of a link of a contract, and of every DELETE of a link of a vendor,     *)
(* after the service has looked for the same references.                   *)
Untouched(r) == Exists(job[r].id) /\ row[job[r].id].vendor = job[r].vendor /\ job[r].links = Same
TriggersAgree(r) == IF ForContract(r) THEN Untouched(r) \/ Linked(job[r].vendor, Wanted(r))
                    ELSE ~Referenced(job[r].id, Removed(r))

Relink(r) == stage[r] = "claimed" /\ Step(r, TriggersAgree(r), "linked")

(* A vendor's links are patched by what was read before the UPDATE, a      *)
(* contract's are replaced.                                                *)
NewLinks(r) ==
  LET old == IF Exists(job[r].id) THEN row[job[r].id].links ELSE {} IN
  IF job[r].links = Same THEN old
  ELSE IF ForContract(r) THEN job[r].links
  ELSE (old \ Removed(r)) \cup (Wanted(r) \ before[r])

(* Contracts that have passed their check while q unlinks their buildings. *)
Overlaps(r) ==
  {job[q].id : q \in {q \in Requests : stage[q] = "linked" /\ ForContract(q)
                         /\ job[q].vendor = job[r].id /\ Wanted(q) \cap Removed(r) # {}}}
  \cup
  {job[r].id : q \in {q \in Requests : stage[q] = "linked" /\ ~ForContract(q)
                         /\ job[r].vendor = job[q].id /\ Wanted(r) \cap Removed(q) # {}}}

Commit(r) ==
  /\ stage[r] = "linked"
  /\ row' = [row EXCEPT ![job[r].id] =
       [version |-> Version(job[r].id) + 1, vendor |-> job[r].vendor, links |-> NewLinks(r)]]
  /\ raced' = raced \cup Overlaps(r)
  /\ Reset(r)
  /\ UNCHANGED granted

(* Another statement fails, the transaction exceeds its time, the API dies.*)
GiveUp(r) == /\ stage[r] # "idle"
             /\ Reset(r)
             /\ UNCHANGED <<row, granted, raced>>

CrmNext ==
  \/ \E b \in Buildings : GrantAccess(b) \/ Lapse(b)
  \/ \E a \in Actors, v \in Vendors, bs \in SUBSET Buildings : CreateVendor(a, v, bs)
  \/ \E r \in Requests :
       \/ \E a \in Actors, v \in Vendors, bs \in {Same} \cup SUBSET Buildings :
            \/ UpdateVendor(r, a, v, bs)
            \/ \E c \in Contracts : \/ bs # Same /\ CreateContract(r, a, c, v, bs)
                                    \/ UpdateContract(r, a, c, v, bs)
       \/ Claim(r) \/ Relink(r) \/ Commit(r) \/ GiveUp(r)

CrmSpec == CrmInit /\ [][CrmNext]_crm
-----------------------------------------------------------------------------
CrmTypeOK ==
  /\ row \in [Ids -> Row \cup {None}] /\ granted \subseteq Buildings
  /\ stage \in [Requests -> Stages] /\ job \in [Requests -> Job \cup {None}]
  /\ before \in [Requests -> SUBSET Buildings] /\ allowed \in [Requests -> SUBSET Buildings]
  /\ raced \subseteq Contracts

Covered(c) == Exists(c) => Linked(row[c].vendor, row[c].links)

(* A contract covers only buildings its vendor is linked to, whatever      *)
(* requests overlap.                                                       *)
CoverageHolds == \A c \in Contracts : Covered(c)

(* What the services and the triggers do keep: coverage is lost only by a  *)
(* contract and an unlinking of its buildings that were both past their    *)
(* checks when the first of them committed.                                *)
CoveredUnlessRaced == \A c \in Contracts \ raced : Covered(c)

(* A committed change leaves a record with the buildings that were asked   *)
(* for, or with those it had: the links read at the head of the request    *)
(* are never out of date when the differences are applied.                 *)
LinksAsAsked ==
  [][\A r \in Requests : Commit(r) =>
        LET x == job[r].id IN
        /\ Version(x) = job[r].expected
        /\ row'[x].links = Wanted(r)]_crm

(* A committed change by an administrator concerns only buildings, old and *)
(* new, that it was granted when the request was checked.                  *)
ChangesAuthorized ==
  [][\A r \in Requests : Commit(r) =>
        LET x == job[r].id IN
        /\ row'[x].links \subseteq allowed[r]
        /\ Exists(x) => row[x].links \subseteq allowed[r]]_crm
=============================================================================
