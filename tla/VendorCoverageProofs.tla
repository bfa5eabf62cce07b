------------------------- MODULE VendorCoverageProofs -------------------------
(* Theorems about VendorCoverage, for any vendors, contracts, buildings    *)
(* and requests.                                                           *)
EXTENDS VendorCoverage, TLAPS

Holding == {"claimed", "linked"}

(* What a request has read is out of date only where its version is, and   *)
(* what it has claimed is not.                                             *)
JobSound(r) == stage[r] # "idle" =>
  /\ job[r] \in Job
  /\ job[r].id \in Vendors => job[r].expected # 0 /\ job[r].vendor = None
  /\ job[r].id \in Contracts => job[r].vendor \in Vendors
  /\ job[r].expected = 0 => before[r] = {} /\ job[r].links # Same
  /\ job[r].expected <= Version(job[r].id)
  /\ job[r].expected # 0 /\ Version(job[r].id) = job[r].expected =>
       row[job[r].id].links = before[r]
  /\ before[r] \subseteq allowed[r] /\ Wanted(r) \subseteq allowed[r]
  /\ stage[r] \in Holding => /\ Version(job[r].id) = job[r].expected
                             /\ job[r].expected < MaxVersion

JobsSound == \A r \in Requests : JobSound(r)

(* No two transactions hold one row.                                       *)
LocksApart == \A r, q \in Requests :
  r # q /\ stage[r] \in Holding /\ stage[q] \in Holding => job[r].id # job[q].id

ContractsHaveVendor == \A c \in Contracts : Exists(c) => row[c].vendor \in Vendors

(* What has passed the triggers is still right, unless it has been raced.  *)
ContractSound(r) == stage[r] = "linked" /\ job[r].id \in Contracts \ raced =>
  Linked(job[r].vendor, Wanted(r))

UnlinkingSound(r) == stage[r] = "linked" /\ job[r].id \in Vendors =>
  \A c \in Contracts \ raced :
     Exists(c) /\ row[c].vendor = job[r].id => row[c].links \cap Removed(r) = {}

PassedSound == \A r \in Requests : ContractSound(r) /\ UnlinkingSound(r)

Invariant ==
  /\ CrmTypeOK /\ JobsSound /\ LocksApart /\ ContractsHaveVendor
  /\ PassedSound /\ CoveredUnlessRaced

LEMMA InitInvariant == CrmInit => Invariant
<1> SUFFICES ASSUME CrmInit PROVE Invariant
  OBVIOUS
<1> USE DEF CrmInit
<1>1. CrmTypeOK
  <2>1. row \in [Ids -> Row \cup {None}] /\ job \in [Requests -> Job \cup {None}]
    BY Zenon
  <2>. QED BY <2>1 DEF CrmTypeOK, Stages
<1>2. JobsSound /\ LocksApart
  BY DEF JobsSound, JobSound, LocksApart, Holding
<1>3. /\ ContractsHaveVendor /\ PassedSound /\ CoveredUnlessRaced
  BY DEF ContractsHaveVendor, PassedSound, ContractSound, UnlinkingSound, CoveredUnlessRaced,
     Covered, Exists, Ids
<1>. QED BY <1>1, <1>2, <1>3 DEF Invariant

(***************************************************************************)
(* The operators                                                           *)
(***************************************************************************)
LEMMA WantedType ==
  ASSUME CrmTypeOK, NEW r \in Requests, job[r] \in Job
  PROVE  /\ before[r] \subseteq Buildings /\ Wanted(r) \subseteq Buildings
         /\ job[r].links = Same => Wanted(r) = before[r]
         /\ job[r].links # Same => Wanted(r) = job[r].links
BY DEF CrmTypeOK, Job, Wanted, After

LEMMA VersionType ==
  ASSUME CrmTypeOK, NEW x \in Ids
  PROVE  /\ Version(x) \in 0..MaxVersion
         /\ Exists(x) <=> Version(x) # 0
         /\ Exists(x) => /\ row[x] \in Row /\ row[x].version = Version(x)
                         /\ row[x].links \subseteq Buildings
BY CoverageAssumption DEF CrmTypeOK, Row, Version, Exists

(* A request that is to commit replaces a row of the version it expects by *)
(* one that has the links it wants.                                        *)
LEMMA CommitLinks ==
  ASSUME CrmTypeOK, NEW r \in Requests, JobSound(r), stage[r] = "linked"
  PROVE  /\ job[r] \in Job /\ job[r].id \in Ids
         /\ Version(job[r].id) = job[r].expected /\ NewLinks(r) = Wanted(r)
         /\ Exists(job[r].id) => row[job[r].id].links = before[r]
<1>1. PICK x, old, want : x = job[r].id /\ old = before[r] /\ want = Wanted(r)
  OBVIOUS
<1>2. /\ job[r] \in Job /\ x \in Ids /\ Version(x) = job[r].expected
      /\ x \in Vendors => job[r].expected # 0
      /\ job[r].expected = 0 => old = {} /\ job[r].links # Same
      /\ job[r].expected # 0 => row[x].links = old
  BY <1>1 DEF JobSound, Holding, Job
<1>3. /\ old \subseteq Buildings /\ want \subseteq Buildings
      /\ job[r].links = Same => want = old
      /\ job[r].links # Same => want = job[r].links
  BY <1>1, <1>2, WantedType
<1>4. Exists(x) <=> job[r].expected # 0
  BY <1>2, VersionType
<1>5. CASE job[r].links = Same
  <2>1. Exists(x) /\ row[x].links = old /\ want = old
    BY <1>2, <1>3, <1>4, <1>5
  <2>2. NewLinks(r) = row[x].links
    BY <1>1, <1>5, <2>1, Zenon DEF NewLinks
  <2>. QED BY <1>1, <1>2, <1>4, <2>1, <2>2
<1>6. CASE job[r].links # Same /\ x \in Contracts
  <2>1. NewLinks(r) = job[r].links
    BY <1>1, <1>6, Zenon DEF NewLinks, ForContract
  <2>. QED BY <1>1, <1>2, <1>3, <1>4, <1>6, <2>1
<1>7. CASE job[r].links # Same /\ x \in Vendors
  <2>1. x \notin Contracts /\ row[x].links = old /\ Exists(x)
    BY <1>2, <1>4, <1>7, CoverageAssumption
  <2>2. NewLinks(r) = (old \ (old \ want)) \cup (want \ old)
    BY <1>1, <1>7, <2>1, Zenon DEF NewLinks, ForContract, Removed
  <2>. QED BY <1>1, <1>2, <1>4, <2>1, <2>2
<1>. QED BY <1>1, <1>2, <1>4, <1>5, <1>6, <1>7 DEF Ids

(* The row that a commit writes.                                           *)
Writes(r, x, new) ==
  /\ x = job[r].id /\ x \in Ids /\ new \in Row
  /\ new.version = Version(x) + 1 /\ new.vendor = job[r].vendor /\ new.links = Wanted(r)
  /\ row' = [row EXCEPT ![x] = new]

LEMMA CommitRows ==
  ASSUME CrmTypeOK, NEW r \in Requests, JobSound(r), Commit(r)
  PROVE  \E x, new : Writes(r, x, new)
<1>1. PICK x : x = job[r].id
  OBVIOUS
<1>2. PICK new : new = [version |-> Version(x) + 1, vendor |-> job[r].vendor, links |-> Wanted(r)]
  OBVIOUS
<1>3. /\ job[r] \in Job /\ x \in Ids /\ Version(x) = job[r].expected /\ NewLinks(r) = Wanted(r)
  BY <1>1, CommitLinks DEF Commit
<1>4. job[r].expected < MaxVersion
  BY DEF Commit, JobSound, Holding
<1>5. Version(x) + 1 \in 1..MaxVersion
  BY <1>3, <1>4, VersionType, CoverageAssumption
<1>6. job[r].vendor \in Vendors \cup {None} /\ Wanted(r) \in SUBSET Buildings
  BY <1>3, WantedType DEF Job
<1>7. new \in Row
  BY <1>2, <1>5, <1>6 DEF Row
<1>8. row' = [row EXCEPT ![x] = new]
  BY <1>1, <1>2, <1>3 DEF Commit
<1>. QED BY <1>1, <1>2, <1>3, <1>7, <1>8 DEF Writes

(***************************************************************************)
(* Types                                                                   *)
(***************************************************************************)
LEMMA ResetType ==
  ASSUME CrmTypeOK, NEW r \in Requests, Reset(r)
  PROVE  /\ stage' \in [Requests -> Stages] /\ job' \in [Requests -> Job \cup {None}]
         /\ before' \in [Requests -> SUBSET Buildings]
         /\ allowed' \in [Requests -> SUBSET Buildings]
BY DEF CrmTypeOK, Reset, Stages

LEMMA BeginType ==
  ASSUME CrmTypeOK, NEW r \in Requests, NEW a, NEW j \in Job, NEW old \in SUBSET Buildings,
         Begin(r, a, j, old)
  PROVE  CrmTypeOK'
BY DEF CrmTypeOK, Begin, Stages

(* What the head of a request makes of it.                                 *)
Begins(r) ==
  \E a \in Actors, j \in Job, old \in SUBSET Buildings :
     /\ Begin(r, a, j, old)
     /\ CanManageAll(a, old) /\ CanManageAll(a, After(old, j.links))
     /\ j.id \in Vendors => Exists(j.id) /\ j.vendor = None
     /\ j.id \in Contracts => j.vendor \in Vendors
     /\ IF Exists(j.id) THEN j.expected = Version(j.id) /\ old = row[j.id].links
                        ELSE j.expected = 0 /\ old = {} /\ j.links # Same

LEMMA UpdateVendorBegins ==
  ASSUME CrmTypeOK, NEW r \in Requests, NEW a \in Actors, NEW v \in Vendors,
         NEW bs \in {Same} \cup SUBSET Buildings, UpdateVendor(r, a, v, bs)
  PROVE  Begins(r)
<1>1. PICK j : j = [id |-> v, expected |-> row[v].version, vendor |-> None, links |-> bs]
  OBVIOUS
<1>2. /\ Exists(v) /\ row[v].version = Version(v) /\ Version(v) \in 0..MaxVersion
      /\ row[v].links \in SUBSET Buildings
  BY VersionType DEF UpdateVendor, Ids
<1>3. /\ j \in Job /\ j.id = v /\ j.expected = Version(v) /\ j.links = bs /\ j.vendor = None
      /\ v \notin Contracts
  BY <1>1, <1>2, CoverageAssumption DEF Job, Ids
<1>4. Begin(r, a, j, row[v].links) /\ CanManageBoth(a, row[v].links, bs)
  BY <1>1 DEF UpdateVendor
<1>. QED BY <1>2, <1>3, <1>4 DEF Begins, CanManageBoth, After

LEMMA CreateContractBegins ==
  ASSUME CrmTypeOK, NEW r \in Requests, NEW a \in Actors, NEW c \in Contracts, NEW v \in Vendors,
         NEW bs \in SUBSET Buildings, CreateContract(r, a, c, v, bs)
  PROVE  Begins(r)
<1>1. PICK j : j = [id |-> c, expected |-> 0, vendor |-> v, links |-> bs]
  OBVIOUS
<1>2. j \in Job /\ j.id = c /\ j.expected = 0 /\ j.links = bs /\ j.vendor = v
      /\ c \notin Vendors /\ bs # Same
  BY <1>1, CoverageAssumption DEF Job, Ids
<1>3. Begin(r, a, j, {}) /\ CanManageAll(a, bs) /\ ~Exists(c)
  BY <1>1 DEF CreateContract
<1>4. CanManageAll(a, {})
  BY DEF CanManageAll
<1>. QED BY <1>2, <1>3, <1>4 DEF Begins, After

LEMMA UpdateContractBegins ==
  ASSUME CrmTypeOK, NEW r \in Requests, NEW a \in Actors, NEW c \in Contracts, NEW v \in Vendors,
         NEW bs \in {Same} \cup SUBSET Buildings, UpdateContract(r, a, c, v, bs)
  PROVE  Begins(r)
<1>1. PICK j : j = [id |-> c, expected |-> row[c].version, vendor |-> v, links |-> bs]
  OBVIOUS
<1>2. /\ Exists(c) /\ row[c].version = Version(c) /\ Version(c) \in 0..MaxVersion
      /\ row[c].links \in SUBSET Buildings
  BY VersionType DEF UpdateContract, Ids
<1>3. /\ j \in Job /\ j.id = c /\ j.expected = Version(c) /\ j.links = bs /\ j.vendor = v
      /\ c \notin Vendors
  BY <1>1, <1>2, CoverageAssumption DEF Job, Ids
<1>4. Begin(r, a, j, row[c].links) /\ CanManageBoth(a, row[c].links, bs)
  BY <1>1 DEF UpdateContract
<1>. QED BY <1>2, <1>3, <1>4 DEF Begins, CanManageBoth, After

(* The steps by what they do.                                              *)
LEMMA CrmSteps ==
  ASSUME CrmTypeOK, [CrmNext]_crm
  PROVE  \/ UNCHANGED <<row, stage, job, before, allowed, raced>> /\ granted' \subseteq Buildings
         \/ \E a \in Actors, v \in Vendors, bs \in SUBSET Buildings : CreateVendor(a, v, bs)
         \/ \E r \in Requests : \/ Begins(r) \/ Claim(r) \/ Relink(r) \/ Commit(r)
                                \/ Reset(r) /\ UNCHANGED <<row, granted, raced>>
<1>1. CASE UNCHANGED crm
  BY <1>1 DEF crm, CrmTypeOK
<1>2. ASSUME NEW b \in Buildings, GrantAccess(b) \/ Lapse(b)
      PROVE  UNCHANGED <<row, stage, job, before, allowed, raced>> /\ granted' \subseteq Buildings
  BY <1>2 DEF GrantAccess, Lapse, CrmTypeOK
<1>3. ASSUME NEW r \in Requests, GiveUp(r) PROVE Reset(r) /\ UNCHANGED <<row, granted, raced>>
  BY <1>3 DEF GiveUp
<1>4. ASSUME NEW r \in Requests, NEW a \in Actors, NEW v \in Vendors,
             NEW bs \in {Same} \cup SUBSET Buildings, NEW c \in Contracts,
             bs # Same /\ CreateContract(r, a, c, v, bs)
      PROVE  Begins(r)
  <2>1. bs \in SUBSET Buildings
    BY <1>4
  <2>. QED BY <1>4, <2>1, CreateContractBegins
<1>. QED
  BY <1>1, <1>2, <1>3, <1>4, UpdateVendorBegins, UpdateContractBegins DEF CrmNext

(* Only contracts are raced.                                               *)
LEMMA OverlapsType ==
  ASSUME JobsSound, NEW r \in Requests, stage[r] = "linked"
  PROVE  Overlaps(r) \subseteq Contracts
<1>1. ASSUME NEW q \in Requests, stage[q] = "linked" PROVE job[q] \in Job /\ JobSound(q)
  BY <1>1 DEF JobsSound, JobSound
<1>2. ASSUME NEW q \in Requests, stage[q] = "linked", ~ForContract(q), job[r].vendor = job[q].id
      PROVE  job[r].id \in Contracts
  <2>1. job[q].id \in Vendors /\ job[r].id \in Ids
    BY <1>1, <1>2 DEF ForContract, Job, Ids
  <2>2. job[r].id \in Vendors => job[r].vendor = None
    BY <1>1 DEF JobSound
  <2>. QED BY <1>2, <2>1, <2>2, CoverageAssumption DEF Ids
<1>3. ASSUME NEW x \in Overlaps(r) PROVE x \in Contracts
  BY <1>2, <1>3 DEF Overlaps, ForContract
<1>. QED BY <1>3

LEMMA NextType ==
  ASSUME CrmTypeOK, JobsSound, [CrmNext]_crm
  PROVE  CrmTypeOK'
<1> USE DEF CrmTypeOK
<1>1. CASE UNCHANGED <<row, stage, job, before, allowed, raced>> /\ granted' \subseteq Buildings
  BY <1>1
<1>2. ASSUME NEW a \in Actors, NEW v \in Vendors, NEW bs \in SUBSET Buildings, CreateVendor(a, v, bs)
      PROVE  CrmTypeOK'
  <2>1. [version |-> 1, vendor |-> None, links |-> bs] \in Row
    BY CoverageAssumption DEF Row
  <2>. QED BY <1>2, <2>1 DEF CreateVendor
<1>3. ASSUME NEW r \in Requests, Begins(r) PROVE CrmTypeOK'
  BY <1>3, BeginType DEF Begins
<1>4. ASSUME NEW r \in Requests, Reset(r), UNCHANGED <<row, granted, raced>> PROVE CrmTypeOK'
  BY <1>4, ResetType
<1>5. ASSUME NEW r \in Requests, Claim(r) \/ Relink(r) PROVE CrmTypeOK'
  BY <1>4, <1>5 DEF Claim, Relink, Step, Stages
<1>6. ASSUME NEW r \in Requests, Commit(r) PROVE CrmTypeOK'
  <2>1. PICK x, new : Writes(r, x, new)
    BY <1>6, CommitRows DEF JobsSound
  <2>2. row' \in [Ids -> Row \cup {None}]
    BY <2>1 DEF Writes
  <2>3. Overlaps(r) \subseteq Contracts
    BY <1>6, OverlapsType DEF Commit
  <2>. QED BY <1>6, <2>2, <2>3, ResetType DEF Commit
<1>. QED BY <1>1, <1>2, <1>3, <1>4, <1>5, <1>6, CrmSteps

(***************************************************************************)
(* The requests and their locks                                            *)
(***************************************************************************)
(* Another's step leaves alone what a request remembers, and its row       *)
(* unless that gets a new version before the request has claimed it.       *)
Alone(r) == /\ stage'[r] = stage[r] /\ job'[r] = job[r] /\ before'[r] = before[r]
            /\ allowed'[r] = allowed[r]

VersionNext(x) == IF row'[x] # None THEN row'[x].version ELSE 0

LEMMA StillSound ==
  ASSUME CrmTypeOK, CrmTypeOK', NEW r \in Requests, JobSound(r), Alone(r),
         NEW x, x = job[r].id, NEW e, e = job[r].expected,
         \/ row'[x] = row[x]
         \/ stage[r] \notin Holding /\ Version(x) < VersionNext(x)
  PROVE  JobSound(r)'
<1> SUFFICES ASSUME stage[r] # "idle" PROVE JobSound(r)'
  BY DEF Alone, JobSound
<1>1. /\ job[r] \in Job /\ x \in Ids /\ e \in 0..MaxVersion
      /\ x \in Vendors => e # 0 /\ job[r].vendor = None
      /\ x \in Contracts => job[r].vendor \in Vendors
      /\ e = 0 => before[r] = {} /\ job[r].links # Same
      /\ e <= Version(x)
      /\ e # 0 /\ Version(x) = e => row[x].links = before[r]
      /\ before[r] \subseteq allowed[r] /\ Wanted(r) \subseteq allowed[r]
      /\ stage[r] \in Holding => Version(x) = e /\ e < MaxVersion
  BY DEF JobSound, Job
<1>2. Version(x) \in Nat /\ VersionNext(x) \in Nat
  BY <1>1, CoverageAssumption DEF CrmTypeOK, Version, VersionNext, Exists, Row
<1>3. /\ e <= VersionNext(x)
      /\ e # 0 /\ VersionNext(x) = e => row'[x].links = before[r]
      /\ stage[r] \in Holding => VersionNext(x) = e /\ e < MaxVersion
  <2>1. CASE row'[x] = row[x]
    <3>1. VersionNext(x) = Version(x)
      BY <2>1 DEF VersionNext, Version, Exists
    <3>. QED BY <1>1, <2>1, <3>1
  <2>2. CASE stage[r] \notin Holding /\ Version(x) < VersionNext(x)
    BY <1>1, <1>2, <2>2
  <2>. QED BY <2>1, <2>2
<1>4. Wanted(r)' = Wanted(r)
  BY DEF Alone, Wanted
<1>. QED BY <1>1, <1>3, <1>4 DEF Alone, JobSound, Version, VersionNext, Exists

LEMMA ResetAlone ==
  ASSUME CrmTypeOK, NEW r \in Requests, Reset(r)
  PROVE  stage'[r] = "idle" /\ \A q \in Requests \ {r} : Alone(q)
BY DEF CrmTypeOK, Reset, Alone

LEMMA BeginSound ==
  ASSUME CrmTypeOK, NEW r \in Requests, Begins(r)
  PROVE  /\ JobSound(r)' /\ stage'[r] = "checked" /\ UNCHANGED <<row, raced>>
         /\ \A q \in Requests \ {r} : Alone(q)
<1>1. PICK a \in Actors, j \in Job, old \in SUBSET Buildings :
         /\ Begin(r, a, j, old)
         /\ CanManageAll(a, old) /\ CanManageAll(a, After(old, j.links))
         /\ j.id \in Vendors => Exists(j.id) /\ j.vendor = None
         /\ j.id \in Contracts => j.vendor \in Vendors
         /\ IF Exists(j.id) THEN j.expected = Version(j.id) /\ old = row[j.id].links
                            ELSE j.expected = 0 /\ old = {} /\ j.links # Same
  BY DEF Begins
<1>2. /\ stage'[r] = "checked" /\ job'[r] = j /\ before'[r] = old /\ UNCHANGED <<row, raced>>
      /\ allowed'[r] = IF a = Owner THEN Buildings ELSE granted
      /\ \A q \in Requests \ {r} : Alone(q)
  BY <1>1 DEF Begin, Alone, CrmTypeOK
<1>3. After(old, j.links) \subseteq Buildings
  BY DEF After, Job
<1>4. old \subseteq allowed'[r] /\ After(old, j.links) \subseteq allowed'[r]
  BY <1>1, <1>2, <1>3 DEF CanManageAll
<1>5. Exists(j.id) <=> Version(j.id) # 0
  BY VersionType DEF Job
<1>6. Version(j.id) \in Nat
  BY VersionType DEF Job
<1>7. /\ j.id \in Vendors => j.expected # 0 /\ j.vendor = None
      /\ j.expected = 0 => old = {} /\ j.links # Same
      /\ j.expected <= Version(j.id)
      /\ j.expected # 0 /\ Version(j.id) = j.expected => row[j.id].links = old
  BY <1>1, <1>5, <1>6
<1>8. JobSound(r)'
  BY <1>1, <1>2, <1>4, <1>7 DEF JobSound, Wanted, Version, Exists, Holding
<1>. QED BY <1>2, <1>8

(* A step of a request within its transaction, before it commits.          *)
LEMMA StepSound ==
  ASSUME CrmTypeOK, NEW r \in Requests, JobSound(r), Claim(r) \/ Relink(r)
  PROVE  /\ JobSound(r)' /\ UNCHANGED <<row, raced>>
         /\ \A q \in Requests \ {r} : Alone(q)
<1>1. CASE Reset(r)
  BY <1>1, ResetAlone DEF Claim, Relink, Step, JobSound
<1>2. CASE VersionMatches(r) /\ Claim(r) /\ ~Reset(r)
  <2>1. /\ stage'[r] = "claimed"
        /\ UNCHANGED <<row, raced, job, before, allowed>> /\ stage[r] = "checked"
        /\ \A q \in Requests \ {r} : Alone(q)
    BY <1>2 DEF Claim, Step, CrmTypeOK, Alone
  <2>2. Version(job[r].id) = job[r].expected /\ job[r].expected < MaxVersion
    BY <1>2 DEF Claim, VersionMatches
  <2>. QED BY <2>1, <2>2 DEF JobSound, Wanted, Version, Exists
<1>3. CASE Relink(r) /\ ~Reset(r)
  <2>1. /\ stage'[r] = "linked" /\ stage[r] = "claimed"
        /\ UNCHANGED <<row, raced, job, before, allowed>>
        /\ \A q \in Requests \ {r} : Alone(q)
    BY <1>3 DEF Relink, Step, CrmTypeOK, Alone
  <2>. QED BY <2>1 DEF JobSound, Wanted, Version, Exists, Holding
<1>. QED BY <1>1, <1>2, <1>3 DEF Claim, Step

LEMMA NextJobs ==
  ASSUME CrmTypeOK, CrmTypeOK', JobsSound, LocksApart, [CrmNext]_crm
  PROVE  JobsSound'
<1> SUFFICES ASSUME NEW r \in Requests PROVE JobSound(r)'
  BY DEF JobsSound
<1>1. JobSound(r)
  BY DEF JobsSound
<1>2. PICK x, e : x = job[r].id /\ e = job[r].expected
  OBVIOUS
<1>3. CASE Alone(r) /\ row' = row
  BY <1>1, <1>2, <1>3, StillSound
<1>4. CASE UNCHANGED <<row, stage, job, before, allowed, raced>>
  BY <1>3, <1>4 DEF Alone
<1>5. ASSUME NEW a \in Actors, NEW v \in Vendors, NEW bs \in SUBSET Buildings, CreateVendor(a, v, bs)
      PROVE  JobSound(r)'
  <2>1. Alone(r)
    BY <1>5 DEF CreateVendor, Alone
  <2>2. CASE stage[r] = "idle"
    BY <2>1, <2>2 DEF JobSound, Alone
  <2>3. CASE stage[r] # "idle"
    <3>1. x \in Ids /\ e \in 0..MaxVersion /\ e <= Version(x) /\ (x \in Vendors => e # 0)
      BY <1>1, <1>2, <2>3 DEF JobSound, Job
    <3>2. x # v
      <4>1. Version(v) = 0
        BY <1>5 DEF CreateVendor, Version
      <4>. QED BY <3>1, <4>1
    <3>3. row'[x] = row[x]
      BY <1>5, <3>1, <3>2 DEF CreateVendor, CrmTypeOK
    <3>. QED BY <1>1, <1>2, <2>1, <3>3, StillSound
  <2>. QED BY <2>2, <2>3
<1>6. ASSUME NEW q \in Requests, Begins(q) PROVE JobSound(r)'
  BY <1>3, <1>6, BeginSound
<1>7. ASSUME NEW q \in Requests, Claim(q) \/ Relink(q) PROVE JobSound(r)'
  <2>1. JobSound(q)
    BY DEF JobsSound
  <2>. QED BY <1>3, <1>7, <2>1, StepSound
<1>8. ASSUME NEW q \in Requests, Reset(q), UNCHANGED row PROVE JobSound(r)'
  BY <1>3, <1>8, ResetAlone DEF JobSound
<1>9. ASSUME NEW q \in Requests, Commit(q) PROVE JobSound(r)'
  <2>1. PICK y, new : Writes(q, y, new)
    BY <1>9, CommitRows DEF JobsSound
  <2>2. /\ stage'[q] = "idle" /\ stage[q] = "linked" /\ \A p \in Requests \ {q} : Alone(p)
    BY <1>9, ResetAlone DEF Commit
  <2>3. CASE r = q
    BY <2>2, <2>3 DEF JobSound
  <2>4. CASE r # q /\ x # y
    <3>1. row'[x] = row[x]
      BY <2>1, <2>4 DEF Writes, CrmTypeOK
    <3>. QED BY <1>1, <1>2, <2>2, <2>4, <3>1, StillSound
  <2>5. CASE r # q /\ x = y
    <3>1. stage[r] \notin Holding
      BY <1>2, <2>1, <2>2, <2>5 DEF LocksApart, Writes, Holding
    <3>2. row'[x] = new /\ new.version = Version(x) + 1 /\ new # None
      BY <2>1, <2>5, CoverageAssumption DEF Writes, CrmTypeOK
    <3>3. Version(x) < VersionNext(x)
      BY <2>1, <2>5, <3>2, VersionType DEF VersionNext, Writes
    <3>. QED BY <1>1, <1>2, <2>2, <2>5, <3>1, <3>3, StillSound
  <2>. QED BY <2>3, <2>4, <2>5
<1>. QED BY <1>4, <1>5, <1>6, <1>7, <1>8, <1>9, CrmSteps

LEMMA NextApart ==
  ASSUME CrmTypeOK, JobsSound, LocksApart, [CrmNext]_crm
  PROVE  LocksApart'
<1>1. CASE UNCHANGED <<stage, job>>
  BY <1>1 DEF LocksApart
<1>2. ASSUME NEW q \in Requests, stage'[q] \notin Holding, \A r \in Requests \ {q} : Alone(r)
      PROVE  LocksApart'
  BY <1>2 DEF LocksApart, Alone
<1>3. ASSUME NEW q \in Requests, Begins(q) PROVE LocksApart'
  BY <1>2, <1>3, BeginSound DEF Holding
<1>4. ASSUME NEW q \in Requests, Reset(q) PROVE LocksApart'
  BY <1>2, <1>4, ResetAlone DEF Holding
<1>5. ASSUME NEW q \in Requests, Claim(q), ~Reset(q) PROVE LocksApart'
  BY <1>5 DEF Claim, Step, RowFree, CrmTypeOK, LocksApart, Holding
<1>6. ASSUME NEW q \in Requests, Relink(q), ~Reset(q) PROVE LocksApart'
  BY <1>6 DEF Relink, Step, CrmTypeOK, LocksApart, Holding
<1>. QED
  BY <1>1, <1>3, <1>4, <1>5, <1>6, CrmSteps DEF CreateVendor, Commit

LEMMA NextVendors ==
  ASSUME CrmTypeOK, JobsSound, ContractsHaveVendor, [CrmNext]_crm
  PROVE  ContractsHaveVendor'
<1>1. CASE UNCHANGED row
  BY <1>1 DEF ContractsHaveVendor, Exists
<1>2. ASSUME NEW a \in Actors, NEW v \in Vendors, NEW bs \in SUBSET Buildings, CreateVendor(a, v, bs)
      PROVE  ContractsHaveVendor'
  BY <1>2, CoverageAssumption DEF CreateVendor, CrmTypeOK, Ids, ContractsHaveVendor, Exists
<1>3. ASSUME NEW r \in Requests, Commit(r) PROVE ContractsHaveVendor'
  <2>1. JobSound(r) /\ stage[r] = "linked"
    BY <1>3 DEF JobsSound, Commit
  <2>2. PICK x, new : Writes(r, x, new)
    BY <1>3, <2>1, CommitRows
  <2>3. x \in Contracts => new.vendor \in Vendors
    BY <2>1, <2>2 DEF JobSound, Writes
  <2>. QED BY <2>2, <2>3 DEF Writes, CrmTypeOK, Ids, ContractsHaveVendor, Exists
<1>. QED
  BY <1>1, <1>2, <1>3, CrmSteps, BeginSound DEF Claim, Relink, Step

(***************************************************************************)
(* Coverage                                                                *)
(***************************************************************************)
(* What a step of another leaves of a request that has passed the triggers.*)
LEMMA StillPassed ==
  ASSUME NEW r \in Requests, Alone(r), ContractSound(r), UnlinkingSound(r), row' = row, raced' = raced
  PROVE  ContractSound(r)' /\ UnlinkingSound(r)'
BY DEF Alone, ContractSound, UnlinkingSound, Linked, Exists, Wanted, Removed

LEMMA RelinkPassed ==
  ASSUME CrmTypeOK, NEW r \in Requests, JobSound(r), CoveredUnlessRaced,
         Relink(r), TriggersAgree(r)
  PROVE  ContractSound(r)' /\ UnlinkingSound(r)'
<1>1. /\ stage[r] = "claimed" /\ UNCHANGED <<row, raced, job, before>>
  BY DEF Relink, Step
<1>2. PICK x, want : x = job[r].id /\ want = Wanted(r)
  OBVIOUS
<1>3. /\ job[r] \in Job /\ x \in Ids /\ Version(x) = job[r].expected
      /\ job[r].expected # 0 => row[x].links = before[r]
  BY <1>1, <1>2 DEF JobSound, Holding, Job
<1>4. ASSUME x \in Contracts \ raced PROVE Linked(job[r].vendor, want)
  <2>1. CASE Untouched(r)
    <3>1. /\ Exists(x) /\ row[x].vendor = job[r].vendor /\ job[r].links = Same
          /\ Linked(row[x].vendor, row[x].links)
      BY <1>2, <1>4, <2>1 DEF Untouched, CoveredUnlessRaced, Covered
    <3>2. row[x].links = before[r] /\ want = before[r]
      BY <1>2, <1>3, <3>1, VersionType, WantedType
    <3>. QED BY <3>1, <3>2
  <2>2. CASE Linked(job[r].vendor, Wanted(r))
    BY <1>2, <2>2
  <2>. QED BY <1>2, <1>4, <2>1, <2>2 DEF TriggersAgree, ForContract
<1>5. ASSUME x \in Vendors PROVE ~Referenced(x, Removed(r))
  BY <1>2, <1>5, CoverageAssumption DEF TriggersAgree, ForContract
<1>6. ContractSound(r)'
  BY <1>1, <1>2, <1>4 DEF ContractSound, Linked, Exists, Wanted
<1>7. UnlinkingSound(r)'
  BY <1>1, <1>2, <1>5 DEF UnlinkingSound, Referenced, Exists, Wanted, Removed
<1>. QED BY <1>6, <1>7

LEMMA CreateCovered ==
  ASSUME CrmTypeOK, JobsSound, ContractsHaveVendor, PassedSound, CoveredUnlessRaced,
         NEW a \in Actors, NEW v \in Vendors, NEW bs \in SUBSET Buildings, CreateVendor(a, v, bs)
  PROVE  PassedSound' /\ CoveredUnlessRaced'
<1>1. /\ \A x \in Ids : x # v => row'[x] = row[x]
      /\ row[v] = None /\ UNCHANGED <<stage, job, before, raced>>
  BY DEF CreateVendor, CrmTypeOK, Exists
<1>2. \A c \in Contracts : row'[c] = row[c]
  BY <1>1, CoverageAssumption DEF Ids
<1>3. ASSUME NEW w \in Vendors, NEW links, Linked(w, links) PROVE row'[w] = row[w]
  BY <1>1, <1>3 DEF Ids, Linked, Exists
<1>4. CoveredUnlessRaced'
  BY <1>1, <1>2, <1>3 DEF CoveredUnlessRaced, Covered, ContractsHaveVendor, Linked, Exists
<1>5. ASSUME NEW r \in Requests PROVE ContractSound(r)' /\ UnlinkingSound(r)'
  <2>1. JobSound(r) /\ ContractSound(r) /\ UnlinkingSound(r)
    BY DEF JobsSound, PassedSound
  <2>2. ContractSound(r)'
    <3>1. PICK w, links : w = job[r].vendor /\ links = Wanted(r)
      OBVIOUS
    <3>2. stage[r] = "linked" /\ job[r].id \in Contracts \ raced => Linked(w, links) /\ w \in Vendors
      BY <2>1, <3>1 DEF ContractSound, JobSound
    <3>3. stage[r] = "linked" /\ job[r].id \in Contracts \ raced => Linked(w, links) /\ row'[w] = row[w]
      BY <1>3, <3>2
    <3>. QED BY <1>1, <3>1, <3>3 DEF ContractSound, Linked, Exists, Wanted
  <2>3. UnlinkingSound(r)'
    BY <1>1, <1>2, <2>1 DEF UnlinkingSound, Exists, Wanted, Removed
  <2>. QED BY <2>2, <2>3
<1>. QED BY <1>4, <1>5 DEF PassedSound

(* A contract's commit: the vendors' rows stay, and an unlinking past its  *)
(* check that removes one of its buildings makes it raced.                 *)
LEMMA ContractCommit ==
  ASSUME CrmTypeOK, JobsSound, ContractsHaveVendor, PassedSound, CoveredUnlessRaced,
         NEW r \in Requests, Commit(r), NEW x \in Contracts, NEW new, Writes(r, x, new)
  PROVE  PassedSound' /\ CoveredUnlessRaced'
<1>1. /\ \A y \in Ids : y # x => row'[y] = row[y]
      /\ row'[x] = new /\ new.vendor = job[r].vendor /\ new.links = Wanted(r)
      /\ x = job[r].id /\ new # None
  BY CoverageAssumption DEF Writes, CrmTypeOK
<1>2. \A v \in Vendors : row'[v] = row[v]
  BY <1>1, CoverageAssumption DEF Ids
<1>3. \A c \in Contracts : c # x => row'[c] = row[c]
  BY <1>1 DEF Ids
<1>4. /\ stage[r] = "linked" /\ stage'[r] = "idle" /\ raced' = raced \cup Overlaps(r)
      /\ \A q \in Requests \ {r} : Alone(q)
  BY ResetAlone DEF Commit
<1>5. job[r].vendor \in Vendors
  BY <1>1, <1>4 DEF JobsSound, JobSound
<1>6. x \notin raced => Linked(new.vendor, new.links)
  BY <1>1, <1>4 DEF PassedSound, ContractSound
<1>7. CoveredUnlessRaced'
  <2> SUFFICES ASSUME NEW c \in Contracts, c \notin raced', row'[c] # None
               PROVE  row'[row'[c].vendor] # None /\ row'[c].links \subseteq row'[row'[c].vendor].links
    BY DEF CoveredUnlessRaced, Covered, Linked, Exists
  <2>1. CASE c = x
    BY <1>1, <1>2, <1>4, <1>5, <1>6, <2>1 DEF Linked, Exists
  <2>2. CASE c # x
    <3>1. row'[c] = row[c] /\ row[c].vendor \in Vendors /\ Linked(row[c].vendor, row[c].links)
      BY <1>3, <1>4, <2>2 DEF CoveredUnlessRaced, Covered, ContractsHaveVendor, Exists
    <3>. QED BY <1>2, <3>1 DEF Linked, Exists
  <2>. QED BY <2>1, <2>2
<1>8. ASSUME NEW q \in Requests, q # r PROVE ContractSound(q)' /\ UnlinkingSound(q)'
  <2>1. /\ Alone(q) /\ JobSound(q) /\ ContractSound(q) /\ UnlinkingSound(q)
    BY <1>4, <1>8 DEF JobsSound, PassedSound
  <2>2. PICK w, want, gone : w = job[q].vendor /\ want = Wanted(q) /\ gone = Removed(q)
    OBVIOUS
  <2>3. want = Wanted(q)' /\ gone = Removed(q)' /\ stage'[q] = stage[q] /\ job'[q] = job[q]
    BY <2>1, <2>2 DEF Alone, Wanted, Removed
  <2>4. ContractSound(q)'
    <3>1. stage[q] = "linked" /\ job[q].id \in Contracts \ raced =>
             Linked(w, want) /\ row'[w] = row[w]
      BY <1>2, <2>1, <2>2 DEF JobSound, ContractSound
    <3>. QED BY <1>4, <2>2, <2>3, <3>1 DEF ContractSound, Linked, Exists
  <2>5. UnlinkingSound(q)'
    <3> SUFFICES ASSUME stage[q] = "linked", job[q].id \in Vendors,
                        NEW c \in Contracts, c \notin raced', row'[c] # None,
                        row'[c].vendor = job[q].id
                 PROVE  row'[c].links \cap gone = {}
      BY <2>3 DEF UnlinkingSound, Exists
    <3>1. CASE c # x
      BY <1>3, <1>4, <2>1, <2>2, <3>1 DEF UnlinkingSound, Exists
    <3>2. CASE c = x
      <4>1. job[r].vendor = job[q].id /\ row'[c].links = Wanted(r)
        BY <1>1, <3>2
      <4>2. job[q].id \notin Contracts
        BY CoverageAssumption
      <4>3. Wanted(r) \cap Removed(q) # {} => job[r].id \in Overlaps(r)
        BY <4>1, <4>2 DEF Overlaps, ForContract
      <4>. QED BY <1>1, <1>4, <2>2, <3>2, <4>1, <4>3
    <3>. QED BY <3>1, <3>2
  <2>. QED BY <2>4, <2>5
<1>9. ContractSound(r)' /\ UnlinkingSound(r)'
  BY <1>4 DEF ContractSound, UnlinkingSound
<1>. QED BY <1>7, <1>8, <1>9 DEF PassedSound

(* A vendor's commit: the contracts' rows stay, none outside raced has a   *)
(* building that goes, and what has passed its check with one gets raced.  *)
LEMMA VendorCommit ==
  ASSUME CrmTypeOK, JobsSound, ContractsHaveVendor, PassedSound, CoveredUnlessRaced,
         NEW r \in Requests, Commit(r), NEW x \in Vendors, NEW new, Writes(r, x, new)
  PROVE  PassedSound' /\ CoveredUnlessRaced'
<1>1. /\ \A y \in Ids : y # x => row'[y] = row[y]
      /\ row'[x] = new /\ new.links = Wanted(r) /\ x = job[r].id /\ new # None
  BY CoverageAssumption DEF Writes, CrmTypeOK
<1>2. \A c \in Contracts : row'[c] = row[c]
  BY <1>1, CoverageAssumption DEF Ids
<1>3. /\ stage[r] = "linked" /\ stage'[r] = "idle" /\ raced' = raced \cup Overlaps(r)
      /\ \A q \in Requests \ {r} : Alone(q)
  BY ResetAlone DEF Commit
<1>4. Exists(x) => row[x].links = before[r]
  BY <1>1, <1>3, CommitLinks DEF JobsSound
<1>5. ASSUME NEW w \in Vendors, NEW links, Linked(w, links), w = x => links \cap Removed(r) = {}
      PROVE  row'[w] # None /\ links \subseteq row'[w].links
  <2>1. CASE w # x
    BY <1>1, <1>5, <2>1 DEF Ids, Linked, Exists
  <2>2. CASE w = x
    <3>1. links \subseteq before[r] /\ links \cap (before[r] \ Wanted(r)) = {}
      BY <1>4, <1>5, <2>2 DEF Linked, Removed
    <3>. QED BY <1>1, <2>2, <3>1
  <2>. QED BY <2>1, <2>2
<1>6. CoveredUnlessRaced'
  <2> SUFFICES ASSUME NEW c \in Contracts, c \notin raced', row'[c] # None
               PROVE  row'[row'[c].vendor] # None /\ row'[c].links \subseteq row'[row'[c].vendor].links
    BY DEF CoveredUnlessRaced, Covered, Linked, Exists
  <2>1. row'[c] = row[c] /\ row[c].vendor \in Vendors /\ Linked(row[c].vendor, row[c].links)
    BY <1>2, <1>3 DEF CoveredUnlessRaced, Covered, ContractsHaveVendor, Exists
  <2>2. row[c].vendor = x => row[c].links \cap Removed(r) = {}
    BY <1>1, <1>2, <1>3 DEF PassedSound, UnlinkingSound, Exists
  <2>. QED BY <1>5, <2>1, <2>2
<1>7. ASSUME NEW q \in Requests, q # r PROVE ContractSound(q)' /\ UnlinkingSound(q)'
  <2>1. /\ Alone(q) /\ JobSound(q) /\ ContractSound(q) /\ UnlinkingSound(q)
    BY <1>3, <1>7 DEF JobsSound, PassedSound
  <2>2. PICK w, want, gone : w = job[q].vendor /\ want = Wanted(q) /\ gone = Removed(q)
    OBVIOUS
  <2>3. want = Wanted(q)' /\ gone = Removed(q)' /\ stage'[q] = stage[q] /\ job'[q] = job[q]
    BY <2>1, <2>2 DEF Alone, Wanted, Removed
  <2>4. ContractSound(q)'
    <3> SUFFICES ASSUME stage[q] = "linked", job[q].id \in Contracts, job[q].id \notin raced'
                 PROVE  row'[w] # None /\ want \subseteq row'[w].links
      BY <2>2, <2>3 DEF ContractSound, Linked, Exists
    <3>1. Linked(w, want) /\ w \in Vendors
      BY <1>3, <2>1, <2>2 DEF JobSound, ContractSound
    <3>2. x \notin Contracts
      BY CoverageAssumption
    <3>3. w = x /\ want \cap Removed(r) # {} => job[q].id \in Overlaps(r)
      BY <1>1, <2>2 DEF Overlaps, ForContract
    <3>. QED BY <1>3, <1>5, <3>1, <3>3
  <2>5. UnlinkingSound(q)'
    BY <1>2, <1>3, <2>1, <2>2, <2>3 DEF UnlinkingSound, Exists
  <2>. QED BY <2>4, <2>5
<1>8. ContractSound(r)' /\ UnlinkingSound(r)'
  BY <1>3 DEF ContractSound, UnlinkingSound
<1>. QED BY <1>6, <1>7, <1>8 DEF PassedSound

LEMMA NextCovered ==
  ASSUME CrmTypeOK, JobsSound, ContractsHaveVendor, PassedSound, CoveredUnlessRaced,
         [CrmNext]_crm
  PROVE  PassedSound' /\ CoveredUnlessRaced'
<1>1. ASSUME row' = row, raced' = raced PROVE CoveredUnlessRaced'
  BY <1>1 DEF CoveredUnlessRaced, Covered, Linked, Exists
<1>2. ASSUME row' = row, raced' = raced, NEW r \in Requests, \A q \in Requests \ {r} : Alone(q),
             ContractSound(r)' /\ UnlinkingSound(r)'
      PROVE  PassedSound' /\ CoveredUnlessRaced'
  BY <1>1, <1>2, StillPassed DEF PassedSound
<1>3. CASE UNCHANGED <<row, stage, job, before, allowed, raced>>
  <2>1. \A q \in Requests : Alone(q)
    BY <1>3 DEF Alone
  <2>. QED BY <1>1, <1>3, <2>1, StillPassed DEF PassedSound
<1>4. ASSUME NEW r \in Requests, stage'[r] # "linked" PROVE ContractSound(r)' /\ UnlinkingSound(r)'
  BY <1>4 DEF ContractSound, UnlinkingSound
<1>5. ASSUME NEW r \in Requests, Begins(r) PROVE PassedSound' /\ CoveredUnlessRaced'
  BY <1>2, <1>4, <1>5, BeginSound
<1>6. ASSUME NEW r \in Requests, Reset(r), UNCHANGED <<row, raced>>
      PROVE  PassedSound' /\ CoveredUnlessRaced'
  BY <1>2, <1>4, <1>6, ResetAlone
<1>7. ASSUME NEW r \in Requests, Claim(r), ~Reset(r) PROVE PassedSound' /\ CoveredUnlessRaced'
  <2>1. /\ stage'[r] = "claimed" /\ UNCHANGED <<row, raced>>
        /\ \A q \in Requests \ {r} : Alone(q)
    BY <1>7 DEF Claim, Step, CrmTypeOK, Alone
  <2>. QED BY <1>2, <1>4, <2>1
<1>8. ASSUME NEW r \in Requests, Relink(r), ~Reset(r) PROVE PassedSound' /\ CoveredUnlessRaced'
  <2>1. /\ TriggersAgree(r) /\ UNCHANGED <<row, raced>>
        /\ \A q \in Requests \ {r} : Alone(q)
    BY <1>8 DEF Relink, Step, CrmTypeOK, Alone
  <2>2. ContractSound(r)' /\ UnlinkingSound(r)'
    BY <1>8, <2>1, RelinkPassed DEF JobsSound
  <2>. QED BY <1>2, <2>1, <2>2
<1>9. ASSUME NEW r \in Requests, Commit(r) PROVE PassedSound' /\ CoveredUnlessRaced'
  <2>1. PICK x, new : Writes(r, x, new)
    BY <1>9, CommitRows DEF JobsSound
  <2>2. x \in Contracts \/ x \in Vendors
    BY <2>1 DEF Writes, Ids
  <2>. QED BY <1>9, <2>1, <2>2, ContractCommit, VendorCommit
<1>10. ASSUME NEW r \in Requests, Claim(r) \/ Relink(r)
       PROVE  PassedSound' /\ CoveredUnlessRaced'
  BY <1>6, <1>7, <1>8, <1>10 DEF Claim, Relink, Step
<1>. QED BY <1>3, <1>5, <1>6, <1>9, <1>10, CreateCovered, CrmSteps

LEMMA NextInvariant == Invariant /\ [CrmNext]_crm => Invariant'
BY NextType, NextJobs, NextApart, NextVendors, NextCovered DEF Invariant

LEMMA InvariantHolds == CrmSpec => []Invariant
BY InitInvariant, NextInvariant, PTL DEF CrmSpec

(***************************************************************************)
(* The theorems                                                            *)
(***************************************************************************)
(* The rows, the requests and the histories keep their types.              *)
THEOREM TypesHold == CrmSpec => []CrmTypeOK
<1>1. Invariant => CrmTypeOK
  BY DEF Invariant
<1>. QED BY <1>1, InvariantHolds, PTL

(* A contract covers only buildings of its vendor unless its change and an *)
(* unlinking of its buildings were both past their checks when the first   *)
(* of them committed.                                                      *)
THEOREM CoveredOrRaced == CrmSpec => []CoveredUnlessRaced
<1>1. Invariant => CoveredUnlessRaced
  BY DEF Invariant
<1>. QED BY <1>1, InvariantHolds, PTL

(* A commit replaces the version its request has read, and leaves the      *)
(* record with the buildings the request asked for.                        *)
THEOREM ChangesAsked == CrmSpec => LinksAsAsked
<1>1. ASSUME Invariant, NEW r \in Requests, Commit(r)
      PROVE  LET x == job[r].id IN Version(x) = job[r].expected /\ row'[x].links = Wanted(r)
  <2>1. CrmTypeOK /\ JobSound(r) /\ stage[r] = "linked"
    BY <1>1 DEF Invariant, JobsSound, Commit
  <2>2. PICK x, new : Writes(r, x, new)
    BY <1>1, <2>1, CommitRows
  <2>3. row'[x].links = Wanted(r)
    BY <2>1, <2>2 DEF Writes, CrmTypeOK
  <2>4. Version(job[r].id) = job[r].expected
    BY <2>1, CommitLinks
  <2>. QED BY <2>2, <2>3, <2>4 DEF Writes
<1>2. Invariant =>
        \A r \in Requests : Commit(r) =>
           LET x == job[r].id IN
           /\ Version(x) = job[r].expected
           /\ row'[x].links = Wanted(r)
  BY <1>1
<1>. QED BY <1>2, InvariantHolds, PTL DEF CrmSpec, LinksAsAsked

(* A commit concerns only buildings, those of the record and those it is   *)
(* to have, that its actor could manage when it was checked.               *)
THEOREM ChangesAllowed == CrmSpec => ChangesAuthorized
<1>1. ASSUME Invariant, NEW r \in Requests, Commit(r)
      PROVE  LET x == job[r].id IN /\ row'[x].links \subseteq allowed[r]
                                   /\ Exists(x) => row[x].links \subseteq allowed[r]
  <2>1. CrmTypeOK /\ JobSound(r) /\ stage[r] = "linked"
    BY <1>1 DEF Invariant, JobsSound, Commit
  <2>2. PICK x, new : Writes(r, x, new)
    BY <1>1, <2>1, CommitRows
  <2>3. row'[x].links = Wanted(r)
    BY <2>1, <2>2 DEF Writes, CrmTypeOK
  <2>4. Wanted(r) \subseteq allowed[r] /\ before[r] \subseteq allowed[r]
    BY <2>1 DEF JobSound
  <2>5. Exists(job[r].id) => row[job[r].id].links = before[r]
    BY <2>1, CommitLinks
  <2>. QED BY <2>2, <2>3, <2>4, <2>5 DEF Writes
<1>2. Invariant =>
        \A r \in Requests : Commit(r) =>
           LET x == job[r].id IN
           /\ row'[x].links \subseteq allowed[r]
           /\ Exists(x) => row[x].links \subseteq allowed[r]
  BY <1>1
<1>. QED BY <1>2, InvariantHolds, PTL DEF CrmSpec, ChangesAuthorized
=============================================================================
