-------------------------- MODULE OrganizationProofs --------------------------
(* Theorems about the records of an organization, for any vendors,         *)
(* contracts, notices, lists, versions and requests.                       *)
EXTENDS Organization, VendorCoverageProofs, FiniteSetTheorems, WellFoundedInduction

(***************************************************************************)
(* The webhook of the fake bank                                            *)
(***************************************************************************)
(* The property is inductive with the types: the index decides alone.      *)
BankInvariant == Bank!BankTypeOK /\ Bank!EventsRecordedOnce

LEMMA InitBank == Bank!NoticeAssumption /\ Bank!BankInit => BankInvariant
BY DEF Bank!NoticeAssumption, Bank!BankInit, BankInvariant, Bank!BankTypeOK,
   Bank!EventsRecordedOnce

(* The unique index: a notice enters the table only as the first of its    *)
(* event.                                                                  *)
LEMMA FirstOfEvent ==
  ASSUME Bank!EventsRecordedOnce, NEW n, ~Bank!Recorded(n), delivery' = delivery \cup {n},
         answered' \subseteq answered \cup {[notice |-> n, duplicate |-> FALSE]}
  PROVE  Bank!EventsRecordedOnce'
BY DEF Bank!EventsRecordedOnce, Bank!Recorded

LEMMA NextOnce ==
  ASSUME BankInvariant, [Bank!BankNext]_bank
  PROVE  Bank!EventsRecordedOnce'
<1> USE DEF BankInvariant
<1>1. CASE Bank!Later \/ UNCHANGED bank
  BY <1>1 DEF Bank!Later, bank, Bank!EventsRecordedOnce
<1>2. ASSUME NEW n \in Notices, Bank!Replay(n) PROVE Bank!EventsRecordedOnce'
  BY <1>2 DEF Bank!Replay, Bank!Answer, Bank!EventsRecordedOnce
<1>3. ASSUME NEW r \in Requests, NEW n \in Notices, Bank!Receive(r, n)
      PROVE  Bank!EventsRecordedOnce'
  BY <1>3 DEF Bank!Receive, Bank!EventsRecordedOnce
<1>4. ASSUME NEW r \in Requests, Bank!Record(r) PROVE Bank!EventsRecordedOnce'
  <2>1. CASE ~Bank!Taken(reading[r])
    BY <1>4, <2>1, FirstOfEvent DEF Bank!Record, Bank!Taken, Bank!Answer
  <2>2. CASE Bank!Taken(reading[r])
    BY <1>4, <2>2 DEF Bank!Record, Bank!EventsRecordedOnce
  <2>. QED BY <2>1, <2>2
<1>5. ASSUME NEW r \in Requests, Bank!Unanswered(r) PROVE Bank!EventsRecordedOnce'
  BY <1>5, FirstOfEvent DEF Bank!Unanswered, Bank!Taken
<1>6. ASSUME NEW r \in Requests, Bank!Fail(r) PROVE Bank!EventsRecordedOnce'
  BY <1>6 DEF Bank!Fail, Bank!EventsRecordedOnce
<1>. QED
  BY <1>1, <1>2, <1>3, <1>4, <1>5, <1>6 DEF Bank!BankNext

(* What the provider is told is an answer to a notice.                     *)
LEMMA AnswerType ==
  ASSUME Bank!BankTypeOK, NEW n \in Notices, NEW b \in BOOLEAN, Bank!Answer(n, b)
  PROVE  answered' \subseteq [notice: Notices, duplicate: BOOLEAN]
<1>1. [notice |-> n, duplicate |-> b] \in [notice: Notices, duplicate: BOOLEAN]
  OBVIOUS
<1>. QED BY <1>1, Zenon DEF Bank!Answer, Bank!BankTypeOK

LEMMA NextBankTypes ==
  ASSUME Bank!NoticeAssumption, Bank!BankTypeOK, [Bank!BankNext]_bank
  PROVE  Bank!BankTypeOK'
<1> USE DEF Bank!NoticeAssumption, Bank!BankTypeOK
<1>1. CASE Bank!Later \/ UNCHANGED bank
  BY <1>1 DEF Bank!Later, bank
<1>2. ASSUME NEW n \in Notices, Bank!Replay(n) PROVE Bank!BankTypeOK'
  <2>1. answered' \subseteq [notice: Notices, duplicate: BOOLEAN]
    BY <1>2, AnswerType, Zenon DEF Bank!Replay
  <2>. QED BY <1>2, <2>1 DEF Bank!Replay
<1>3. ASSUME NEW r \in Requests, NEW n \in Notices, Bank!Receive(r, n) PROVE Bank!BankTypeOK'
  BY <1>3 DEF Bank!Receive
<1>4. ASSUME NEW r \in Requests, Bank!Record(r) PROVE Bank!BankTypeOK'
  <2>1. reading[r] \in Notices
    BY <1>4 DEF Bank!Record
  <2>2. CASE ~Bank!Taken(reading[r])
    <3>1. answered' \subseteq [notice: Notices, duplicate: BOOLEAN]
      BY <1>4, <2>1, <2>2, AnswerType, Zenon DEF Bank!Record
    <3>. QED BY <1>4, <2>1, <2>2, <3>1 DEF Bank!Record, Bank!Done
  <2>3. CASE Bank!Taken(reading[r])
    BY <1>4, <2>3 DEF Bank!Record, Bank!Done
  <2>. QED BY <2>2, <2>3
<1>5. ASSUME NEW r \in Requests, Bank!Unanswered(r) \/ Bank!Fail(r) PROVE Bank!BankTypeOK'
  BY <1>5 DEF Bank!Unanswered, Bank!Fail, Bank!Done
<1>. QED
  BY <1>1, <1>2, <1>3, <1>4, <1>5 DEF Bank!BankNext

(* Listings counts with its own instance of FiniteSets.                    *)
LEMMA SameFinite == \A S : Lists!IsFiniteSet(S) <=> IsFiniteSet(S)
BY DEF Lists!IsFiniteSet, IsFiniteSet

LEMMA SameCardinality == \A S : Lists!Cardinality(S) = Cardinality(S)
BY DEF Lists!Cardinality, Cardinality

(***************************************************************************)
(* The order of a list                                                     *)
(***************************************************************************)
Rows == {i \in RowIds : table[i] # None}

LEMMA RowTypes ==
  ASSUME Lists!ListAssumption, Lists!ListTypeOK, NEW i \in Rows
  PROVE  i \in Nat /\ table[i] \in Lists!Entry /\ table[i].place \in Nat
BY DEF Lists!ListAssumption, Lists!ListTypeOK, Rows, Lists!Entry

LEMMA OrderIs ==
  ASSUME Lists!ListAssumption, Lists!ListTypeOK, NEW i \in Rows, NEW j \in Rows, NEW k \in Rows
  PROVE  /\ ~Lists!Earlier(i, i)
         /\ i = j \/ Lists!Earlier(i, j) \/ Lists!Earlier(j, i)
         /\ ~(Lists!Earlier(i, j) /\ Lists!Earlier(j, i))
         /\ Lists!Earlier(i, j) /\ Lists!Earlier(j, k) => Lists!Earlier(i, k)
BY RowTypes DEF Lists!Earlier, Lists!Lower

LEMMA SmallestIs ==
  ASSUME NEW S \in SUBSET Nat, S # {}
  PROVE  \E x \in S : \A y \in S : x <= y
<1>1. PICK R : R = OpToRel(<, Nat)
  OBVIOUS
<1>2. IsWellFoundedOn(R, Nat)
  BY <1>1, NatLessThanWellFounded
<1>3. PICK x \in S : \A y \in S : ~ (<<y, x>> \in R)
  BY <1>2, WFMin, Zenon
<1>4. ASSUME NEW y \in S PROVE x <= y
  <2>1. x \in Nat /\ y \in Nat /\ <<y, x>> \in Nat \X Nat
    OBVIOUS
  <2>2. y < x => <<y, x>> \in R
    BY <1>1, <2>1 DEF OpToRel
  <2>3. ~ (y < x)
    BY <1>3, <2>2, Zenon
  <2>. QED BY <2>1, <2>3
<1>. QED BY <1>4

(* The rows of the result before a row; their number is its rank.          *)
Ahead(i) == {j \in Lists!Result : Lists!Earlier(j, i)}

LEMMA RankIs ==
  ASSUME Lists!ListAssumption, NEW i
  PROVE  /\ IsFiniteSet(Ahead(i)) /\ Lists!Rank(i) = Cardinality(Ahead(i)) /\ Lists!Rank(i) \in Nat
         /\ Lists!Rank(i) = 0 <=> Ahead(i) = {}
<1>1. Ahead(i) \in SUBSET RowIds
  BY DEF Ahead, Lists!Result
<1>2. IsFiniteSet(Ahead(i))
  BY <1>1, SameFinite, FS_Subset DEF Lists!ListAssumption
<1>3. Lists!Rank(i) = Cardinality(Ahead(i))
  BY SameCardinality DEF Lists!Rank, Ahead
<1>. QED BY <1>2, <1>3, FS_CardinalityType, FS_EmptySet

LEMMA RankOrders ==
  ASSUME Lists!ListAssumption, Lists!ListTypeOK, NEW i \in Lists!Result,
         NEW j \in Lists!Result, Lists!Earlier(i, j)
  PROVE  Lists!Rank(i) < Lists!Rank(j)
<1>0. Lists!Result \subseteq Rows
  BY DEF Lists!Result, Rows, Lists!Found
<1>1. Ahead(i) \subseteq Ahead(j)
  BY <1>0, OrderIs DEF Ahead
<1>2. i \in Ahead(j) /\ i \notin Ahead(i)
  BY <1>0, OrderIs DEF Ahead
<1>3. /\ IsFiniteSet(Ahead(i)) /\ Lists!Rank(i) = Cardinality(Ahead(i)) /\ Lists!Rank(i) \in Nat
      /\ IsFiniteSet(Ahead(j)) /\ Lists!Rank(j) = Cardinality(Ahead(j)) /\ Lists!Rank(j) \in Nat
  BY RankIs
<1>4. Lists!Rank(i) <= Lists!Rank(j) /\ (Lists!Rank(i) = Lists!Rank(j) => Ahead(i) = Ahead(j))
  BY <1>1, <1>3, FS_Subset
<1>. QED BY <1>2, <1>3, <1>4

(* A row that is not the first has one right before it.                    *)
LEMMA RowBefore ==
  ASSUME Lists!ListAssumption, Lists!ListTypeOK, NEW e \in Lists!Result, Lists!Rank(e) # 0
  PROVE  \E j \in Lists!Result : Lists!Earlier(j, e) /\ Lists!Rank(e) = Lists!Rank(j) + 1
<1>0. Lists!Result \subseteq Rows /\ e \in Rows
  BY DEF Lists!Result, Rows, Lists!Found
<1> DEFINE Gaps == {Lists!Rank(e) - Lists!Rank(j) : j \in Ahead(e)}
<1>1. Ahead(e) # {} /\ Lists!Rank(e) \in Nat
  BY RankIs
<1>2. \A j \in Ahead(e) : Lists!Rank(j) \in Nat /\ Lists!Rank(j) < Lists!Rank(e)
  BY RankIs, RankOrders DEF Ahead
<1>3. Gaps \in SUBSET Nat /\ Gaps # {}
  BY <1>1, <1>2
<1>4. \E x \in Gaps : \A y \in Gaps : x <= y
  <2>. HIDE DEF Gaps
  <2>. QED BY <1>3, SmallestIs, Zenon
<1>5. PICK j \in Ahead(e) : \A y \in Gaps : Lists!Rank(e) - Lists!Rank(j) <= y
  BY <1>4
<1>6. \A k \in Ahead(e) : Lists!Rank(k) <= Lists!Rank(j)
  BY <1>1, <1>2, <1>5
<1>7. j \in Lists!Result /\ Lists!Earlier(j, e)
  BY DEF Ahead
<1>8. Ahead(e) = Ahead(j) \cup {j}
  <2>1. ASSUME NEW k \in Ahead(e), k # j PROVE k \in Ahead(j)
    <3>1. k \in Lists!Result
      BY DEF Ahead
    <3>2. ~Lists!Earlier(j, k)
      BY <1>2, <1>6, <1>7, <3>1, RankOrders
    <3>. QED BY <1>0, <1>7, <2>1, <3>1, <3>2, OrderIs DEF Ahead
  <2>2. ASSUME NEW k \in Ahead(j) PROVE k \in Ahead(e)
    BY <1>0, <1>7, <2>2, OrderIs DEF Ahead
  <2>. QED BY <2>1, <2>2
<1>9. j \notin Ahead(j)
  BY <1>0, <1>7, OrderIs DEF Ahead
<1>10. IsFiniteSet(Ahead(j))
       /\ Lists!Rank(j) = Cardinality(Ahead(j)) /\ Lists!Rank(e) = Cardinality(Ahead(e))
  BY RankIs
<1>11. Lists!Rank(e) = Lists!Rank(j) + 1
  BY <1>8, <1>9, <1>10, FS_AddElement
<1>. QED BY <1>7, <1>11

(* The ranks have no gaps.                                                 *)
LEMMA RankTaken ==
  ASSUME Lists!ListAssumption, Lists!ListTypeOK, NEW m \in Nat, NEW i \in Lists!Result,
         Lists!Rank(i) >= m
  PROVE  \E j \in Lists!Result : Lists!Rank(j) = m
<1> DEFINE Above == {Lists!Rank(j) : j \in {k \in Lists!Result : Lists!Rank(k) >= m}}
<1>1. Above \in SUBSET Nat /\ Above # {}
  BY RankIs
<1>2. \E x \in Above : \A y \in Above : x <= y
  <2>. HIDE DEF Above
  <2>. QED BY <1>1, SmallestIs, Zenon
<1>3. PICK j \in Lists!Result : Lists!Rank(j) >= m /\ \A y \in Above : Lists!Rank(j) <= y
  BY <1>2
<1>4. ASSUME Lists!Rank(j) # m PROVE FALSE
  <2>1. Lists!Rank(j) \in Nat /\ Lists!Rank(j) # 0
    BY <1>3, <1>4, RankIs
  <2>2. PICK k \in Lists!Result : Lists!Earlier(k, j) /\ Lists!Rank(j) = Lists!Rank(k) + 1
    BY <2>1, RowBefore
  <2>3. Lists!Rank(k) \in Nat
    BY RankIs
  <2>4. Lists!Rank(k) \in Above
    BY <1>3, <1>4, <2>1, <2>2, <2>3
  <2>. QED BY <1>3, <2>1, <2>2, <2>3, <2>4
<1>. QED BY <1>4

(***************************************************************************)
(* A page                                                                  *)
(***************************************************************************)
(* The rows of a page that is not the last are those up to its cursor.     *)
LEMMA PageEnds ==
  ASSUME Lists!ListAssumption, Lists!ListTypeOK, Lists!Skip \in {0, 1}, limit \in Nat \ {0}
  PROVE  /\ Lists!HasMore => /\ Lists!NextCursor \in Lists!Result
                             /\ Lists!Rank(Lists!NextCursor) >= Lists!Skip
                       /\ \A i \in Lists!Result :
                                i \in Lists!Data <=>
                                  /\ Lists!Rank(i) >= Lists!Skip
                                  /\ i = Lists!NextCursor \/ Lists!Earlier(i, Lists!NextCursor)
         /\ ~Lists!HasMore =>
              \A i \in Lists!Result : i \in Lists!Data <=> Lists!Rank(i) >= Lists!Skip
<1>0. Lists!Result \subseteq Rows
  BY DEF Lists!Result, Rows, Lists!Found
<1>1. \A i \in Lists!Result : Lists!Rank(i) \in Nat
  BY RankIs
<1>2. PICK n \in Nat : n = Lists!Skip + limit
  OBVIOUS
<1>3. CASE Lists!HasMore
  <2>1. PICK e \in Lists!Result : Lists!Rank(e) = n
    BY <1>2, <1>3 DEF Lists!HasMore
  <2>2. PICK j \in Lists!Result : Lists!Earlier(j, e) /\ Lists!Rank(e) = Lists!Rank(j) + 1
    BY <1>2, <2>1, RowBefore
  <2>3. \E k \in Lists!Result : Lists!Rank(k) = n - 1
    BY <1>1, <2>1, <2>2
  <2>4. PICK c : c = Lists!NextCursor
    OBVIOUS
  <2>5. c = CHOOSE k \in Lists!Result : Lists!Rank(k) = n - 1
    BY <1>2, <1>3, <2>4 DEF Lists!NextCursor
  <2>6. c \in Lists!Result /\ Lists!Rank(c) = n - 1
    BY <2>3, <2>5
  <2>7. ASSUME NEW i \in Lists!Result PROVE Lists!Rank(i) <= n - 1 <=> i = c \/ Lists!Earlier(i, c)
    <3>1. Lists!Earlier(i, c) => Lists!Rank(i) < n - 1
      BY <2>6, RankOrders
    <3>2. Lists!Earlier(c, i) => Lists!Rank(i) > n - 1
      BY <1>1, <2>6, RankOrders
    <3>. QED BY <1>0, <1>1, <2>6, <3>1, <3>2, OrderIs
  <2>. QED BY <1>1, <1>2, <1>3, <2>4, <2>6, <2>7 DEF Lists!Data
<1>4. CASE ~Lists!HasMore
  <2>1. ASSUME NEW i \in Lists!Result PROVE Lists!Rank(i) < n
    BY <1>1, <1>2, <1>4, RankTaken DEF Lists!HasMore
  <2>. QED BY <1>1, <1>2, <1>4, <2>1 DEF Lists!Data
<1>. QED BY <1>3, <1>4

(* The cursor's row, where it still is in the result, is its first.        *)
LEMMA CursorFirst ==
  ASSUME Lists!ListAssumption, Lists!ListTypeOK, cursor # None, cursor \in RowIds,
         Lists!Found(cursor)
  PROVE  /\ cursor \in Lists!Result
         /\ \A i \in Lists!Result : Lists!Rank(i) >= 1 <=> i # cursor
<1>0. Lists!Result \subseteq Rows /\ cursor \in Rows
  BY DEF Lists!Result, Rows, Lists!Found
<1>1. cursor \in Lists!Result
  BY <1>0, OrderIs DEF Lists!Result
<1>2. Ahead(cursor) = {}
  BY DEF Ahead, Lists!Result
<1>3. ASSUME NEW i \in Lists!Result, i # cursor PROVE cursor \in Ahead(i)
  BY <1>0, <1>1, <1>3, OrderIs DEF Ahead, Lists!Result
<1>4. \A i \in Lists!Result : Lists!Rank(i) \in Nat /\ (Lists!Rank(i) = 0 <=> Ahead(i) = {})
  BY RankIs
<1>5. ASSUME NEW i \in Lists!Result PROVE Lists!Rank(i) >= 1 <=> i # cursor
  <2>1. Lists!Rank(i) = 0 <=> i = cursor
    BY <1>2, <1>3, <1>4
  <2>. QED BY <1>4, <2>1
<1>. QED BY <1>1, <1>5

(***************************************************************************)
(* The invariant of a list                                                 *)
(***************************************************************************)
Begun == phase \in {"asking", "checked"}

(* The row stands no later than the cursor's did when it was served.       *)
Passed(i) ==
  \/ i = cursor
  \/ IF list = "audit"
     THEN \/ served.place < table[i].place
          \/ served.place = table[i].place /\ cursor < i
     ELSE \/ table[i].place < served.place
          \/ table[i].place = served.place /\ i < cursor

CursorSound ==
  /\ phase = "idle" => cursor = None /\ list = None /\ ~moved
                       /\ written = {} /\ \A i \in RowIds : listed[i] = 0
  /\ phase # "idle" => list \in Lists!Lists /\ limit \in Limits
  /\ phase = "checked" => cursor # None
  /\ Begun /\ cursor # None => served \in Lists!Entry /\ served.view = "found"

(* As far as the pages go, they hold what they should.                     *)
ListedSound ==
  Begun /\ ~moved => \A i \in RowIds \ written :
    listed[i] = IF cursor # None /\ Lists!Found(i) /\ Passed(i) THEN 1 ELSE 0

AuditSound ==
  list = "audit" => /\ ~moved /\ phase # "refused"
                    /\ \A i \in RowIds : table[i] # None => Lists!Visible(i)
                    /\ Begun /\ cursor # None => table[cursor] = served

ListInvariant == /\ Lists!ListTypeOK /\ CursorSound /\ ListedSound
                 /\ AuditSound /\ Lists!ListingComplete

LEMMA InitList ==
  ASSUME Lists!ListAssumption, Lists!ListInit
  PROVE  ListInvariant
<1> USE DEF Lists!ListInit
<1>1. Lists!ListTypeOK
  BY DEF Lists!ListTypeOK
<1>2. CursorSound /\ ListedSound /\ AuditSound /\ Lists!ListingComplete
  BY DEF Lists!ListAssumption, CursorSound, ListedSound, AuditSound, Lists!ListingComplete,
     Begun, Lists!Lists
<1>. QED BY <1>1, <1>2 DEF ListInvariant

LEMMA PageSound ==
  ASSUME Lists!ListAssumption, ListInvariant, Lists!Page
  PROVE  ListInvariant'
<1> USE DEF ListInvariant
<1>1. /\ phase = "checked" \/ (phase = "asking" /\ cursor = None)
      /\ Begun /\ list \in Lists!Lists /\ limit \in Limits /\ limit \in Nat \ {0}
      /\ cursor # None => cursor \in RowIds /\ served \in Lists!Entry /\ served.view = "found"
  BY DEF Lists!Page, CursorSound, Begun, Lists!ListTypeOK, Lists!ListAssumption
<1>2. Lists!Skip \in {0, 1} /\ (Lists!Skip = 1 <=> cursor # None)
  BY DEF Lists!Skip
<1>3. PICK c : c = Lists!NextCursor
  OBVIOUS
<1>4. /\ Lists!HasMore => /\ c \in Lists!Result /\ Lists!Rank(c) >= Lists!Skip
                    /\ \A i \in Lists!Result :
                         i \in Lists!Data <=> Lists!Rank(i) >= Lists!Skip /\ (i = c \/ Lists!Earlier(i, c))
      /\ ~Lists!HasMore =>
              \A i \in Lists!Result : i \in Lists!Data <=> Lists!Rank(i) >= Lists!Skip
  BY <1>1, <1>2, <1>3, PageEnds
<1>5. /\ Lists!Result \subseteq RowIds /\ Lists!Data \subseteq Lists!Result
      /\ \A i \in Lists!Result : table[i] \in Lists!Entry /\ Lists!Found(i)
  BY DEF Lists!Result, Lists!Data, Lists!Found, Lists!ListTypeOK
<1>6. /\ \A i \in Lists!Data : listed'[i] = listed[i] + 1
      /\ \A i \in RowIds \ Lists!Data : listed'[i] = listed[i]
      /\ listed' \in [RowIds -> Nat]
  <2>1. listed' = [i \in RowIds |-> IF i \in Lists!Data THEN listed[i] + 1 ELSE listed[i]]
    BY Zenon DEF Lists!Page
  <2>2. Lists!Data \subseteq RowIds /\ \A i \in RowIds : listed[i] \in Nat
    BY <1>5 DEF Lists!ListTypeOK
  <2>. QED BY <2>1, <2>2
<1>7. /\ Lists!HasMore => cursor' = c /\ served' = table[c] /\ phase' = "asking" /\ c # None
      /\ ~Lists!HasMore => cursor' = None /\ served' = None /\ phase' = "done"
      /\ UNCHANGED <<table, list, limit, written>>
  <2>1. /\ cursor' = Lists!NextCursor
        /\ served' = (IF Lists!HasMore THEN table[Lists!NextCursor] ELSE None)
        /\ phase' = (IF Lists!HasMore THEN "asking" ELSE "done")
        /\ UNCHANGED <<table, list, limit, written>>
    BY Zenon DEF Lists!Page
  <2>2. Lists!HasMore => c # None
    BY <1>4, <1>5 DEF Lists!ListAssumption
  <2>3. ~Lists!HasMore => Lists!NextCursor = None
    BY DEF Lists!NextCursor
  <2>. QED BY <1>3, <2>1, <2>2, <2>3
<1>8. Lists!ListTypeOK'
  <2>1. moved' \in BOOLEAN
    BY DEF Lists!Page, Lists!ListTypeOK
  <2>2. CASE Lists!HasMore
    BY <1>4, <1>5, <1>6, <1>7, <2>1, <2>2 DEF Lists!ListTypeOK
  <2>3. CASE ~Lists!HasMore
    BY <1>5, <1>6, <1>7, <2>1, <2>3 DEF Lists!ListTypeOK
  <2>. QED BY <2>2, <2>3
<1>9. CursorSound'
  BY <1>1, <1>4, <1>5, <1>7 DEF CursorSound, Begun, Lists!Found
<1>10. AuditSound'
  BY <1>1, <1>7 DEF AuditSound, Begun, Lists!Visible, Lists!Page
<1>11. ASSUME ~moved', NEW i \in RowIds \ written
       PROVE  /\ Lists!HasMore => listed'[i] = IF Lists!Found(i) /\ Passed(i)' THEN 1 ELSE 0
              /\ ~Lists!HasMore => listed'[i] = IF Lists!Found(i) THEN 1 ELSE 0
  <2>1. ~moved /\ (cursor # None => table[cursor] = served)
    BY <1>11 DEF Lists!Page
  <2>2. listed[i] = IF cursor # None /\ Lists!Found(i) /\ Passed(i) THEN 1 ELSE 0
    BY <1>1, <2>1 DEF ListedSound
  <2>3. cursor # None => cursor \in Rows /\ Lists!Found(cursor)
    BY <1>1, <2>1 DEF Rows, Lists!Found, Lists!ListAssumption
  <2>4. ~Lists!Found(i) => i \notin Lists!Data
    BY <1>5
  <2>5. cursor # None /\ Lists!Found(i) => (Passed(i) <=> i = cursor \/ Lists!Earlier(i,
  cursor))
    BY <2>1 DEF Passed, Lists!Earlier, Lists!Lower
  <2>6. Lists!HasMore => (Passed(i)' <=> i = c \/ Lists!Earlier(i, c))
    BY <1>7 DEF Passed, Lists!Earlier, Lists!Lower
  <2>7. Lists!Found(i) => i \in Rows
    BY DEF Rows, Lists!Found
  <2>8. CASE cursor = None
    <3>1. Lists!Found(i) => i \in Lists!Result /\ Lists!Rank(i) >= Lists!Skip
      BY <1>2, <2>8, RankIs DEF Lists!Result
    <3>. QED BY <1>4, <1>6, <2>2, <2>4, <2>6, <2>8, <3>1
  <2>9. CASE cursor # None
    <3>1. cursor \in Lists!Result /\ \A j \in Lists!Result : Lists!Rank(j) >= 1 <=> j # cursor
      BY <1>1, <2>3, <2>9, CursorFirst
    <3>2. Lists!Skip = 1
      BY <1>2, <2>9
    <3>3. Lists!HasMore => c # cursor /\ c \in Rows /\ Lists!Earlier(cursor, c)
      BY <1>4, <1>5, <2>3, <2>9, <3>1, <3>2, OrderIs DEF Lists!Result, Rows, Lists!Found
    <3>4. Lists!Found(i) /\ Passed(i) =>
            i \notin Lists!Data /\ (Lists!HasMore => i = c \/ Lists!Earlier(i, c))
      BY <1>4, <1>5, <2>3, <2>5, <2>7, <2>9, <3>1, <3>2, <3>3, OrderIs DEF Lists!Result
    <3>5. Lists!Found(i) /\ ~Passed(i) => i \in Lists!Result /\ Lists!Rank(i) >= Lists!Skip
      BY <2>3, <2>5, <2>7, <2>9, <3>1, <3>2, OrderIs DEF Lists!Result
    <3>. QED BY <1>4, <1>6, <2>2, <2>4, <2>6, <2>9, <3>4, <3>5
  <2>. QED BY <2>8, <2>9
<1>12. \A i \in RowIds : Lists!Found(i)' <=> Lists!Found(i)
  BY <1>7 DEF Lists!Found
<1>13. ListedSound'
  BY <1>7, <1>11, <1>12 DEF ListedSound, Begun
<1>14. Lists!ListingComplete'
  BY <1>7, <1>10, <1>11, <1>12 DEF Lists!ListingComplete, AuditSound
<1>. QED BY <1>8, <1>9, <1>10, <1>13, <1>14

LEMMA WriteSound ==
  ASSUME Lists!ListAssumption, ListInvariant, NEW i \in RowIds, NEW e \in Lists!Entry,
         Lists!Write(i, e)
  PROVE  ListInvariant'
<1> USE DEF ListInvariant
<1>1. /\ Lists!MayBecome(table[i], e) /\ table' = [table EXCEPT ![i] = e]
      /\ phase \in {"idle", "asking", "checked"} /\ written' \in {written, written \cup {i}}
      /\ Begun => i \in written'
      /\ UNCHANGED <<list, limit, phase, cursor, listed, served, moved>>
  BY DEF Lists!Write, Begun
<1>2. Lists!ListTypeOK'
  BY <1>1 DEF Lists!ListTypeOK
<1>3. table'[i] = e /\ \A j \in RowIds \ {i} : table'[j] = table[j]
  BY <1>1 DEF Lists!ListTypeOK
<1>4. CursorSound'
  <2>1. phase = "idle" => written' = written
    BY DEF Lists!Write
  <2>. QED BY <1>1, <2>1 DEF CursorSound, Begun
<1>5. AuditSound'
  <2>1. CASE list # "audit"
    BY <1>1, <2>1 DEF AuditSound
  <2>2. CASE list = "audit"
    <3>1. table[i] = None /\ e.view # "hidden"
      BY <1>1, <2>2 DEF Lists!MayBecome
    <3>2. Begun /\ cursor # None => cursor # i
      BY <2>2, <3>1 DEF AuditSound, CursorSound, Lists!ListAssumption
    <3>3. Begun /\ cursor # None => table'[cursor] = table[cursor]
      BY <1>3, <3>2 DEF Lists!ListTypeOK
    <3>. QED BY <1>1, <1>3, <2>2, <3>1, <3>3 DEF AuditSound, Begun, Lists!Visible
  <2>. QED BY <2>1, <2>2
<1>6. ASSUME Begun, ~moved, NEW j \in RowIds \ written'
      PROVE  listed[j] = IF cursor # None /\ Lists!Found(j)' /\ Passed(j)' THEN 1 ELSE 0
  <2>1. j \in RowIds \ written /\ table'[j] = table[j]
    BY <1>1, <1>3, <1>6
  <2>2. (Lists!Found(j)' <=> Lists!Found(j)) /\ (Passed(j)' <=> Passed(j))
    BY <1>1, <2>1 DEF Lists!Found, Passed
  <2>. QED BY <1>6, <2>1, <2>2 DEF ListedSound
<1>7. ListedSound'
  BY <1>1, <1>6 DEF ListedSound, Begun
<1>8. Lists!ListingComplete'
  BY <1>1 DEF Lists!ListingComplete
<1>. QED BY <1>2, <1>4, <1>5, <1>7, <1>8

LEMMA AskSound ==
  ASSUME Lists!ListAssumption, ListInvariant, NEW l \in Lists!Lists, NEW n \in Limits,
         Lists!Ask(l, n)
  PROVE  ListInvariant'
<1> USE DEF ListInvariant, Lists!Ask
<1>1. Lists!ListTypeOK' /\ CursorSound' /\ ListedSound'
  BY DEF Lists!ListTypeOK, CursorSound, ListedSound, Begun
<1>2. AuditSound'
  BY DEF CursorSound, AuditSound, Lists!Visible
<1>3. Lists!ListingComplete'
  BY DEF CursorSound, Lists!ListingComplete
<1>. QED BY <1>1, <1>2, <1>3

LEMMA CheckSound ==
  ASSUME Lists!ListAssumption, ListInvariant, Lists!CheckCursor
  PROVE  ListInvariant'
<1> USE DEF ListInvariant, Lists!CheckCursor
<1>1. phase' \in {"checked", "refused"} /\ Begun
  BY DEF Begun
<1>2. list = "audit" => phase' = "checked"
  <2>1. list = "audit" => table[cursor] # None
    BY <1>1 DEF AuditSound, CursorSound, Lists!ListAssumption
  <2>. QED BY <2>1 DEF AuditSound, Lists!ListTypeOK
<1>3. Lists!ListTypeOK' /\ CursorSound'
  BY <1>1 DEF Lists!ListTypeOK, CursorSound, Begun
<1>4. ListedSound'
  BY <1>1 DEF ListedSound, Begun, Lists!Found, Passed
<1>5. AuditSound'
  BY <1>1, <1>2 DEF AuditSound, Begun, Lists!Visible
<1>6. Lists!ListingComplete'
  BY <1>1, <1>2 DEF AuditSound, Lists!ListingComplete
<1>. QED BY <1>3, <1>4, <1>5, <1>6

LEMMA NextList ==
  ASSUME Lists!ListAssumption, ListInvariant, [Lists!ListNext]_lists
  PROVE  ListInvariant'
<1>1. CASE UNCHANGED lists
  BY <1>1 DEF lists, ListInvariant, Lists!ListTypeOK, CursorSound, ListedSound, AuditSound,
              Lists!ListingComplete, Begun, Lists!Found, Lists!Visible, Passed
<1>2. ASSUME Lists!ListVendors \/ Lists!ListContracts \/ Lists!ListBuildings \/ Lists!ListAudit
      PROVE  Lists!CheckCursor \/ Lists!Page
  BY <1>2 DEF Lists!ListVendors, Lists!ListContracts, Lists!ListBuildings, Lists!ListAudit
<1>. QED BY <1>1, <1>2, WriteSound, AskSound, CheckSound, PageSound DEF Lists!ListNext

(***************************************************************************)
(* The passport of a vendor                                                *)
(***************************************************************************)
(* What the dashboard knows stays true: versions and their verifications   *)
(* are only added.                                                         *)
KnownIsKept ==
  \A n \in Passport!Committed(known) :
    n \in Passport!Committed(account) /\ known[n] \subseteq account[n]

(* What it has read so far: a contact that is there, and a version that is *)
(* no older than any that was known.                                       *)
ReadingsSound ==
  /\ dashboard.contact => contact
  /\ dashboard.phase = "accounts" =>
       /\ dashboard.latest = 0 \/ dashboard.latest \in Passport!Committed(account)
       /\ \A k \in Passport!Committed(known) : k <= dashboard.latest
  /\ dashboard.phase # "reported" => ~dashboard.complete

(* A verification under way is of a version that exists.                   *)
VerifyingSound ==
  \A r \in Requests : verifying[r] # None => verifying[r].number \in Passport!Committed(account)

PassportInvariant == /\ Passport!PassportTypeOK /\ VerifyingSound /\ KnownIsKept
                     /\ ReadingsSound /\ Passport!CompleteIsVerified

(* The latest version is the largest number (orderBy versionNumber desc).  *)
LEMMA LargestIs ==
  ASSUME NEW N \in Nat, NEW ns \in SUBSET (1..N), ns # {}
  PROVE  Passport!Largest(ns) \in ns /\ \A k \in ns : k <= Passport!Largest(ns)
<1> DEFINE Rest == {N - n : n \in ns}
<1>1. Rest \in SUBSET Nat /\ Rest # {}
  <2>1. \A n \in ns : N - n \in Nat
    OBVIOUS
  <2>. QED BY <2>1, Zenon
<1>2. \E x \in Rest : \A y \in Rest : x <= y
  <2>. HIDE DEF Rest
  <2>. QED BY <1>1, SmallestIs, Zenon
<1>3. PICK x \in Rest : \A y \in Rest : x <= y
  BY <1>2
<1>4. PICK n \in ns : x = N - n
  BY <1>2
<1>5. ASSUME NEW k \in ns PROVE k <= n
  <2>1. N - k \in Rest
    OBVIOUS
  <2>2. N - n <= N - k
    BY <1>3, <1>4, <2>1
  <2>. QED BY <2>2
<1>6. \E m \in ns : \A k \in ns : k <= m
  BY <1>5
<1>7. Passport!Largest(ns) = CHOOSE m \in ns : \A k \in ns : k <= m
  BY Zenon DEF Passport!Largest
<1>. QED BY <1>6, <1>7, Zenon

LEMMA LatestIs ==
  ASSUME Passport!PassportAssumption, NEW accounts, Passport!Committed(accounts) # {}
  PROVE  /\ Passport!Largest(Passport!Committed(accounts)) \in Passport!Committed(accounts)
         /\ \A k \in Passport!Committed(accounts) :
              k <= Passport!Largest(Passport!Committed(accounts))
BY LargestIs DEF Passport!Committed, Passport!Numbers, Passport!PassportAssumption

LEMMA InitPassport == Passport!PassportAssumption /\ Passport!PassportInit => PassportInvariant
<1> SUFFICES ASSUME Passport!PassportAssumption, Passport!PassportInit PROVE PassportInvariant
  OBVIOUS
<1>1. Passport!Idle \in Passport!Dashboard
  BY DEF Passport!Idle, Passport!Dashboard, Passport!PassportAssumption
<1>2. Passport!PassportTypeOK
  <2>1. Passport!NoAccount \in [Passport!Numbers -> {None} \cup SUBSET Passport!Verification]
    BY Zenon DEF Passport!NoAccount
  <2>2. [r \in Requests |-> None] \in [Requests -> 0..MaxNumber \cup {None}]
    OBVIOUS
  <2>3. [r \in Requests |-> None] \in [Requests -> {None} \cup [number: Passport!Numbers,
  row: Passport!Verification]]
    BY Zenon
  <2>4. tick \in 0..MaxTick
    BY DEF Passport!PassportInit, Passport!PassportAssumption
  <2>. QED BY <1>1, <2>1, <2>2, <2>3, <2>4, Zenon DEF Passport!PassportInit,
              Passport!PassportTypeOK
<1>3. Passport!Committed(account) = {} /\ Passport!Committed(known) = {}
  BY DEF Passport!PassportInit, Passport!Committed, Passport!NoAccount
<1>4. VerifyingSound /\ KnownIsKept /\ ReadingsSound /\ Passport!CompleteIsVerified
  BY <1>3 DEF Passport!PassportInit, VerifyingSound, KnownIsKept, ReadingsSound,
     Passport!CompleteIsVerified, Passport!Idle
<1>. QED BY <1>2, <1>4 DEF PassportInvariant

(***************************************************************************)
(* Types                                                                   *)
(***************************************************************************)
LEMMA LargestType ==
  ASSUME Passport!PassportAssumption, NEW accounts
  PROVE  Passport!Largest(Passport!Committed(accounts)) \in 0..MaxNumber
<1>1. CASE Passport!Committed(accounts) = {}
  BY <1>1 DEF Passport!Largest, Passport!PassportAssumption
<1>2. CASE Passport!Committed(accounts) # {}
  BY <1>2, LatestIs DEF Passport!Committed, Passport!Numbers, Passport!PassportAssumption
<1>. QED BY <1>1, <1>2

(* A row of VendorBankAccountVerification, as it is inserted.              *)
LEMMA RowType ==
  ASSUME Passport!PassportAssumption, Passport!PassportTypeOK,
         NEW s \in {"PENDING"} \cup Passport!Verdicts
  PROVE  [status |-> s, at |-> tick] \in Passport!Verification
BY DEF Passport!PassportTypeOK, Passport!Verification

LEMMA NextPassportTypes ==
  ASSUME Passport!PassportAssumption, Passport!PassportTypeOK, VerifyingSound,
         [Passport!PassportNext]_passport
  PROVE  Passport!PassportTypeOK'
<1> USE DEF Passport!PassportTypeOK
<1>1. CASE Passport!Tick \/ UNCHANGED passport
  BY <1>1 DEF Passport!Tick, passport, Passport!PassportAssumption
<1>2. ASSUME NEW v \in BOOLEAN, Passport!AddContact(v) PROVE Passport!PassportTypeOK'
  BY <1>2 DEF Passport!AddContact
<1>3. ASSUME NEW r \in Requests, Passport!ReadLatest(r) PROVE Passport!PassportTypeOK'
  BY <1>3, LargestType DEF Passport!ReadLatest
<1>4. ASSUME NEW r \in Requests, Passport!InsertVersion(r) PROVE Passport!PassportTypeOK'
  <2>1. {[status |-> "PENDING", at |-> tick]} \in SUBSET Passport!Verification
    BY RowType
  <2>. QED BY <1>4, <2>1 DEF Passport!InsertVersion
<1>5. ASSUME NEW r \in Requests, NEW n \in Passport!Numbers, NEW s \in Passport!Verdicts,
             Passport!InsertVerification(r, n, s)
      PROVE  Passport!PassportTypeOK'
  <2>1. [status |-> s, at |-> tick] \in Passport!Verification
    BY RowType
  <2>2. [number |-> n, row |-> [status |-> s, at |-> tick]]
          \in [number: Passport!Numbers, row: Passport!Verification]
    BY <2>1
  <2>. QED BY <1>5, <2>2 DEF Passport!InsertVerification
<1>6. ASSUME NEW r \in Requests, Passport!CommitVerification(r) PROVE Passport!PassportTypeOK'
  <2>1. verifying[r].number \in Passport!Numbers /\ verifying[r].row \in Passport!Verification
    BY <1>6 DEF Passport!CommitVerification
  <2>2. account[verifying[r].number] \in SUBSET Passport!Verification
    BY <1>6, <2>1 DEF Passport!CommitVerification, VerifyingSound, Passport!Committed
  <2>3. account[verifying[r].number] \cup {verifying[r].row} \in SUBSET Passport!Verification
    BY <2>1, <2>2
  <2>. QED BY <1>6, <2>3 DEF Passport!CommitVerification
<1>7. CASE Passport!ReadVendors
  BY <1>7 DEF Passport!ReadVendors, Passport!Seen, Passport!Dashboard
<1>8. CASE Passport!ReadContacts
  BY <1>8 DEF Passport!ReadContacts, Passport!Seen, Passport!Dashboard
<1>9. CASE Passport!ReadAccounts
  <2>1. PICK n : n = Passport!Largest(Passport!Committed(account))
    OBVIOUS
  <2>2. n \in 0..MaxNumber
    BY <2>1, LargestType
  <2>3. [dashboard EXCEPT !.phase = "accounts", !.latest = n] \in Passport!Dashboard
    BY <2>2 DEF Passport!Dashboard
  <2>. QED BY <1>9, <2>1, <2>3 DEF Passport!ReadAccounts, Passport!Seen
<1>10. CASE Passport!Report
  <2>1. PICK b : /\ Passport!Seen([dashboard EXCEPT !.phase = "reported",
                                                   !.complete = dashboard.contact /\ b])
                 /\ known' = known
    BY <1>10 DEF Passport!Report
  <2>2. [dashboard EXCEPT !.phase = "reported", !.complete = dashboard.contact /\ b]
          \in Passport!Dashboard
    BY DEF Passport!Dashboard
  <2>. QED BY <2>1, <2>2 DEF Passport!Seen
<1> HIDE DEF Passport!PassportTypeOK
<1>. QED
  BY <1>1, <1>2, <1>3, <1>4, <1>5, <1>6, <1>7, <1>8, <1>9, <1>10 DEF Passport!PassportNext

(***************************************************************************)
(* What is added stays                                                     *)
(***************************************************************************)
Grows ==
  /\ contact => contact'
  /\ \A n \in Passport!Numbers :
       account[n] # None => account'[n] # None /\ account[n] \subseteq account'[n]

LEMMA NextGrows ==
  ASSUME Passport!PassportAssumption, Passport!PassportTypeOK, VerifyingSound,
         [Passport!PassportNext]_passport
  PROVE  Grows
<1>1. CASE UNCHANGED <<contact, account>>
  BY <1>1 DEF Grows
<1>2. ASSUME NEW v \in BOOLEAN, Passport!AddContact(v) PROVE Grows
  BY <1>2 DEF Passport!AddContact, Grows
<1>3. ASSUME NEW r \in Requests, Passport!InsertVersion(r) PROVE Grows
  <2>. DEFINE first == {[status |-> "PENDING", at |-> tick]}
  <2>1. CASE UNCHANGED account
    BY <1>3, <2>1 DEF Passport!InsertVersion, Grows
  <2>2. CASE /\ account[adding[r] + 1] = None
             /\ account' = [account EXCEPT ![adding[r] + 1] = first]
    BY <1>3, <2>2 DEF Passport!InsertVersion, Grows, Passport!PassportTypeOK
  <2>. QED BY <1>3, <2>1, <2>2 DEF Passport!InsertVersion
<1>4. ASSUME NEW r \in Requests, Passport!CommitVerification(r) PROVE Grows
  <2>1. PICK n : n = verifying[r].number
    OBVIOUS
  <2>2. PICK rows : rows = account[n] \cup {verifying[r].row}
    OBVIOUS
  <2>3. n \in Passport!Numbers /\ account[n] # None
    BY <1>4, <2>1 DEF Passport!CommitVerification, VerifyingSound, Passport!Committed
  <2>4. account[n] \in SUBSET Passport!Verification /\ verifying[r].row \in Passport!Verification
    BY <1>4, <2>3 DEF Passport!CommitVerification, Passport!PassportTypeOK
  <2>5. rows # None /\ account[n] \subseteq rows
    BY <2>2, <2>4 DEF Passport!PassportAssumption
  <2>6. account' = [account EXCEPT ![n] = rows] /\ UNCHANGED contact
    BY <1>4, <2>1, <2>2 DEF Passport!CommitVerification
  <2>. QED BY <2>3, <2>5, <2>6 DEF Grows, Passport!PassportTypeOK
<1>. QED
  BY <1>1, <1>2, <1>3, <1>4 DEF Passport!PassportNext, passport, Passport!Tick,
     Passport!ReadLatest, Passport!InsertVerification,
     Passport!ReadVendors, Passport!ReadContacts, Passport!ReadAccounts, Passport!Report,
     Passport!Seen

(* The conjuncts that only need what is there to stay.                     *)
LEMMA NextKept ==
  ASSUME Passport!PassportTypeOK, KnownIsKept, Grows, known' = known
  PROVE  KnownIsKept'
BY DEF Passport!PassportTypeOK, KnownIsKept, Grows, Passport!Committed

LEMMA NextComplete ==
  ASSUME Passport!PassportTypeOK, Passport!CompleteIsVerified, Grows, known' = known,
         dashboard'.complete => dashboard.complete
  PROVE  Passport!CompleteIsVerified'
<1> SUFFICES ASSUME dashboard'.complete PROVE Passport!CompleteIsVerified'
  BY DEF Passport!CompleteIsVerified
<1>1. PICK n \in Passport!Committed(account) :
        /\ \A k \in Passport!Committed(known) : k <= n
        /\ \E w \in account[n] :
             /\ w.status = "VERIFIED"
             /\ n \in Passport!Committed(known) => \A u \in known[n] : u.at <= w.at
  BY DEF Passport!CompleteIsVerified
<1>2. PICK w \in account[n] : /\ w.status = "VERIFIED"
                              /\ n \in Passport!Committed(known) => \A u \in known[n] : u.at <= w.at
  BY <1>1
<1>3. n \in Passport!Committed(account') /\ w \in account'[n] /\ contact'
  BY <1>1, <1>2 DEF Grows, Passport!Committed, Passport!CompleteIsVerified
<1>4. \A k \in Passport!Committed(known') : k <= n
  BY <1>1
<1>5. n \in Passport!Committed(known') => \A u \in known'[n] : u.at <= w.at
  BY <1>2
<1>. QED BY <1>2, <1>3, <1>4, <1>5 DEF Passport!CompleteIsVerified

LEMMA NextVerifying ==
  ASSUME Passport!PassportAssumption, Passport!PassportTypeOK, VerifyingSound, Grows,
         [Passport!PassportNext]_passport
  PROVE  VerifyingSound'
<1>1. \A n \in Passport!Committed(account) : n \in Passport!Committed(account')
  BY DEF Grows, Passport!Committed
<1>2. CASE UNCHANGED verifying
  BY <1>1, <1>2 DEF VerifyingSound
<1>3. ASSUME NEW r \in Requests, NEW n \in Passport!Numbers, NEW s \in Passport!Verdicts,
             Passport!InsertVerification(r, n, s)
      PROVE  VerifyingSound'
  <2>. DEFINE inserted == [number |-> n, row |-> [status |-> s, at |-> tick]]
  <2>1. verifying' = [verifying EXCEPT ![r] = inserted] /\ n \in Passport!Committed(account)
    BY <1>3 DEF Passport!InsertVerification
  <2>2. inserted.number = n
    OBVIOUS
  <2>. HIDE DEF inserted
  <2>. QED BY <1>1, <2>1, <2>2 DEF VerifyingSound, Passport!PassportTypeOK
<1>4. ASSUME NEW r \in Requests, Passport!CommitVerification(r) PROVE VerifyingSound'
  BY <1>1, <1>4 DEF Passport!CommitVerification, VerifyingSound, Passport!PassportTypeOK
<1>. QED
  BY <1>2, <1>3, <1>4 DEF Passport!PassportNext, passport, Passport!Tick, Passport!AddContact,
     Passport!ReadLatest, Passport!InsertVersion,
     Passport!ReadVendors, Passport!ReadContacts, Passport!ReadAccounts, Passport!Report,
     Passport!Seen

(***************************************************************************)
(* The dashboard                                                           *)
(***************************************************************************)
(* A step that is none of the dashboard's leaves what it has read.         *)
LEMMA NextReadings ==
  ASSUME Passport!PassportTypeOK, ReadingsSound, Grows, UNCHANGED <<dashboard, known>>
  PROVE  ReadingsSound'
BY DEF Passport!PassportTypeOK, ReadingsSound, Grows, Passport!Committed, Passport!Dashboard

LEMMA DashboardSteps ==
  ASSUME Passport!PassportAssumption, PassportInvariant, Grows, Passport!PassportTypeOK',
         Passport!ReadVendors \/ Passport!ReadContacts \/ Passport!ReadAccounts \/ Passport!Report
  PROVE  KnownIsKept' /\ ReadingsSound' /\ Passport!CompleteIsVerified'
<1> USE DEF PassportInvariant
<1>1. dashboard \in Passport!Dashboard
  BY DEF Passport!PassportTypeOK
<1>2. CASE Passport!ReadVendors
  <2>1. dashboard'.phase = "vendors" /\ dashboard'.contact = dashboard.contact
        /\ dashboard'.complete = dashboard.complete /\ dashboard.phase = "idle"
    BY <1>1, <1>2 DEF Passport!ReadVendors, Passport!Seen, Passport!Dashboard
  <2>2. ~dashboard'.complete /\ (dashboard'.contact => contact)
    BY <2>1 DEF ReadingsSound
  <2>3. ReadingsSound' /\ Passport!CompleteIsVerified'
    BY <1>2, <2>1, <2>2 DEF Passport!ReadVendors, Passport!Seen, ReadingsSound,
       Passport!CompleteIsVerified
  <2>4. KnownIsKept'
    BY <1>2 DEF Passport!ReadVendors, Passport!Seen, KnownIsKept
  <2>. QED BY <2>3, <2>4
<1>3. CASE Passport!ReadContacts
  <2>1. dashboard'.phase = "contacts" /\ dashboard'.contact = contact
        /\ dashboard'.complete = dashboard.complete /\ dashboard.phase = "vendors"
    BY <1>1, <1>3 DEF Passport!ReadContacts, Passport!Seen, Passport!Dashboard
  <2>2. ReadingsSound'
    BY <1>3, <2>1 DEF Passport!ReadContacts, Passport!Seen, ReadingsSound
  <2>. QED BY <1>3, <2>1, <2>2, NextKept, NextComplete DEF Passport!ReadContacts
<1>4. CASE Passport!ReadAccounts
  <2>1. PICK latest : latest = Passport!Largest(Passport!Committed(account))
    OBVIOUS
  <2>2. dashboard' = [dashboard EXCEPT !.phase = "accounts", !.latest = latest]
    BY <1>4, <2>1 DEF Passport!ReadAccounts, Passport!Seen
  <2>3. dashboard'.phase = "accounts" /\ dashboard'.contact = dashboard.contact
        /\ dashboard'.complete = dashboard.complete /\ dashboard.phase = "contacts"
        /\ dashboard'.latest = latest
    BY <1>1, <1>4, <2>2 DEF Passport!ReadAccounts, Passport!Dashboard
  <2>4. /\ latest = 0 \/ latest \in Passport!Committed(account)
        /\ \A k \in Passport!Committed(account) : k <= latest
    BY <2>1, LatestIs DEF Passport!Largest
  <2>5. \A k \in Passport!Committed(known) : k <= latest
    BY <2>4 DEF KnownIsKept
  <2>6. ReadingsSound'
    BY <1>4, <2>3, <2>4, <2>5 DEF Passport!ReadAccounts, Passport!Seen, ReadingsSound
  <2>. QED BY <1>4, <2>3, <2>6, NextKept, NextComplete DEF Passport!ReadAccounts
<1>5. CASE Passport!Report
  <2>. DEFINE latest == dashboard.latest
  <2>1. PICK verified \in IF latest = 0 THEN {FALSE}
                          ELSE {w.status = "VERIFIED" : w \in Passport!Newest(account[latest])} :
          Passport!Seen([dashboard EXCEPT !.phase = "reported",
          !.complete = dashboard.contact /\ verified])
    BY <1>5, Zenon DEF Passport!Report
  <2>2. dashboard'.phase = "reported" /\ dashboard'.contact = dashboard.contact
        /\ dashboard'.complete = (dashboard.contact /\ verified)
    BY <1>1, <2>1 DEF Passport!Seen, Passport!Dashboard
  <2>3. dashboard.phase = "accounts" /\ UNCHANGED <<contact, account, known>>
    BY <1>5 DEF Passport!Report, Passport!Seen
  <2>4. ReadingsSound'
    BY <2>2, <2>3 DEF ReadingsSound
  <2>5. ASSUME dashboard'.complete
        PROVE  \E n \in Passport!Committed(account) :
                 /\ \A k \in Passport!Committed(known) : k <= n
                 /\ \E w \in account[n] :
                      /\ w.status = "VERIFIED"
                      /\ n \in Passport!Committed(known) => \A u \in known[n] : u.at <= w.at
    <3>1. verified /\ verified # FALSE
      BY <2>2, <2>5
    <3>2. latest # 0
      BY <2>1, <3>1
    <3>3. PICK w \in Passport!Newest(account[latest]) : w.status = "VERIFIED"
      BY <2>1, <3>1, <3>2, Zenon
    <3>4. w \in account[latest] /\ \A u \in account[latest] : u.at <= w.at
      BY <3>3 DEF Passport!Newest
    <3>5. latest \in Passport!Committed(account) /\ \A k \in Passport!Committed(known) : k <= latest
      BY <2>3, <3>2 DEF ReadingsSound
    <3>6. latest \in Passport!Committed(known) => known[latest] \subseteq account[latest]
      BY DEF KnownIsKept
    <3>. QED BY <3>3, <3>4, <3>5, <3>6
  <2>6. Passport!CompleteIsVerified'
    <3>1. dashboard'.complete => contact
      BY <2>2, <2>3 DEF ReadingsSound
    <3>. QED BY <2>3, <2>5, <3>1 DEF Passport!CompleteIsVerified
  <2>. QED BY <2>3, <2>4, <2>6, NextKept
<1>. QED BY <1>2, <1>3, <1>4, <1>5

LEMMA NextPassport ==
  ASSUME Passport!PassportAssumption, PassportInvariant, [Passport!PassportNext]_passport
  PROVE  PassportInvariant'
<1>1. Passport!PassportTypeOK' /\ Grows
  BY NextPassportTypes, NextGrows DEF PassportInvariant
<1>2. VerifyingSound'
  BY <1>1, NextVerifying DEF PassportInvariant
<1>3. CASE Passport!ReadVendors \/ Passport!ReadContacts \/ Passport!ReadAccounts \/ Passport!Report
  BY <1>1, <1>2, <1>3, DashboardSteps DEF PassportInvariant
<1>4. CASE UNCHANGED <<dashboard, known>>
  BY <1>1, <1>2, <1>4, NextKept, NextReadings, NextComplete DEF PassportInvariant
<1>. QED
  BY <1>3, <1>4 DEF Passport!PassportNext, passport, Passport!Tick, Passport!AddContact,
     Passport!ReadLatest, Passport!InsertVersion,
     Passport!InsertVerification, Passport!CommitVerification

(***************************************************************************)
(* The organization                                                        *)
(***************************************************************************)
OrganizationInvariant == /\ Invariant /\ BankInvariant
                         /\ ListInvariant /\ PassportInvariant

LEMMA Assumptions ==
  Bank!NoticeAssumption /\ Lists!ListAssumption /\ Passport!PassportAssumption
BY OrganizationAssumption

LEMMA InitOrganization == Init => OrganizationInvariant
<1> SUFFICES ASSUME Init PROVE OrganizationInvariant
  OBVIOUS
<1>1. CrmInit /\ Bank!BankInit /\ Lists!ListInit /\ Passport!PassportInit
  BY DEF Init
<1>. QED
  BY <1>1, Assumptions, InitInvariant, InitBank, InitList,
     InitPassport DEF OrganizationInvariant

(* Every step of the organization is a step of one component at most.      *)
LEMMA ComponentSteps ==
  ASSUME [Next]_<<crm, bank, lists, passport>>
  PROVE  /\ [CrmNext]_crm /\ [Bank!BankNext]_bank
         /\ [Lists!ListNext]_lists /\ [Passport!PassportNext]_passport
BY DEF Next, Records, Webhook, Reading, Passports

LEMMA NextOrganization ==
  ASSUME OrganizationInvariant, [Next]_<<crm, bank, lists, passport>>
  PROVE  OrganizationInvariant'
<1>1. /\ [CrmNext]_crm /\ [Bank!BankNext]_bank
      /\ [Lists!ListNext]_lists /\ [Passport!PassportNext]_passport
  BY ComponentSteps
<1>2. Invariant'
  BY <1>1, NextInvariant DEF OrganizationInvariant
<1>3. BankInvariant'
  BY <1>1, Assumptions, NextOnce, NextBankTypes DEF OrganizationInvariant, BankInvariant
<1>4. ListInvariant'
  BY <1>1, Assumptions, NextList DEF OrganizationInvariant
<1>5. PassportInvariant'
  BY <1>1, Assumptions, NextPassport DEF OrganizationInvariant
<1>. QED BY <1>2, <1>3, <1>4, <1>5 DEF OrganizationInvariant

LEMMA OrganizationHolds == Spec => []OrganizationInvariant
<1>1. OrganizationInvariant /\ [Next]_<<crm, bank, lists, passport>> => OrganizationInvariant'
  BY NextOrganization
<1>. QED BY InitOrganization, <1>1, PTL DEF Spec

(* The components share no state, so what is true of one alone is true of  *)
(* it beside the others.                                                   *)
LEMMA ComponentsRun ==
  Spec => CrmSpec /\ Bank!BankSpec /\ Lists!ListSpec /\ Passport!PassportSpec
<1>1. Init => CrmInit /\ Bank!BankInit /\ Lists!ListInit /\ Passport!PassportInit
  BY DEF Init
<1>2. [Next]_<<crm, bank, lists, passport>> =>
        /\ [CrmNext]_crm /\ [Bank!BankNext]_(Bank!bank)
        /\ [Lists!ListNext]_(Lists!lists) /\ [Passport!PassportNext]_(Passport!passport)
  BY ComponentSteps DEF Bank!bank, bank, Lists!lists, lists, Passport!passport, passport
<1>. QED
  BY <1>1, <1>2, PTL
     DEF Spec, CrmSpec, Bank!BankSpec, Lists!ListSpec, Passport!PassportSpec

(* The tables and what the requests and pages hold have their types.       *)
THEOREM TypesKept == Spec => []TypeOK
<1>1. OrganizationInvariant => TypeOK
  BY DEF OrganizationInvariant, Invariant, BankInvariant, ListInvariant, PassportInvariant,
     TypeOK
<1>. QED BY <1>1, OrganizationHolds, PTL

(* Of the deliveries of an event, however many overlap, one is recorded,   *)
(* and nobody was told that another was (FakeBankService.receive).         *)
THEOREM RecordedOnce == Spec => []EventsRecordedOnce
<1>1. OrganizationInvariant => EventsRecordedOnce
  BY DEF OrganizationInvariant, BankInvariant, EventsRecordedOnce
<1>. QED BY <1>1, OrganizationHolds, PTL

(* A client that follows the cursors to the end of a list has every row    *)
(* that stood still exactly once, if it was to be found, unless the row of *)
(* a cursor had changed when the next page was asked for; and audit events *)
(* never do (VendorsService.list and the others, page of dto.ts).          *)
THEOREM ListsComplete == Spec => []ListingComplete
<1>1. OrganizationInvariant => ListingComplete
  BY DEF OrganizationInvariant, ListInvariant, ListingComplete
<1>. QED BY <1>1, OrganizationHolds, PTL

(* A dashboard that finds nothing missing has seen a VERIFIED verification *)
(* of the latest version, and none of the versions and verdicts that were  *)
(* committed when it was asked for comes after them (DashboardService).    *)
THEOREM CompleteVerified == Spec => []CompleteIsVerified
<1>1. OrganizationInvariant => CompleteIsVerified
  BY DEF OrganizationInvariant, PassportInvariant, CompleteIsVerified
<1>. QED BY <1>1, OrganizationHolds, PTL
=============================================================================
