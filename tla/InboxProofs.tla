----------------------------- MODULE InboxProofs -----------------------------
(* Theorems about the pages of an organization's inbox, for any invoices,  *)
(* records, calls and bounds.                                              *)
EXTENDS Inbox, FiniteSetTheorems, SequenceTheorems, WellFoundedInduction, TLAPS

(***************************************************************************)
(* A finite set of numbers has a largest                                   *)
(***************************************************************************)
LEMMA SmallestIs ==
  ASSUME NEW S \in SUBSET Nat, S # {}
  PROVE  \E x \in S : \A y \in S : x <= y
<1>1. PICK R : R = OpToRel(<, Nat)
  OBVIOUS
<1>2. IsWellFoundedOn(R, Nat)
  BY <1>1, NatLessThanWellFounded
<1>3. PICK x \in S : \A y \in S : ~ (<<y, x>> \in R)
  BY <1>2, WFMin, Zenon
<1>4. ASSUME NEW y \in S PROVE x <= y
  <2>1. x \in Nat /\ y \in Nat /\ <<y, x>> \in Nat \X Nat
    OBVIOUS
  <2>2. y < x => <<y, x>> \in R
    BY <1>1, <2>1 DEF OpToRel
  <2>3. ~ (y < x)
    BY <1>3, <2>2, Zenon
  <2>. QED BY <2>1, <2>3
<1>. QED BY <1>4

(* A finite set of invoices has a latest: the one with the fewest above it. *)
Above(ids, i) == {k \in ids : i < k}

LEMMA LargestIs ==
  ASSUME NEW ids \in SUBSET Nat, IsFiniteSet(ids), ids # {}
  PROVE  Browser!Largest(ids) \in ids
<1>1. ASSUME NEW i \in ids PROVE IsFiniteSet(Above(ids, i)) /\ Cardinality(Above(ids, i)) \in Nat
  <2>1. Above(ids, i) \in SUBSET ids
    BY DEF Above
  <2>. QED BY <2>1, FS_Subset, FS_CardinalityType
<1> DEFINE Numbers == {Cardinality(Above(ids, i)) : i \in ids}
<1>2. Numbers \in SUBSET Nat /\ Numbers # {}
  BY <1>1, Zenon
<1>3. \E x \in Numbers : \A y \in Numbers : x <= y
  <2>. HIDE DEF Numbers
  <2>. QED BY <1>2, SmallestIs, Zenon
<1>4. PICK i \in ids : \A k \in ids : Cardinality(Above(ids, i)) <= Cardinality(Above(ids, k))
  BY <1>3, Zenon
<1>5. ASSUME NEW k \in ids, i < k PROVE FALSE
  <2>1. Above(ids, k) \in SUBSET Above(ids, i) /\ k \in Above(ids, i) /\ k \notin Above(ids, k)
    <3>1. \A n \in Above(ids, k) : n \in Above(ids, i)
      BY <1>5 DEF Above
    <3>2. k \in Above(ids, i) /\ k \notin Above(ids, k)
      BY <1>5 DEF Above
    <3>. QED BY <3>1, <3>2
  <2>2. Cardinality(Above(ids, k)) < Cardinality(Above(ids, i))
    <3>1. Above(ids, k) # Above(ids, i)
      BY <2>1, Zenon
    <3>2. Cardinality(Above(ids, k)) # Cardinality(Above(ids, i))
      BY <1>1, <2>1, <3>1, FS_Subset, Zenon
    <3>3. Cardinality(Above(ids, k)) <= Cardinality(Above(ids, i))
      BY <1>1, <2>1, FS_Subset
    <3>. QED BY <1>1, <3>2, <3>3
  <2>. QED BY <1>1, <1>4, <2>2
<1>6. \A k \in ids : k <= i
  BY <1>5
<1>7. Browser!Largest(ids) = CHOOSE m \in ids : \A k \in ids : k <= m
  BY Zenon DEF Browser!Largest
<1>. QED BY <1>6, <1>7, Zenon

(***************************************************************************)
(* The invariant of the invoice page                                       *)
(***************************************************************************)
(* The server's rows carry their own id.                                   *)
RowsOwned == \A i \in Invoices : server[i] # None => server[i].id = i

(* A copy of a row that the page, a call or a request holds: its version   *)
(* is not above the row's, and of one version only the copies taken when   *)
(* it awaited approval can be of a row that does.                          *)
Copies(copy, row) ==
  /\ copy.version <= row.version
  /\ copy.version = row.version /\ row.status = "AWAITING_APPROVAL" =>
       copy.status = "AWAITING_APPROVAL"

Copied(copy, table) == copy # None => table[copy.id] # None /\ Copies(copy, table[copy.id])

CopiesSound == /\ Copied(page.selected, server)
               /\ \A c \in calls : Copied(c.row, server)
               /\ write # None => Copied(write.shown, server)

(* Edits are typed over a version that is there.                           *)
Behind(draft, table) ==
  draft # None => table[draft.id] # None /\ draft.version <= table[draft.id].version

DraftsSound == /\ Behind(page.typed, server)
               /\ write # None => Behind(write.typed, server)

(* What was typed was typed for the invoice that is shown.                 *)
TypedShown == page.typed # None => page.selected # None /\ page.typed.id = page.selected.id

(* The status that a transaction has read, at the version it will ask for. *)
ReadCopy(w) == [id |-> w.id, status |-> w.read, version |-> w.version]

ReadSound == write # None /\ write.read # None =>
               /\ write.kind # "upload" /\ write.answer = None
               /\ Copied(ReadCopy(write), server)

(* The buttons wait for one thing: a request, or one load after it.        *)
OneAwaited == /\ page.pending <=> write # None \/ \E c \in calls : c.awaited
              /\ write # None => \A c \in calls : ~c.awaited
              /\ \A c, d \in calls : c.awaited /\ d.awaited => c = d

CallsFormed == \A c \in calls : /\ c.kind # "list" => c.id # None
                                /\ c.kind = "select" => ~c.awaited

(* A request is made of what the page showed at the click.                 *)
WriteShown ==
  write # None /\ write.kind # "upload" /\ write.answer = None =>
    /\ write.shown # None /\ write.id = write.shown.id /\ write.version = write.shown.version
    /\ write.typed # None => write.typed.id = write.shown.id
    /\ write.kind = "submit" => Browser!Submittable(write.shown)

PageInvariant == /\ Browser!PageTypeOK /\ RowsOwned /\ CopiesSound /\ DraftsSound
                 /\ TypedShown /\ ReadSound /\ OneAwaited /\ CallsFormed /\ WriteShown

(***************************************************************************)
(* The server                                                              *)
(***************************************************************************)
(* What a write may leave of a row: its version, and then it does not      *)
(* enter approval, or the next version.                                    *)
Rewritten(old, new) ==
  \/ new.version = old.version /\ (new.status = "AWAITING_APPROVAL" => new.status = old.status)
  \/ new.version = old.version + 1

(* One row is created or written.                                          *)
RowWritten ==
  \E i \in Invoices, new \in Browser!Row :
    /\ server' = [server EXCEPT ![i] = new] /\ new.id = i
    /\ server[i] # None => Rewritten(server[i], new)

LEMMA NoneIs ==
  ASSUME Browser!PageAssumption
  PROVE  /\ None \notin Browser!Row /\ None \notin Invoices /\ None \notin Browser!Writes
         /\ None \notin Browser!Draft /\ None \notin Browser!Statuses
BY DEF Browser!PageAssumption

LEMMA RewrittenKeeps ==
  ASSUME Browser!PageAssumption, NEW old \in Browser!Row, NEW new \in Browser!Row,
         Rewritten(old, new)
  PROVE  /\ old.version <= new.version
         /\ \A copy \in Browser!Row : Copies(copy, old) => Copies(copy, new)
<1>1. \A row \in Browser!Row : row.version \in Nat
  BY DEF Browser!Row, Browser!PageAssumption
<1>. QED BY <1>1 DEF Rewritten, Copies

LEMMA RowsKept ==
  ASSUME Browser!PageAssumption, server \in [Invoices -> Browser!Row \cup {None}], RowsOwned,
  RowWritten
  PROVE  /\ server' \in [Invoices -> Browser!Row \cup {None}] /\ RowsOwned'
         /\ \A copy \in Browser!Row \cup {None} : Copied(copy, server) => Copied(copy, server')
         /\ \A draft \in Browser!Draft \cup {None} : Behind(draft, server) => Behind(draft, server')
<1>1. PICK i \in Invoices, new \in Browser!Row :
        /\ server' = [server EXCEPT ![i] = new] /\ new.id = i
        /\ server[i] # None => Rewritten(server[i], new)
  BY Zenon DEF RowWritten
<1>2. server' \in [Invoices -> Browser!Row \cup {None}] /\ RowsOwned'
  BY <1>1 DEF RowsOwned
<1>3. server'[i] = new /\ \A j \in Invoices : j # i => server'[j] = server[j]
  BY <1>1
<1>4. ASSUME server[i] # None
      PROVE  /\ server[i].version <= new.version
             /\ \A copy \in Browser!Row : Copies(copy, server[i]) => Copies(copy, new)
  <2>1. PICK old \in Browser!Row : old = server[i]
    BY <1>4
  <2>. QED BY <1>1, <1>4, <2>1, RewrittenKeeps
<1>5. ASSUME NEW copy \in Browser!Row \cup {None}, Copied(copy, server) PROVE Copied(copy, server')
  <2>1. CASE copy # None /\ copy.id = i
    <3>1. server[i] # None /\ Copies(copy, server[i]) /\ copy \in Browser!Row
      BY <1>5, <2>1 DEF Copied
    <3>. QED BY <1>3, <1>4, <2>1, <3>1, NoneIs DEF Copied
  <2>2. CASE copy = None
    BY <2>2 DEF Copied
  <2>3. CASE copy # None /\ copy.id # i
    <3>1. copy.id \in Invoices /\ server'[copy.id] = server[copy.id]
      BY <1>3, <2>3 DEF Browser!Row
    <3>. QED BY <1>5, <2>3, <3>1, Zenon DEF Copied
  <2>. QED BY <2>1, <2>2, <2>3
<1>6. ASSUME NEW draft \in Browser!Draft \cup {None}, Behind(draft, server)
      PROVE  Behind(draft, server')
  <2>1. CASE draft # None /\ draft.id = i
    <3>1. /\ server[i] # None /\ draft.version <= server[i].version /\ draft.version \in Nat
          /\ server[i].version \in Nat /\ new.version \in Nat
      BY <1>6, <2>1 DEF Behind, Browser!Draft, Browser!Row, Browser!PageAssumption
    <3>. QED BY <1>3, <1>4, <2>1, <3>1, NoneIs DEF Behind
  <2>2. CASE draft = None
    BY <2>2 DEF Behind
  <2>3. CASE draft # None /\ draft.id # i
    <3>1. draft.id \in Invoices /\ server'[draft.id] = server[draft.id]
      BY <1>3, <2>3 DEF Browser!Draft
    <3>. QED BY <1>6, <2>3, <3>1, Zenon DEF Behind
  <2>. QED BY <2>1, <2>2, <2>3
<1>. QED BY <1>2, <1>5, <1>6

LEMMA InitPage == Browser!PageAssumption /\ Browser!PageInit => PageInvariant
<1> SUFFICES ASSUME Browser!PageAssumption, Browser!PageInit PROVE PageInvariant
  OBVIOUS
<1>1. Browser!PageTypeOK
  BY DEF Browser!PageInit, Browser!PageTypeOK, Browser!NoPage, Browser!Page
<1>. QED
  BY <1>1 DEF Browser!PageInit, PageInvariant, RowsOwned, CopiesSound, Copied, TypedShown,
     OneAwaited, CallsFormed, WriteShown, Browser!NoPage, DraftsSound, Behind, ReadSound

LEMMA CopiedIs ==
  ASSUME NEW copy, copy # None, NEW table, Copied(copy, table)
  PROVE  table[copy.id] # None /\ Copies(copy, table[copy.id])
BY Zenon DEF Copied

LEMMA CopiesAre ==
  ASSUME Browser!PageTypeOK
  PROVE  /\ page.selected \in Browser!Row \cup {None}
         /\ \A c \in calls : c.row \in Browser!Row \cup {None}
         /\ page.typed \in Browser!Draft \cup {None}
         /\ write # None => /\ write.shown \in Browser!Row \cup {None}
                           /\ write.typed \in Browser!Draft \cup {None}
BY DEF Browser!PageTypeOK, Browser!Page, Browser!Calls, Browser!Writes

LEMMA ReadIs ==
  ASSUME Browser!PageAssumption, PageInvariant, write # None, write.read # None
  PROVE  ReadCopy(write) \in Browser!Row /\ ReadCopy(write) # None
<1>1. /\ write \in Browser!Writes /\ write.read \in Browser!Statuses
      /\ write.kind # "upload" /\ write.answer = None
  BY DEF PageInvariant, Browser!PageTypeOK, Browser!Writes, ReadSound
<1>2. write.id = write.shown.id /\ write.version = write.shown.version
      /\ write.shown \in Browser!Row
  BY <1>1, CopiesAre DEF PageInvariant, WriteShown
<1>3. ReadCopy(write) \in Browser!Row
  BY <1>1, <1>2 DEF ReadCopy, Browser!Row
<1>. QED BY <1>3, NoneIs

LEMMA UploadWrites ==
  ASSUME Browser!PageAssumption, Browser!Upload PROVE RowWritten
<1>1. PICK i \in Invoices \ Browser!Existing :
        server' = [server EXCEPT ![i] = [id |-> i, status |-> "PROCESSING", version |-> 1]]
  BY DEF Browser!Upload
<1>2. PICK new : new = [id |-> i, status |-> "PROCESSING", version |-> 1]
  OBVIOUS
<1>3. new \in Browser!Row /\ new.id = i /\ server[i] = None
  BY <1>1, <1>2 DEF Browser!Row, Browser!Statuses, Browser!PageAssumption, Browser!Existing
<1>. QED BY <1>1, <1>2, <1>3, Zenon DEF RowWritten

LEMMA PageMount ==
  ASSUME Browser!PageAssumption, PageInvariant, Browser!Mount
  PROVE  PageInvariant'
<1>1. Browser!PageTypeOK'
  BY NoneIs DEF Browser!Mount, Browser!NoPage, Browser!Send, Browser!Call, PageInvariant,
     Browser!PageTypeOK, Browser!Row, Browser!Calls, Browser!Writes, Browser!Page
<1>2. RowsOwned'
  BY NoneIs DEF Browser!Mount, Browser!NoPage, Browser!Send, Browser!Call, PageInvariant, RowsOwned
<1>3. CopiesSound'
  BY NoneIs DEF Browser!Mount, Browser!NoPage, Browser!Send, Browser!Call, PageInvariant,
     Browser!PageTypeOK, CopiesSound, Copied, Browser!Page
<1>4. TypedShown' /\ DraftsSound' /\ ReadSound'
  BY NoneIs DEF Browser!Mount, Browser!NoPage, Browser!Send, Browser!Call, PageInvariant,
     Browser!PageTypeOK, TypedShown, Browser!Page, DraftsSound, Behind, ReadSound, ReadCopy,
     Copied, Browser!Writes
<1>5. OneAwaited'
  BY NoneIs DEF Browser!Mount, Browser!NoPage, Browser!Send, Browser!Call, PageInvariant,
     Browser!PageTypeOK, OneAwaited, Browser!Page
<1>6. CallsFormed'
  BY NoneIs DEF Browser!Mount, Browser!NoPage, Browser!Send, Browser!Call, PageInvariant,
     CallsFormed
<1>7. WriteShown'
  BY NoneIs DEF Browser!Mount, Browser!NoPage, Browser!Send, Browser!Call, PageInvariant,
     Browser!PageTypeOK, TypedShown, WriteShown, Browser!Page, Browser!Writes
<1>. QED BY <1>1, <1>2, <1>3, <1>4, <1>5, <1>6, <1>7 DEF PageInvariant

LEMMA PagePoll ==
  ASSUME Browser!PageAssumption, PageInvariant, Browser!Poll
  PROVE  PageInvariant'
<1>1. Browser!PageTypeOK'
  <2>1. Browser!Call("list", page.selectedId, FALSE) \in Browser!Calls
    BY NoneIs DEF PageInvariant, Browser!PageTypeOK, Browser!Page, Browser!Call, Browser!Calls
  <2>. QED BY <2>1 DEF Browser!Poll, Browser!Send, PageInvariant, Browser!PageTypeOK
<1>2. RowsOwned'
  BY NoneIs DEF Browser!Poll, Browser!Send, Browser!Call, PageInvariant, RowsOwned
<1>3. CopiesSound'
  BY NoneIs DEF Browser!Poll, Browser!Send, Browser!Call, PageInvariant, Browser!PageTypeOK,
     CopiesSound, Copied, Browser!Page
<1>4. TypedShown' /\ DraftsSound' /\ ReadSound'
  BY NoneIs DEF Browser!Poll, Browser!Send, Browser!Call, PageInvariant, Browser!PageTypeOK,
     TypedShown, Browser!Page, DraftsSound, Behind, ReadSound, ReadCopy, Copied, Browser!Writes
<1>5. OneAwaited'
  BY NoneIs DEF Browser!Poll, Browser!Send, Browser!Call, PageInvariant, Browser!PageTypeOK,
     OneAwaited, Browser!Page
<1>6. CallsFormed'
  BY NoneIs DEF Browser!Poll, Browser!Send, Browser!Call, PageInvariant, CallsFormed
<1>7. WriteShown'
  BY NoneIs DEF Browser!Poll, Browser!Send, Browser!Call, PageInvariant, Browser!PageTypeOK,
     TypedShown, WriteShown, Browser!Page, Browser!Writes
<1>. QED BY <1>1, <1>2, <1>3, <1>4, <1>5, <1>6, <1>7 DEF PageInvariant

LEMMA PageType ==
  ASSUME Browser!PageAssumption, PageInvariant, Browser!Type
  PROVE  PageInvariant'
<1>1. PICK draft : draft = [id |-> page.selected.id, version |-> page.selected.version]
  OBVIOUS
<1>2. /\ page.selected \in Browser!Row /\ page.selected # None /\ page \in Browser!Page
      /\ Copied(page.selected, server)
  BY DEF Browser!Type, PageInvariant, Browser!PageTypeOK, Browser!Page, CopiesSound
<1>3. /\ draft \in Browser!Draft /\ draft.id = page.selected.id
      /\ draft.version = page.selected.version
  BY <1>1, <1>2 DEF Browser!Draft, Browser!Row
<1>4. /\ page' = [page EXCEPT !.typed = draft]
      /\ server' = server /\ calls' = calls /\ write' = write
  BY <1>1 DEF Browser!Type
<1>5. /\ page' \in Browser!Page /\ page'.selected = page.selected /\ page'.typed = draft
      /\ page'.pending = page.pending
  BY <1>2, <1>3, <1>4 DEF Browser!Page
<1>6. Browser!PageTypeOK' /\ RowsOwned' /\ CopiesSound' /\ TypedShown'
  BY <1>2, <1>3, <1>4, <1>5 DEF PageInvariant, Browser!PageTypeOK, RowsOwned, CopiesSound,
     TypedShown
<1>7. DraftsSound'
  <2>1. Behind(draft, server)
    BY <1>2, <1>3 DEF Copied, Copies, Behind
  <2>. QED BY <1>4, <1>5, <2>1 DEF PageInvariant, DraftsSound
<1>8. ReadSound' /\ OneAwaited' /\ CallsFormed' /\ WriteShown'
  BY <1>4, <1>5 DEF PageInvariant, ReadSound, OneAwaited, CallsFormed, WriteShown
<1>. QED BY <1>6, <1>7, <1>8 DEF PageInvariant

(* The request of a click.                                                 *)
Sending(kind, id, version, typed, closure, shown) ==
  [kind |-> kind, id |-> id, version |-> version, typed |-> typed,
   closure |-> closure, shown |-> shown, read |-> None, answer |-> None]

LEMMA PageClick ==
  ASSUME Browser!PageAssumption, PageInvariant, NEW kind, NEW id, NEW version, NEW typed,
         NEW closure, NEW shown \in {None, page.selected},
         Browser!Click(kind, id, version, typed, closure, shown),
         Sending(kind, id, version, typed, closure, shown) \in Browser!Writes,
         typed \in {None, page.typed},
         kind # "upload" =>
          /\ shown # None /\ id = shown.id /\ version = shown.version
          /\ kind = "submit" => Browser!Submittable(shown)
  PROVE  PageInvariant'
<1>1. Browser!PageTypeOK'
  <2>1. page' \in Browser!Page
    BY DEF Browser!Click, PageInvariant, Browser!PageTypeOK, Browser!Page
  <2>. QED BY <2>1 DEF Sending, Browser!Click, PageInvariant, Browser!PageTypeOK
<1>2. /\ page'.pending /\ ~page.pending /\ page'.selected = page.selected
      /\ page'.typed = page.typed
      /\ calls' = calls /\ write' # None /\ server' = server
      /\ write'.shown = shown /\ write'.kind = kind /\ write'.id = id
      /\ write'.version = version /\ write'.typed = typed /\ write'.read = None
  BY NoneIs DEF Sending, Browser!Click, PageInvariant, Browser!PageTypeOK, Browser!Page
<1>3. RowsOwned' /\ CopiesSound' /\ TypedShown'
  BY <1>2 DEF PageInvariant, RowsOwned, CopiesSound, Copied, TypedShown
<1>4. DraftsSound' /\ ReadSound'
  BY <1>2 DEF PageInvariant, DraftsSound, Behind, ReadSound
<1>5. OneAwaited'
  BY <1>2, Zenon DEF PageInvariant, OneAwaited
<1>6. CallsFormed'
  BY <1>2 DEF PageInvariant, CallsFormed
<1>7. WriteShown'
  <2>1. typed # None => typed.id = page.selected.id
    BY DEF PageInvariant, TypedShown
  <2>. QED BY <1>2, <2>1 DEF WriteShown
<1>. QED BY <1>1, <1>3, <1>4, <1>5, <1>6, <1>7 DEF PageInvariant

LEMMA PageUploadClick ==
  ASSUME Browser!PageAssumption, PageInvariant, Browser!UploadClick
  PROVE  PageInvariant'
<1>1. Browser!Click("upload", None, 0, None, None, None)
  BY DEF Browser!UploadClick
<1>2. Sending("upload", None, 0, None, None, None) \in Browser!Writes
  BY DEF Sending, Browser!PageAssumption, Browser!Writes
<1>. QED BY <1>1, <1>2, PageClick

LEMMA PageSave ==
  ASSUME Browser!PageAssumption, PageInvariant, Browser!Save
  PROVE  PageInvariant'
<1>1. /\ page.selected # None /\ page.selected \in Browser!Row
      /\ Browser!Click("save", page.selected.id, page.selected.version, page.typed,
                       page.selectedId, page.selected)
  BY DEF Browser!Save, PageInvariant, Browser!PageTypeOK, Browser!Page
<1>2. Sending("save", page.selected.id, page.selected.version, page.typed,
              page.selectedId, page.selected) \in Browser!Writes
  BY <1>1 DEF Sending, Browser!PageAssumption, PageInvariant, Browser!PageTypeOK,
     Browser!Page, Browser!Writes, Browser!Row
<1>. QED BY <1>1, <1>2, PageClick

LEMMA PageSubmit ==
  ASSUME Browser!PageAssumption, PageInvariant, Browser!SubmitForApproval
  PROVE  PageInvariant'
<1>1. /\ page.selected # None /\ Browser!Submittable(page.selected)
      /\ page.selected \in Browser!Row
      /\ Browser!Click("submit", page.selected.id, page.selected.version, None,
                       page.selectedId, page.selected)
  BY DEF Browser!SubmitForApproval, PageInvariant, Browser!PageTypeOK, Browser!Page
<1>2. Sending("submit", page.selected.id, page.selected.version, None,
              page.selectedId, page.selected) \in Browser!Writes
  BY <1>1 DEF Sending, Browser!PageAssumption, PageInvariant, Browser!PageTypeOK,
     Browser!Page, Browser!Writes, Browser!Row
<1>. QED BY <1>1, <1>2, PageClick

LEMMA PageWriteArrives ==
  ASSUME Browser!PageAssumption, PageInvariant, Browser!WriteArrives
  PROVE  PageInvariant'
<1>1. Browser!PageTypeOK'
  <2>1. Browser!Call("list", write.closure, TRUE) \in Browser!Calls
    BY NoneIs DEF Browser!WriteArrives, PageInvariant, Browser!PageTypeOK, Browser!Writes,
       Browser!Call, Browser!Calls
  <2>2. [page EXCEPT !.pending = FALSE] \in Browser!Page
    BY DEF PageInvariant, Browser!PageTypeOK, Browser!Page
  <2>3. page' \in Browser!Page /\ calls' \subseteq Browser!Calls
    BY <2>1, <2>2 DEF Browser!WriteArrives, Browser!Send, PageInvariant, Browser!PageTypeOK
  <2>. QED BY <2>3 DEF Browser!WriteArrives, PageInvariant, Browser!PageTypeOK
<1>2. RowsOwned'
  BY NoneIs DEF Browser!WriteArrives, Browser!Send, Browser!Call, PageInvariant, RowsOwned
<1>3. CopiesSound'
  BY NoneIs DEF Browser!WriteArrives, Browser!Send, Browser!Call, PageInvariant,
     Browser!PageTypeOK, CopiesSound, Copied, Browser!Page
<1>4. TypedShown' /\ DraftsSound' /\ ReadSound'
  BY NoneIs DEF Browser!WriteArrives, Browser!Send, Browser!Call, PageInvariant,
     Browser!PageTypeOK, TypedShown, Browser!Page, DraftsSound, Behind, ReadSound, ReadCopy,
     Copied, Browser!Writes
<1>5. OneAwaited'
  <2>1. write # None /\ write' = None /\ page.pending /\ \A c \in calls : ~c.awaited
    BY DEF Browser!WriteArrives, PageInvariant, OneAwaited
  <2>2. CASE calls' = calls /\ page' = [page EXCEPT !.pending = FALSE]
    <3>1. ~page'.pending
      BY <2>2 DEF PageInvariant, Browser!PageTypeOK, Browser!Page
    <3>. QED BY <2>1, <2>2, <3>1, Zenon DEF OneAwaited
  <2>3. CASE calls' = calls \cup {Browser!Call("list", write.closure, TRUE)} /\ page' = page
    <3>1. Browser!Call("list", write.closure, TRUE).awaited
      BY DEF Browser!Call
    <3>. QED BY <2>1, <2>3, <3>1 DEF OneAwaited
  <2>. QED BY <2>2, <2>3 DEF Browser!WriteArrives, Browser!Send
<1>6. CallsFormed'
  BY NoneIs DEF Browser!WriteArrives, Browser!Send, Browser!Call, PageInvariant, CallsFormed
<1>7. WriteShown'
  BY NoneIs DEF Browser!WriteArrives, Browser!Send, Browser!Call, PageInvariant,
     Browser!PageTypeOK, TypedShown, WriteShown, Browser!Page, Browser!Writes
<1>. QED BY <1>1, <1>2, <1>3, <1>4, <1>5, <1>6, <1>7 DEF PageInvariant

LEMMA PageWriteFails ==
  ASSUME Browser!PageAssumption, PageInvariant, Browser!WriteFails
  PROVE  PageInvariant'
<1>1. Browser!PageTypeOK'
  BY NoneIs DEF Browser!WriteFails, PageInvariant, Browser!PageTypeOK, Browser!Row, Browser!Calls,
     Browser!Writes, Browser!Page
<1>2. RowsOwned'
  BY NoneIs DEF Browser!WriteFails, PageInvariant, RowsOwned
<1>3. CopiesSound'
  BY NoneIs DEF Browser!WriteFails, PageInvariant, Browser!PageTypeOK, CopiesSound, Copied,
     Browser!Page
<1>4. TypedShown' /\ DraftsSound' /\ ReadSound'
  BY NoneIs DEF Browser!WriteFails, PageInvariant, Browser!PageTypeOK, TypedShown, Browser!Page,
     DraftsSound, Behind, ReadSound, ReadCopy, Copied, Browser!Writes
<1>5. OneAwaited'
  BY NoneIs DEF Browser!WriteFails, PageInvariant, Browser!PageTypeOK, OneAwaited, Browser!Page
<1>6. CallsFormed'
  BY NoneIs DEF Browser!WriteFails, PageInvariant, CallsFormed
<1>7. WriteShown'
  BY NoneIs DEF Browser!WriteFails, PageInvariant, Browser!PageTypeOK, TypedShown, WriteShown,
     Browser!Page, Browser!Writes
<1>. QED BY <1>1, <1>2, <1>3, <1>4, <1>5, <1>6, <1>7 DEF PageInvariant

LEMMA PageServe ==
  ASSUME Browser!PageAssumption, PageInvariant, NEW c \in calls, Browser!Serve(c)
  PROVE  PageInvariant'
<1>1. PICK d : d = [c EXCEPT !.row = server[c.id]]
  OBVIOUS
<1>2. c \in Browser!Calls /\ c.id \in Invoices
  BY DEF Browser!Serve, PageInvariant, Browser!PageTypeOK, CallsFormed, Browser!Calls
<1>3. /\ d \in Browser!Calls /\ d.id = c.id /\ d.kind = c.kind /\ d.awaited = c.awaited
      /\ d.row = server[c.id]
  BY <1>1, <1>2 DEF PageInvariant, Browser!PageTypeOK, Browser!Calls
<1>4. Copied(d.row, server)
  <2>1. \A row \in Browser!Row : Copies(row, row)
    BY DEF Copies, Browser!Row, Browser!PageAssumption
  <2>2. d.row # None => d.row \in Browser!Row /\ d.row.id = c.id
    BY <1>2, <1>3 DEF PageInvariant, Browser!PageTypeOK, RowsOwned
  <2>. QED BY <1>3, <2>1, <2>2, Zenon DEF Copied
<1>5. calls' = (calls \ {c}) \cup {d} /\ server' = server /\ page' = page /\ write' = write
  BY <1>1 DEF Browser!Serve, Browser!Send
<1>6. OneAwaited'
  <2>1. (\E e \in calls' : e.awaited) <=> \E e \in calls : e.awaited
    BY <1>3, <1>5, Zenon
  <2>2. (\A e \in calls : ~e.awaited) => \A e \in calls' : ~e.awaited
    BY <1>3, <1>5, Zenon
  <2>3. (\A e, f \in calls : e.awaited /\ f.awaited => e = f) =>
           \A e, f \in calls' : e.awaited /\ f.awaited => e = f
    BY <1>3, <1>5, Zenon
  <2>. QED BY <1>5, <2>1, <2>2, <2>3, Zenon DEF PageInvariant, OneAwaited
<1>7. CallsFormed'
  BY <1>2, <1>3, <1>5, Zenon DEF PageInvariant, CallsFormed
<1>8. /\ Browser!PageTypeOK' /\ RowsOwned' /\ CopiesSound' /\ TypedShown' /\ WriteShown'
      /\ DraftsSound' /\ ReadSound'
  BY <1>3, <1>4, <1>5 DEF PageInvariant, Browser!PageTypeOK, RowsOwned, CopiesSound, TypedShown,
     WriteShown, DraftsSound, ReadSound
<1>. QED BY <1>6, <1>7, <1>8 DEF PageInvariant

(* InvoicePage counts with its own instance of FiniteSets.                 *)
LEMMA SameFinite == \A S : Browser!IsFiniteSet(S) <=> IsFiniteSet(S)
BY DEF Browser!IsFiniteSet, IsFiniteSet

(* What a load that has listed the invoices does next. *)
LEMMA TargetIs ==
  ASSUME Browser!PageAssumption, PageInvariant, NEW c \in calls,
         ~(c.id = None /\ Browser!Existing = {})
  PROVE  (IF c.id # None THEN c.id ELSE Browser!Largest(Browser!Existing)) \in Invoices
<1>1. /\ Browser!Existing \in SUBSET Invoices /\ Browser!Existing \in SUBSET Nat
      /\ IsFiniteSet(Browser!Existing)
  BY FS_Subset, SameFinite DEF Browser!PageAssumption, Browser!Existing
<1>2. c.id \in Invoices \cup {None}
  BY DEF PageInvariant, Browser!PageTypeOK, Browser!Calls
<1>. QED BY <1>1, <1>2, LargestIs

LEMMA PageListArrives ==
  ASSUME Browser!PageAssumption, PageInvariant, NEW c \in calls, Browser!ListArrives(c)
  PROVE  PageInvariant'
<1>1. CASE c.id = None /\ Browser!Existing = {}
  <2>1. /\ page' = [page EXCEPT !.profile = TRUE, !.pending = page.pending /\ ~c.awaited]
        /\ calls' = calls \ {c} /\ server' = server /\ write' = write
    BY <1>1, Zenon DEF Browser!ListArrives, Browser!Send
  <2>2. page.pending \in BOOLEAN /\ c.awaited \in BOOLEAN
    BY DEF PageInvariant, Browser!PageTypeOK, Browser!Page, Browser!Calls
  <2>3. PICK p \in BOOLEAN : p = (page.pending /\ ~c.awaited)
    BY <2>2
  <2>4. page' = [page EXCEPT !.profile = TRUE, !.pending = p]
    BY <2>1, <2>3
  <2>5. /\ page' \in Browser!Page /\ page'.selected = page.selected
        /\ page'.typed = page.typed /\ page'.pending = p
    BY <2>4 DEF PageInvariant, Browser!PageTypeOK, Browser!Page
  <2>6. OneAwaited'
    BY <2>1, <2>3, <2>5 DEF PageInvariant, OneAwaited
  <2>. QED BY <2>1, <2>5, <2>6 DEF PageInvariant, Browser!PageTypeOK, RowsOwned, CopiesSound,
              DraftsSound, TypedShown, ReadSound, CallsFormed, WriteShown
<1>2. CASE ~(c.id = None /\ Browser!Existing = {})
  <2>1. PICK target : target = IF c.id # None THEN c.id ELSE Browser!Largest(Browser!Existing)
    OBVIOUS
  <2>2. /\ page' = [page EXCEPT !.profile = TRUE, !.inbox = Browser!Existing, !.selectedId = target]
        /\ calls' = (calls \ {c}) \cup {Browser!Detail(c, target)} \cup Browser!Effect(target)
        /\ server' = server /\ write' = write
    BY <1>2, <2>1, Zenon DEF Browser!ListArrives, Browser!Send
  <2>3. target \in Invoices
    BY <1>2, <2>1, TargetIs
  <2>4. /\ page' \in Browser!Page /\ page'.selected = page.selected
        /\ page'.typed = page.typed /\ page'.pending = page.pending
    BY <2>2, <2>3 DEF PageInvariant, Browser!PageTypeOK, Browser!Page, Browser!Existing
  <2>5. PICK d : d = Browser!Detail(c, target)
    OBVIOUS
  <2>6. PICK e : e = Browser!Call("list", target, FALSE)
    OBVIOUS
  <2>7. /\ d \in Browser!Calls /\ d.row = None /\ d.awaited = c.awaited /\ d.id # None
        /\ d.kind = "detail"
        /\ e \in Browser!Calls /\ e.row = None /\ ~e.awaited /\ e.id # None /\ e.kind = "list"
    BY <2>3, <2>5, <2>6, NoneIs DEF Browser!Detail, Browser!Call, PageInvariant,
       Browser!PageTypeOK, Browser!Calls
  <2>8. /\ calls' \subseteq (calls \ {c}) \cup {d, e}
        /\ (calls \ {c}) \cup {d} \subseteq calls'
    BY <2>2, <2>5, <2>6 DEF Browser!Effect
  <2>9. OneAwaited'
    <3>1. (\E f \in calls' : f.awaited) <=> \E f \in calls : f.awaited
      BY <2>7, <2>8, Zenon
    <3>2. (\A f \in calls : ~f.awaited) => \A f \in calls' : ~f.awaited
      BY <2>7, <2>8, Zenon
    <3>3. (\A f, g \in calls : f.awaited /\ g.awaited => f = g) =>
           \A f, g \in calls' : f.awaited /\ g.awaited => f = g
      BY <2>7, <2>8
    <3>. QED BY <2>2, <2>4, <3>1, <3>2, <3>3, Zenon DEF PageInvariant, OneAwaited
  <2>10. CallsFormed'
    BY <2>7, <2>8 DEF PageInvariant, CallsFormed
  <2>. QED BY <2>2, <2>4, <2>7, <2>8, <2>9, <2>10 DEF PageInvariant, Browser!PageTypeOK, RowsOwned,
           CopiesSound, Copied, DraftsSound, TypedShown, ReadSound, WriteShown
<1>. QED BY <1>1, <1>2

(* A write of one row leaves what the page, the calls and the request hold *)
(* as true as it was.                                                      *)
LEMMA RowWrite ==
  ASSUME Browser!PageAssumption, PageInvariant, RowWritten,
         page' = page, calls' = calls,
         \/ write' = write
         \/ /\ write # None /\ write' \in Browser!Writes /\ write'.answer # None
            /\ write'.typed = None /\ write'.shown = None /\ write'.read = None
  PROVE  PageInvariant'
<1>1. /\ server' \in [Invoices -> Browser!Row \cup {None}] /\ RowsOwned'
      /\ \A copy \in Browser!Row \cup {None} : Copied(copy, server) => Copied(copy, server')
      /\ \A draft \in Browser!Draft \cup {None} : Behind(draft, server) => Behind(draft, server')
  BY RowsKept DEF PageInvariant, Browser!PageTypeOK
<1>2. CopiesSound' /\ DraftsSound'
  BY <1>1, CopiesAre DEF PageInvariant, Browser!PageTypeOK, CopiesSound, DraftsSound, Copied, Behind
<1>3. ReadSound'
  <2>1. CASE write' = write /\ write # None /\ write.read # None
    <3>1. ReadCopy(write) \in Browser!Row /\ Copied(ReadCopy(write), server)
      BY <2>1, ReadIs DEF PageInvariant, ReadSound
    <3>. QED BY <1>1, <2>1, <3>1 DEF PageInvariant, ReadSound, ReadCopy
  <2>2. CASE write' = write /\ (write = None \/ write.read = None)
    BY <2>2 DEF ReadSound
  <2>3. CASE write' # write
    BY <2>3 DEF ReadSound
  <2>. QED BY <2>1, <2>2, <2>3
<1>4. Browser!PageTypeOK' /\ TypedShown' /\ CallsFormed'
  BY <1>1 DEF PageInvariant, Browser!PageTypeOK, TypedShown, CallsFormed
<1>5. OneAwaited'
  <2>1. (write' # None) <=> (write # None)
    BY NoneIs
  <2>. QED BY <2>1, Zenon DEF PageInvariant, OneAwaited
<1>6. WriteShown'
  BY DEF PageInvariant, WriteShown
<1>. QED BY <1>1, <1>2, <1>3, <1>4, <1>5, <1>6 DEF PageInvariant

(* A request that is answered keeps only what the load after it needs.     *)
LEMMA AnsweredIs ==
  ASSUME PageInvariant, write # None, NEW a \in Browser!Answers, Browser!Answered(a)
  PROVE  /\ write' \in Browser!Writes /\ write'.answer = a
         /\ write'.typed = None /\ write'.shown = None /\ write'.read = None
BY DEF PageInvariant, Browser!PageTypeOK, Browser!Writes, Browser!Answered

(* Requests for a row name one that is there.                              *)
LEMMA WrittenThere ==
  ASSUME Browser!PageAssumption, PageInvariant, Browser!Awaits({"save", "submit"})
  PROVE  /\ write # None /\ write \in Browser!Writes /\ write.answer = None
         /\ write.kind \in {"save", "submit"}
         /\ write.id \in Invoices /\ write.version \in 1..MaxRevision
         /\ write.id = write.shown.id /\ write.version = write.shown.version
         /\ write.shown \in Browser!Row /\ Copies(write.shown, server[write.id])
         /\ server[write.id] \in Browser!Row /\ server[write.id].id = write.id
<1>1. /\ write # None /\ write.answer = None /\ write.kind \in {"save", "submit"}
      /\ write \in Browser!Writes
  BY DEF Browser!Awaits, PageInvariant, Browser!PageTypeOK
<1>2. /\ write.shown # None /\ write.id = write.shown.id /\ write.version = write.shown.version
      /\ Copied(write.shown, server) /\ write.shown \in Browser!Row
  BY <1>1, CopiesAre DEF PageInvariant, WriteShown, CopiesSound
<1>3. server[write.id] # None /\ Copies(write.shown, server[write.id])
  BY <1>2, CopiedIs
<1>4. write.id \in Invoices /\ write.version \in 1..MaxRevision
  BY <1>2 DEF Browser!Row
<1>. QED BY <1>1, <1>2, <1>3, <1>4 DEF PageInvariant, Browser!PageTypeOK, RowsOwned

LEMMA PageServeUpload ==
  ASSUME Browser!PageAssumption, PageInvariant, Browser!ServeUpload
  PROVE  PageInvariant'
<1>1. RowWritten
  BY UploadWrites DEF Browser!ServeUpload
<1>2. write # None /\ page' = page /\ calls' = calls /\ Browser!Answered("accepted")
  BY DEF Browser!ServeUpload, Browser!Awaits
<1>3. /\ write' \in Browser!Writes /\ write'.answer # None
      /\ write'.typed = None /\ write'.shown = None /\ write'.read = None
  BY <1>2, AnsweredIs DEF Browser!Answers, Browser!PageAssumption
<1>. QED BY <1>1, <1>2, <1>3, RowWrite

(* Nothing but the answer is new when a request is refused.                *)
LEMMA PageRefused ==
  ASSUME Browser!PageAssumption, PageInvariant, write # None, Browser!Answered("refused"),
         server' = server, page' = page, calls' = calls
  PROVE  PageInvariant'
<1>1. /\ write' \in Browser!Writes /\ write'.answer # None /\ write' # None
      /\ write'.typed = None /\ write'.shown = None /\ write'.read = None
  BY AnsweredIs, NoneIs DEF Browser!Answers, Browser!PageAssumption
<1>2. Browser!PageTypeOK' /\ RowsOwned' /\ TypedShown' /\ CallsFormed' /\ WriteShown'
  BY <1>1 DEF PageInvariant, Browser!PageTypeOK, RowsOwned, TypedShown, CallsFormed, WriteShown
<1>3. CopiesSound' /\ DraftsSound' /\ ReadSound'
  BY <1>1 DEF PageInvariant, CopiesSound, DraftsSound, ReadSound, Copied, Behind
<1>4. OneAwaited'
  BY <1>1, Zenon DEF PageInvariant, OneAwaited
<1>. QED BY <1>2, <1>3, <1>4 DEF PageInvariant

LEMMA PageReadForWrite ==
  ASSUME Browser!PageAssumption, PageInvariant, Browser!ReadForWrite
  PROVE  PageInvariant'
<1>1. /\ Browser!Awaits({"save", "submit"})
      /\ server' = server /\ page' = page /\ calls' = calls
  BY DEF Browser!ReadForWrite
<1>2. CASE Browser!Answered("refused")
  BY <1>1, <1>2, WrittenThere, PageRefused
<1>3. CASE write' = [write EXCEPT !.read = server[write.id].status]
  <2>1. PICK row \in Browser!Row : row = server[write.id] /\ row.id = write.id
    BY <1>1, WrittenThere
  <2>2. /\ write # None /\ write \in Browser!Writes /\ write.answer = None
        /\ write.kind \in {"save", "submit"} /\ write.id \in Invoices
        /\ write.version \in 1..MaxRevision /\ write.version <= row.version
    BY <1>1, <2>1, WrittenThere DEF Copies
  <2>3. row.status \in Browser!Statuses
    BY DEF Browser!Row
  <2>4. /\ write' \in Browser!Writes /\ write'.read = row.status
        /\ write'.answer = None /\ write'.kind = write.kind /\ write'.id = write.id
        /\ write'.version = write.version /\ write'.typed = write.typed
        /\ write'.shown = write.shown
    BY <1>3, <2>1, <2>2, <2>3 DEF Browser!Writes
  <2>5. write' # None
    BY <2>4, NoneIs
  <2>6. Browser!PageTypeOK' /\ RowsOwned' /\ CopiesSound' /\ DraftsSound' /\ TypedShown'
    BY <1>1, <2>2, <2>4 DEF PageInvariant, Browser!PageTypeOK, RowsOwned, CopiesSound, DraftsSound,
       TypedShown
  <2>7. ReadSound'
    <3>1. Copied(ReadCopy(write'), server)
      <4>1. ReadCopy(write').id = write.id /\ ReadCopy(write').status = row.status
            /\ ReadCopy(write').version = write.version
        BY <2>4 DEF ReadCopy
      <4>2. Copies(ReadCopy(write'), row)
        BY <2>2, <4>1 DEF Copies
      <4>. QED BY <2>1, <4>1, <4>2, NoneIs DEF Copied
    <3>. QED BY <1>1, <2>2, <2>4, <3>1 DEF ReadSound, ReadCopy
  <2>8. OneAwaited'
    BY <1>1, <2>2, <2>5, Zenon DEF PageInvariant, OneAwaited
  <2>9. CallsFormed' /\ WriteShown'
    BY <1>1, <2>2, <2>4 DEF PageInvariant, CallsFormed, WriteShown
  <2>. QED BY <2>6, <2>7, <2>8, <2>9 DEF PageInvariant
<1>. QED BY <1>2, <1>3 DEF Browser!ReadForWrite

(* The row that an accepted save or submission finds and leaves.           *)
LEMMA ServedRow ==
  ASSUME Browser!PageAssumption, PageInvariant, Browser!ServeWrite,
         Browser!Matched(server[write.id])
  PROVE  /\ RowWritten /\ write.id \in Invoices
         /\ server[write.id].version = write.version
         /\ write.kind = "submit" => server[write.id] = write.shown
         /\ write.kind = "save" => server'[write.id].status # "AWAITING_APPROVAL"
<1>1. Browser!Awaits({"save", "submit"}) /\ write.read # None
  BY DEF Browser!ServeWrite
<1>2. PICK row \in Browser!Row : row = server[write.id] /\ row.id = write.id
  BY <1>1, WrittenThere
<1>3. /\ write.kind \in {"save", "submit"} /\ write.id \in Invoices /\ write # None
      /\ write.version = write.shown.version /\ write.id = write.shown.id
      /\ write.shown \in Browser!Row /\ write.answer = None
  BY <1>1, WrittenThere
<1>4. PICK new : new = Browser!Written(row)
  OBVIOUS
<1>5. new \in Browser!Row /\ server' = [server EXCEPT ![write.id] = new]
  BY <1>2, <1>4, Zenon DEF Browser!ServeWrite, Browser!Rewrite
<1>6. row.version = write.version /\ (write.kind = "submit" => Browser!Submittable(row))
  BY <1>2 DEF Browser!Matched, Browser!Current
<1>7. new.version = row.version + 1 /\ new.id = row.id
  BY <1>4 DEF Browser!Written, Browser!Saved, Browser!Submitted, Browser!Changed, Browser!Row
<1>8. server'[write.id] = new
  BY <1>3, <1>5 DEF PageInvariant, Browser!PageTypeOK
<1>9. write.kind = "submit" => row = write.shown
  <2>1. write.kind = "submit" => Browser!Submittable(write.shown)
    BY <1>3 DEF PageInvariant, WriteShown
  <2>. QED BY <1>2, <1>3, <1>6, <2>1 DEF Browser!Submittable, Browser!Row
<1>10. write.kind = "save" => new.status # "AWAITING_APPROVAL"
  <2>1. Copied(ReadCopy(write), server)
    BY <1>1, <1>3 DEF PageInvariant, ReadSound
  <2>2. row.status = "AWAITING_APPROVAL" => write.read = "AWAITING_APPROVAL"
    <3>1. ReadCopy(write) # None
      BY <1>1, <1>3, ReadIs DEF PageInvariant, ReadSound
    <3>2. Copies(ReadCopy(write), row)
      BY <1>2, <2>1, <3>1 DEF Copied, ReadCopy
    <3>. QED BY <1>6, <3>2 DEF Copies, ReadCopy
  <2>3. write.kind = "save" => new = Browser!Saved(row, write.read)
    BY <1>4 DEF Browser!Written
  <2>. QED BY <2>2, <2>3 DEF Browser!Saved, Browser!Changed, Browser!Row
<1>11. RowWritten
  BY <1>2, <1>3, <1>5, <1>7 DEF RowWritten, Rewritten
<1>. QED BY <1>2, <1>3, <1>6, <1>8, <1>9, <1>10, <1>11

LEMMA PageServeWrite ==
  ASSUME Browser!PageAssumption, PageInvariant, Browser!ServeWrite
  PROVE  PageInvariant'
<1>1. write # None /\ page' = page /\ calls' = calls
  BY DEF Browser!ServeWrite, Browser!Awaits
<1>2. CASE Browser!Matched(server[write.id])
  <2>1. Browser!Answered("accepted")
    BY <1>2, Zenon DEF Browser!ServeWrite
  <2>2. /\ write' \in Browser!Writes /\ write'.answer # None
        /\ write'.typed = None /\ write'.shown = None /\ write'.read = None
    BY <1>1, <2>1, AnsweredIs DEF Browser!Answers, Browser!PageAssumption
  <2>. QED BY <1>1, <1>2, <2>2, ServedRow, RowWrite
<1>3. CASE ~Browser!Matched(server[write.id])
  <2>1. server' = server /\ Browser!Answered("refused")
    BY <1>3, Zenon DEF Browser!ServeWrite
  <2>. QED BY <1>1, <2>1, PageRefused
<1>. QED BY <1>2, <1>3

LEMMA PageElsewhere ==
  ASSUME Browser!PageAssumption, PageInvariant, Browser!Elsewhere
  PROVE  PageInvariant'
<1>1. page' = page /\ calls' = calls /\ write' = write
  BY DEF Browser!Elsewhere
<1>2. RowWritten
  <2>1. CASE Browser!Upload
    BY <2>1, UploadWrites
  <2>2. ASSUME NEW i \in Browser!Existing,
               Browser!Restatus(i) \/ Browser!Edit(i) \/ Browser!Submission(i)
        PROVE  RowWritten
    <3>1. i \in Invoices /\ server[i] \in Browser!Row /\ server[i].id = i
      BY <2>2 DEF Browser!Existing, PageInvariant, Browser!PageTypeOK, RowsOwned
    <3>2. PICK old \in Browser!Row : old = server[i] /\ old.id = i
      BY <3>1
    <3>3. ASSUME NEW new, Browser!Rewrite(i, new), new.id = i, Rewritten(old, new)
          PROVE  RowWritten
      BY <3>1, <3>2, <3>3 DEF Browser!Rewrite, RowWritten
    <3>4. ASSUME NEW s \in Browser!Statuses \ {"AWAITING_APPROVAL"},
                 Browser!Rewrite(i, [old EXCEPT !.status = s])
          PROVE  RowWritten
      <4>1. PICK new : new = [old EXCEPT !.status = s]
        OBVIOUS
      <4>2. new.id = i /\ Rewritten(old, new)
        BY <3>2, <4>1 DEF Rewritten, Browser!Row
      <4>. QED BY <3>3, <3>4, <4>1, <4>2
    <3>5. ASSUME NEW s, Browser!Rewrite(i, Browser!Changed(old, s)) PROVE RowWritten
      <4>1. PICK new : new = Browser!Changed(old, s)
        OBVIOUS
      <4>2. new.id = i /\ Rewritten(old, new)
        BY <3>2, <4>1 DEF Rewritten, Browser!Changed, Browser!Row
      <4>. QED BY <3>3, <3>5, <4>1, <4>2
    <3>6. CASE Browser!Restatus(i)
      BY <3>2, <3>4, <3>6 DEF Browser!Restatus, Browser!Statuses
    <3>7. CASE Browser!Edit(i)
      BY <3>2, <3>5, <3>7 DEF Browser!Edit, Browser!Saved
    <3>8. CASE Browser!Submission(i)
      BY <3>2, <3>5, <3>8 DEF Browser!Submission, Browser!Submitted
    <3>. QED BY <2>2, <3>6, <3>7, <3>8
  <2>. QED BY <2>1, <2>2, Zenon DEF Browser!Elsewhere
<1>. QED BY <1>1, <1>2, RowWrite

LEMMA PageArrive ==
  ASSUME Browser!PageAssumption, PageInvariant, NEW c \in calls, Browser!Arrive(c)
  PROVE  PageInvariant'
<1>1. Browser!PageTypeOK'
  <2>1. /\ page.typed \in Browser!Draft \cup {None} /\ page.pending \in BOOLEAN
        /\ c.row \in Browser!Row /\ c.awaited \in BOOLEAN
    BY DEF Browser!Arrive, PageInvariant, Browser!PageTypeOK, Browser!Page, Browser!Calls
  <2>2. Browser!Retyped(c.row) \in Browser!Draft \cup {None}
    BY <2>1 DEF Browser!Retyped
  <2>3. (page.pending /\ ~c.awaited) \in BOOLEAN
    OBVIOUS
  <2>4. page' = [page EXCEPT !.selected = c.row, !.typed = Browser!Retyped(c.row),
                          !.pending = page.pending /\ ~c.awaited]
    BY Zenon DEF Browser!Arrive
  <2>5. page' \in Browser!Page
    BY <2>1, <2>2, <2>3, <2>4 DEF PageInvariant, Browser!PageTypeOK, Browser!Page
  <2>. QED BY <2>5 DEF Browser!Arrive, Browser!Send, PageInvariant, Browser!PageTypeOK
<1>2. RowsOwned'
  BY NoneIs DEF Browser!Arrive, Browser!Send, Browser!Retyped, PageInvariant, RowsOwned
<1>3. CopiesSound'
  BY NoneIs DEF Browser!Arrive, Browser!Send, Browser!Retyped, PageInvariant, Browser!PageTypeOK,
     CopiesSound, Copied, Browser!Page
<1>4. TypedShown' /\ DraftsSound' /\ ReadSound'
  BY NoneIs DEF Browser!Arrive, Browser!Send, Browser!Retyped, PageInvariant, Browser!PageTypeOK,
     TypedShown, Browser!Page, DraftsSound, Behind, ReadSound, ReadCopy, Copied, Browser!Writes
<1>5. OneAwaited'
  BY NoneIs DEF Browser!Arrive, Browser!Send, Browser!Retyped, PageInvariant, Browser!PageTypeOK,
     OneAwaited, Browser!Page
<1>6. CallsFormed'
  BY NoneIs DEF Browser!Arrive, Browser!Send, Browser!Retyped, PageInvariant, CallsFormed
<1>7. WriteShown'
  BY NoneIs DEF Browser!Arrive, Browser!Send, Browser!Retyped, PageInvariant, Browser!PageTypeOK,
     TypedShown, WriteShown, Browser!Page, Browser!Writes
<1>. QED BY <1>1, <1>2, <1>3, <1>4, <1>5, <1>6, <1>7 DEF PageInvariant

LEMMA PageFail ==
  ASSUME Browser!PageAssumption, PageInvariant, NEW c \in calls, Browser!Fail(c)
  PROVE  PageInvariant'
<1>1. Browser!PageTypeOK'
  <2>1. Browser!NoPage \in Browser!Page
    BY DEF Browser!NoPage, Browser!Page
  <2>2. /\ page' \in Browser!Page /\ calls' \subseteq Browser!Calls
        /\ write' \in Browser!Writes \cup {None} /\ server' = server
    BY <2>1 DEF Browser!Fail, PageInvariant, Browser!PageTypeOK
  <2>. QED BY <2>2 DEF PageInvariant, Browser!PageTypeOK
<1>2. RowsOwned'
  BY NoneIs DEF Browser!Fail, Browser!NoPage, PageInvariant, RowsOwned
<1>3. CopiesSound'
  BY NoneIs DEF Browser!Fail, Browser!NoPage, PageInvariant, Browser!PageTypeOK, CopiesSound,
     Copied, Browser!Page
<1>4. TypedShown' /\ DraftsSound' /\ ReadSound'
  BY NoneIs DEF Browser!Fail, Browser!NoPage, PageInvariant, Browser!PageTypeOK, TypedShown,
     Browser!Page, DraftsSound, Behind, ReadSound, ReadCopy, Copied, Browser!Writes
<1>5. OneAwaited'
  <2>1. CASE c.kind = "select"
    <3>1. ~c.awaited /\ calls' = calls \ {c} /\ page' = page /\ write' = write
      BY <2>1 DEF Browser!Fail, PageInvariant, CallsFormed
    <3>. QED BY <3>1 DEF PageInvariant, OneAwaited
  <2>2. CASE c.kind # "select"
    <3>1. ~page'.pending /\ calls' = {} /\ write' = None
      BY <2>2 DEF Browser!Fail, Browser!NoPage
    <3>. QED BY <3>1 DEF OneAwaited
  <2>. QED BY <2>1, <2>2
<1>6. CallsFormed'
  BY NoneIs DEF Browser!Fail, Browser!NoPage, PageInvariant, CallsFormed
<1>7. WriteShown'
  BY NoneIs DEF Browser!Fail, Browser!NoPage, PageInvariant, Browser!PageTypeOK, TypedShown,
     WriteShown, Browser!Page, Browser!Writes
<1>. QED BY <1>1, <1>2, <1>3, <1>4, <1>5, <1>6, <1>7 DEF PageInvariant

LEMMA PageSelectInvoice ==
  ASSUME Browser!PageAssumption, PageInvariant, NEW i \in Invoices, Browser!SelectInvoice(i)
  PROVE  PageInvariant'
<1>1. Browser!PageTypeOK'
  <2>1. /\ Browser!Call("list", i, FALSE) \in Browser!Calls
        /\ Browser!Call("select", i, FALSE) \in Browser!Calls
    BY NoneIs DEF Browser!Call, Browser!Calls
  <2>2. page' \in Browser!Page
    BY DEF Browser!SelectInvoice, PageInvariant, Browser!PageTypeOK, Browser!Page
  <2>3. calls' \subseteq Browser!Calls
    BY <2>1 DEF Browser!SelectInvoice, Browser!Send, Browser!Effect, PageInvariant,
       Browser!PageTypeOK
  <2>. QED BY <2>2, <2>3 DEF Browser!SelectInvoice, PageInvariant, Browser!PageTypeOK
<1>2. RowsOwned'
  BY NoneIs DEF Browser!SelectInvoice, Browser!Send, Browser!Call, Browser!Effect, PageInvariant,
     RowsOwned
<1>3. CopiesSound'
  BY NoneIs DEF Browser!SelectInvoice, Browser!Send, Browser!Call, Browser!Effect, PageInvariant,
     Browser!PageTypeOK, CopiesSound, Copied, Browser!Page
<1>4. TypedShown' /\ DraftsSound' /\ ReadSound'
  BY NoneIs DEF Browser!SelectInvoice, Browser!Send, Browser!Call, Browser!Effect, PageInvariant,
     Browser!PageTypeOK, TypedShown, Browser!Page, DraftsSound, Behind, ReadSound, ReadCopy,
     Copied, Browser!Writes
<1>5. OneAwaited'
  BY NoneIs DEF Browser!SelectInvoice, Browser!Send, Browser!Call, Browser!Effect, PageInvariant,
     Browser!PageTypeOK, OneAwaited, Browser!Page
<1>6. CallsFormed'
  BY NoneIs DEF Browser!SelectInvoice, Browser!Send, Browser!Call, Browser!Effect, PageInvariant,
     CallsFormed
<1>7. WriteShown'
  BY NoneIs DEF Browser!SelectInvoice, Browser!Send, Browser!Call, Browser!Effect, PageInvariant,
     Browser!PageTypeOK, TypedShown, WriteShown, Browser!Page, Browser!Writes
<1>. QED BY <1>1, <1>2, <1>3, <1>4, <1>5, <1>6, <1>7 DEF PageInvariant

LEMMA NextPage ==
  ASSUME Browser!PageAssumption, PageInvariant, [Browser!PageNext]_(Browser!browser)
  PROVE  PageInvariant'
<1>1. ASSUME NEW c \in calls,
             Browser!ListArrives(c) \/ Browser!Serve(c) \/ Browser!Arrive(c) \/ Browser!Fail(c)
      PROVE  PageInvariant'
  BY <1>1, PageListArrives, PageServe, PageArrive, PageFail
<1>2. ASSUME NEW i \in Invoices, Browser!SelectInvoice(i) PROVE PageInvariant'
  BY <1>2, PageSelectInvoice
<1>3. CASE UNCHANGED Browser!browser
  BY <1>3 DEF Browser!browser, PageInvariant, Browser!PageTypeOK, RowsOwned, CopiesSound,
     DraftsSound, TypedShown, ReadSound, OneAwaited, CallsFormed, WriteShown
<1>. QED
  BY <1>1, <1>2, <1>3, PageMount, PagePoll, PageType, PageUploadClick, PageSave, PageSubmit,
     PageServeUpload, PageReadForWrite, PageServeWrite, PageWriteArrives, PageWriteFails,
     PageElsewhere, Zenon DEF Browser!PageNext

LEMMA NextAccepted ==
  ASSUME Browser!PageAssumption, PageInvariant, [Browser!PageNext]_(Browser!browser),
         write # None, write' # None, write.answer = None, write'.answer = "accepted",
         write.kind # "upload"
  PROVE  /\ write.id = write.shown.id /\ server[write.id].version = write.shown.version
         /\ write.typed # None => /\ write.typed.id = write.id
                                  /\ write.typed.version <= server[write.id].version
         /\ write.kind = "submit" => server[write.id] = write.shown
         /\ write.kind = "save" => server'[write.id].status # "AWAITING_APPROVAL"
<1>1. /\ write.id = write.shown.id /\ write.version = write.shown.version
      /\ write.typed # None => write.typed.id = write.shown.id
      /\ Behind(write.typed, server)
  BY DEF PageInvariant, WriteShown, DraftsSound
<1>2. write' # write
  BY DEF Browser!PageAssumption, Browser!Answers
<1>3. Browser!ServeWrite
  <2>1. ASSUME NEW kind, NEW id, NEW version, NEW typed, NEW closure, NEW shown,
               Browser!Click(kind, id, version, typed, closure, shown)
        PROVE  FALSE
    BY <2>1 DEF Browser!Click, PageInvariant, OneAwaited
  <2>2. ~(Browser!UploadClick \/ Browser!Save \/ Browser!SubmitForApproval)
    BY <2>1, Zenon DEF Browser!UploadClick, Browser!Save, Browser!SubmitForApproval
  <2>3. ~(Browser!Mount \/ Browser!Poll \/ Browser!Type \/ Browser!Elsewhere
            \/ \E i \in Invoices : Browser!SelectInvoice(i))
    BY <1>2, Zenon DEF Browser!Mount, Browser!Poll, Browser!Type, Browser!Elsewhere,
       Browser!SelectInvoice
  <2>4. ~(Browser!WriteArrives \/ Browser!WriteFails)
    BY Zenon DEF Browser!WriteArrives, Browser!WriteFails
  <2>5. ~ \E c \in calls : Browser!ListArrives(c) \/ Browser!Serve(c) \/ Browser!Arrive(c)
    BY <1>2, Zenon DEF Browser!ListArrives, Browser!Serve, Browser!Arrive
  <2>6. ~ \E c \in calls : Browser!Fail(c)
    BY <1>2 DEF Browser!Fail
  <2>7. ~Browser!ServeUpload
    BY DEF Browser!ServeUpload, Browser!Awaits
  <2>8. ~Browser!ReadForWrite
    <3>1. write \in Browser!Writes
      BY DEF PageInvariant, Browser!PageTypeOK
    <3>2. ~Browser!Answered("refused")
      BY <3>1 DEF Browser!Answered, Browser!Writes
    <3>3. write' # [write EXCEPT !.read = server[write.id].status]
      BY <3>1 DEF Browser!Writes, Browser!PageAssumption, Browser!Answers
    <3>. QED BY <3>2, <3>3, Zenon DEF Browser!ReadForWrite
  <2>. QED BY <1>2, <2>2, <2>3, <2>4, <2>5, <2>6, <2>7, <2>8, Zenon
           DEF Browser!PageNext, Browser!browser
<1>4. Browser!Matched(server[write.id])
  <2>1. ASSUME ~Browser!Matched(server[write.id]) PROVE FALSE
    <3>1. Browser!Answered("refused")
      BY <1>3, <2>1, Zenon DEF Browser!ServeWrite
    <3>2. write \in Browser!Writes
      BY DEF PageInvariant, Browser!PageTypeOK
    <3>. QED BY <3>1, <3>2 DEF Browser!Answered, Browser!Writes
  <2>. QED BY <2>1
<1>5. /\ server[write.id].version = write.version
      /\ write.kind = "submit" => server[write.id] = write.shown
      /\ write.kind = "save" => server'[write.id].status # "AWAITING_APPROVAL"
  BY <1>3, <1>4, ServedRow
<1>6. write.typed # None => write.typed.version <= server[write.id].version
  BY <1>1 DEF Behind
<1>. QED BY <1>1, <1>5, <1>6

(***************************************************************************)
(* The page of the buildings and vendors                                   *)
(***************************************************************************)
LEMMA CrmNoneIs ==
  ASSUME Crm!CrmPageAssumption
  PROVE  /\ None \notin Crm!All /\ None \notin Crm!Detail /\ None \notin Crm!Requests
         /\ None \notin SUBSET Entries
BY DEF Crm!CrmPageAssumption

(***************************************************************************)
(* The calls for a detail                                                  *)
(***************************************************************************)
Formed(fs, ids) ==
  /\ fs \in Seq(Crm!Fetch)
  /\ \A i \in DOMAIN fs : /\ fs[i].id \in ids
                          /\ fs[i].answer # None => fs[i].answer.id = fs[i].id

LEMMA OvertakenIs ==
  ASSUME NEW fs \in Seq(Crm!Fetch)
  PROVE  /\ Crm!Overtaken(fs) \in Seq(Crm!Fetch) /\ Len(Crm!Overtaken(fs)) = Len(fs)
         /\ \A i \in 1..Len(fs) : /\ Crm!Overtaken(fs)[i].id = fs[i].id /\ Crm!Overtaken(fs)[i].late
                                  /\ Crm!Overtaken(fs)[i].answer = fs[i].answer
<1>1. DOMAIN fs = 1..Len(fs) /\ Len(fs) \in Nat
  OBVIOUS
<1>2. ASSUME NEW i \in 1..Len(fs)
      PROVE  /\ [fs[i] EXCEPT !.late = TRUE] \in Crm!Fetch
             /\ [fs[i] EXCEPT !.late = TRUE].id = fs[i].id
             /\ [fs[i] EXCEPT !.late = TRUE].late
             /\ [fs[i] EXCEPT !.late = TRUE].answer = fs[i].answer
  <2>1. fs[i] \in Crm!Fetch
    OBVIOUS
  <2>. QED BY <2>1 DEF Crm!Fetch
<1>3. Crm!Overtaken(fs) = [i \in 1..Len(fs) |-> [fs[i] EXCEPT !.late = TRUE]]
  BY <1>1 DEF Crm!Overtaken
<1>4. Crm!Overtaken(fs) \in [1..Len(fs) -> Crm!Fetch]
  BY <1>2, <1>3
<1>5. Crm!Overtaken(fs) \in Seq(Crm!Fetch) /\ Len(Crm!Overtaken(fs)) = Len(fs)
  <2>1. Crm!Overtaken(fs) \in Seq(Crm!Fetch)
    BY <1>1, <1>4, SeqDef
  <2>. QED BY <1>1, <1>4, <2>1, LenProperties
<1>6. ASSUME NEW i \in 1..Len(fs)
      PROVE  /\ Crm!Overtaken(fs)[i].id = fs[i].id /\ Crm!Overtaken(fs)[i].late
             /\ Crm!Overtaken(fs)[i].answer = fs[i].answer
  <2>1. Crm!Overtaken(fs)[i] = [fs[i] EXCEPT !.late = TRUE]
    BY <1>3
  <2>. QED BY <1>2, <2>1
<1>. QED BY <1>5, <1>6

LEMMA WithoutIs ==
  ASSUME NEW fs \in Seq(Crm!Fetch), NEW i \in 1..Len(fs)
  PROVE  /\ Crm!Without(fs, i) \in Seq(Crm!Fetch) /\ Len(Crm!Without(fs, i)) = Len(fs) - 1
         /\ \A j \in 1..(Len(fs) - 1) :
              IF j < i
              THEN /\ Crm!Without(fs, i)[j].id = fs[j].id /\ Crm!Without(fs, i)[j].late
                   /\ Crm!Without(fs, i)[j].answer = fs[j].answer
              ELSE Crm!Without(fs, i)[j] = fs[j + 1]
<1> DEFINE before == SubSeq(fs, 1, i - 1)
           after  == SubSeq(fs, i + 1, Len(fs))
<1>1. /\ before \in Seq(Crm!Fetch) /\ Len(before) = i - 1
      /\ \A j \in 1..(i - 1) : before[j] = fs[j]
  OBVIOUS
<1>2. /\ after \in Seq(Crm!Fetch) /\ Len(after) = Len(fs) - i
      /\ \A j \in 1..(Len(fs) - i) : after[j] = fs[i + j]
  OBVIOUS
<1>3. /\ Crm!Overtaken(before) \in Seq(Crm!Fetch) /\ Len(Crm!Overtaken(before)) = i - 1
      /\ \A j \in 1..(i - 1) : /\ Crm!Overtaken(before)[j].id = fs[j].id
                               /\ Crm!Overtaken(before)[j].late
                               /\ Crm!Overtaken(before)[j].answer = fs[j].answer
  <2>1. before \in Seq(Crm!Fetch)
    BY <1>1
  <2>. HIDE DEF before
  <2>2. /\ Crm!Overtaken(before) \in Seq(Crm!Fetch) /\ Len(Crm!Overtaken(before)) = Len(before)
        /\ \A j \in 1..Len(before) : /\ Crm!Overtaken(before)[j].id = before[j].id
                                     /\ Crm!Overtaken(before)[j].late
                                     /\ Crm!Overtaken(before)[j].answer = before[j].answer
    BY <2>1, OvertakenIs
  <2>. QED BY <1>1, <2>2
<1>. HIDE DEF before, after
<1>4. Crm!Without(fs, i) = Crm!Overtaken(before) \o after
  BY DEF Crm!Without, before, after
<1>5. PICK b \in Seq(Crm!Fetch) : b = Crm!Overtaken(before)
  BY <1>3
<1>6. /\ b \o after \in Seq(Crm!Fetch) /\ Len(b \o after) = Len(b) + Len(after)
      /\ \A j \in 1..(Len(b) + Len(after)) :
           (b \o after)[j] = IF j <= Len(b) THEN b[j] ELSE after[j - Len(b)]
  BY <1>2, ConcatProperties
<1>7. Len(b) = i - 1 /\ Len(after) = Len(fs) - i /\ i \in Nat /\ Len(fs) \in Nat
  BY <1>2, <1>3, <1>5
<1>8. ASSUME NEW j \in 1..(Len(fs) - 1), j < i
      PROVE  (b \o after)[j] = b[j] /\ j \in 1..(i - 1)
  BY <1>6, <1>7, <1>8
<1>9. ASSUME NEW j \in 1..(Len(fs) - 1), ~(j < i) PROVE (b \o after)[j] = fs[j + 1]
  <2>1. (b \o after)[j] = after[j - (i - 1)] /\ j - (i - 1) \in 1..(Len(fs) - i)
    BY <1>6, <1>7, <1>9
  <2>2. after[j - (i - 1)] = fs[i + (j - (i - 1))]
    BY <1>2, <2>1
  <2>3. i + (j - (i - 1)) = j + 1
    BY <1>7
  <2>. QED BY <2>1, <2>2, <2>3
<1>. QED BY <1>3, <1>4, <1>5, <1>6, <1>7, <1>8, <1>9

LEMMA OvertakenFormed ==
  ASSUME NEW fs, NEW ids, Formed(fs, ids)
  PROVE  Formed(Crm!Overtaken(fs), ids)
BY OvertakenIs DEF Formed

LEMMA WithoutFormed ==
  ASSUME NEW fs, NEW ids, Formed(fs, ids), NEW i \in DOMAIN fs
  PROVE  Formed(Crm!Without(fs, i), ids)
<1>1. /\ Crm!Without(fs, i) \in Seq(Crm!Fetch) /\ Len(Crm!Without(fs, i)) = Len(fs) - 1
      /\ \A j \in 1..(Len(fs) - 1) :
              IF j < i
              THEN /\ Crm!Without(fs, i)[j].id = fs[j].id
                   /\ Crm!Without(fs, i)[j].answer = fs[j].answer
              ELSE Crm!Without(fs, i)[j] = fs[j + 1]
  <2>1. fs \in Seq(Crm!Fetch) /\ i \in 1..Len(fs)
    BY DEF Formed
  <2>. QED BY <2>1, WithoutIs
<1>2. DOMAIN fs = 1..Len(fs) /\ Len(fs) \in Nat
  BY DEF Formed
<1>3. PICK gs : gs = Crm!Without(fs, i)
  OBVIOUS
<1>4. ASSUME NEW j \in DOMAIN gs
      PROVE  gs[j].id \in ids /\ (gs[j].answer # None => gs[j].answer.id = gs[j].id)
  <2>1. j \in 1..(Len(fs) - 1) /\ j \in DOMAIN fs /\ j + 1 \in DOMAIN fs
    BY <1>1, <1>2, <1>3
  <2>. QED BY <1>1, <1>3, <2>1 DEF Formed
<1>. QED BY <1>1, <1>3, <1>4 DEF Formed

LEMMA AppendFormed ==
  ASSUME NEW fs, NEW ids \in SUBSET Crm!All, Formed(fs, ids), NEW id \in ids
  PROVE  Formed(Append(fs, [id |-> id, late |-> FALSE, answer |-> None]), ids)
<1>1. PICK f : f = [id |-> id, late |-> FALSE, answer |-> None]
  OBVIOUS
<1>2. f \in Crm!Fetch /\ f.id = id /\ f.answer = None
  BY <1>1 DEF Crm!Fetch
<1>3. Append(fs, f) \in Seq(Crm!Fetch) /\ \A i \in DOMAIN Append(fs, f) :
         Append(fs, f)[i] = f \/ (i \in DOMAIN fs /\ Append(fs, f)[i] = fs[i])
  BY <1>2 DEF Formed
<1>. QED BY <1>1, <1>2, <1>3 DEF Formed

LEMMA ServedIs ==
  ASSUME NEW fs \in Seq(Crm!Fetch), NEW i \in DOMAIN fs, Crm!Shown(fs[i].id) \in Crm!Detail
  PROVE  /\ Crm!Served(fs, i) \in Seq(Crm!Fetch) /\ Len(Crm!Served(fs, i)) = Len(fs)
         /\ \A j \in 1..Len(fs) :
              /\ Crm!Served(fs, i)[j].id = fs[j].id /\ Crm!Served(fs, i)[j].late = fs[j].late
              /\ Crm!Served(fs, i)[j].answer = IF j = i THEN Crm!Shown(fs[i].id) ELSE fs[j].answer
<1>1. PICK f : f = [fs[i] EXCEPT !.answer = Crm!Shown(fs[i].id)]
  OBVIOUS
<1>2. /\ f \in Crm!Fetch /\ f.id = fs[i].id /\ f.late = fs[i].late
      /\ f.answer = Crm!Shown(fs[i].id)
  <2>1. fs[i] \in Crm!Fetch
    OBVIOUS
  <2>. QED BY <1>1, <2>1 DEF Crm!Fetch
<1>3. Crm!Served(fs, i) = [fs EXCEPT ![i] = f]
  BY <1>1 DEF Crm!Served
<1>. QED BY <1>2, <1>3

(***************************************************************************)
(* A detail that is up to date                                             *)
(***************************************************************************)
(* The detail of the selection and, when no load is awaited, all that the  *)
(* user created there.                                                     *)
Fresh(d, selected, ms, settled) ==
  /\ d.id = selected
  /\ settled => \A m \in ms : m.id = d.id => m.entry \in d.entries

(* The last call that nothing has overtaken.                               *)
LastCall(fs, i) == ~fs[i].late /\ \A j \in DOMAIN fs : j > i => fs[j].late

KeptFresh(selected, d, late, fs, ms, settled) ==
  /\ d # None /\ ~late /\ (\A i \in DOMAIN fs : fs[i].late) => Fresh(d, selected, ms, settled)
  /\ \A i \in DOMAIN fs : LastCall(fs, i) =>
       /\ fs[i].id = selected
       /\ fs[i].answer # None => Fresh(fs[i].answer, selected, ms, settled)

(* Another call is under way, which is the last.                           *)
LEMMA SentFresh ==
  ASSUME NEW fs \in Seq(Crm!Fetch), NEW id, NEW d, NEW late, NEW ms, NEW settled
  PROVE  KeptFresh(id, d, late, Append(fs, [id |-> id, late |-> FALSE, answer |-> None]), ms, settled)
<1>1. PICK f : f = [id |-> id, late |-> FALSE, answer |-> None]
  OBVIOUS
<1>2. f.id = id /\ ~f.late /\ f.answer = None
  BY <1>1
<1>3. PICK n : n = Len(fs) + 1
  OBVIOUS
<1>4. DOMAIN Append(fs, f) = 1..n /\ Append(fs, f)[n] = f /\ n \in Nat \ {0}
  BY <1>3
<1>5. \A i \in DOMAIN Append(fs, f) : LastCall(Append(fs, f), i) => i = n
  BY <1>2, <1>4 DEF LastCall
<1>6. PICK gs : gs = Append(fs, f)
  OBVIOUS
<1>7. ~ \A i \in DOMAIN gs : gs[i].late
  BY <1>2, <1>4, <1>6
<1>8. KeptFresh(id, d, late, gs, ms, settled)
  BY <1>2, <1>4, <1>5, <1>6, <1>7 DEF KeptFresh
<1>. QED BY <1>1, <1>6, <1>8

LEMMA NoneFresh ==
  ASSUME NEW fs \in Seq(Crm!Fetch), NEW selected, NEW late, NEW ms, NEW settled
  PROVE  KeptFresh(selected, None, late, Crm!Overtaken(fs), ms, settled)
BY OvertakenIs DEF KeptFresh, LastCall

LEMMA AwaitedFresh ==
  ASSUME NEW selected, NEW d, NEW late, NEW fs, NEW ms, NEW settled,
         KeptFresh(selected, d, late, fs, ms, settled), NEW ns, NEW now,
         now => settled /\ ns = ms
  PROVE  KeptFresh(selected, d, late, fs, ns, now)
BY DEF KeptFresh, Fresh

LEMMA ServedFresh ==
  ASSUME NEW selected, NEW d, NEW late, NEW fs \in Seq(Crm!Fetch), NEW ms, NEW settled,
         KeptFresh(selected, d, late, fs, ms, settled),
         NEW i \in DOMAIN fs, Crm!Shown(fs[i].id) \in Crm!Detail,
         \A m \in ms : m.id = fs[i].id => m.entry \in Crm!Shown(fs[i].id).entries
  PROVE  KeptFresh(selected, d, late, Crm!Served(fs, i), ms, settled)
<1>1. PICK gs : gs = Crm!Served(fs, i)
  OBVIOUS
<1>2. /\ gs \in Seq(Crm!Fetch) /\ DOMAIN gs = DOMAIN fs
      /\ \A j \in DOMAIN fs :
              /\ gs[j].id = fs[j].id /\ gs[j].late = fs[j].late
              /\ gs[j].answer = IF j = i THEN Crm!Shown(fs[i].id) ELSE fs[j].answer
  BY <1>1, ServedIs
<1>3. \A j \in DOMAIN fs : LastCall(gs, j) => LastCall(fs, j)
  BY <1>2 DEF LastCall
<1>4. Crm!Shown(fs[i].id).id = fs[i].id
  BY DEF Crm!Shown
<1>5. d # None /\ ~late /\ (\A j \in DOMAIN gs : gs[j].late) => Fresh(d, selected, ms, settled)
  BY <1>2 DEF KeptFresh
<1>6. ASSUME NEW j \in DOMAIN gs, LastCall(gs, j)
      PROVE  /\ gs[j].id = selected
             /\ gs[j].answer # None => Fresh(gs[j].answer, selected, ms, settled)
  <2>1. fs[j].id = selected /\ (fs[j].answer # None => Fresh(fs[j].answer, selected, ms, settled))
    BY <1>2, <1>3, <1>6 DEF KeptFresh
  <2>2. CASE j = i
    BY <1>2, <1>4, <2>1, <2>2 DEF Fresh
  <2>3. CASE j # i
    BY <1>2, <2>1, <2>3
  <2>. QED BY <2>2, <2>3
<1>. QED BY <1>1, <1>5, <1>6 DEF KeptFresh

LEMMA ArrivedFresh ==
  ASSUME NEW selected, NEW d, NEW late, NEW fs \in Seq(Crm!Fetch), NEW ms, NEW settled,
         KeptFresh(selected, d, late, fs, ms, settled), NEW i \in DOMAIN fs
  PROVE  /\ fs[i].answer # None =>
              KeptFresh(selected, fs[i].answer, fs[i].late, Crm!Without(fs, i), ms, settled)
         /\ KeptFresh(selected, None, FALSE, Crm!Without(fs, i), ms, settled)
<1>1. PICK gs : gs = Crm!Without(fs, i)
  OBVIOUS
<1>2. DOMAIN fs = 1..Len(fs) /\ Len(fs) \in Nat
  OBVIOUS
<1>3. /\ gs \in Seq(Crm!Fetch) /\ DOMAIN gs = 1..(Len(fs) - 1)
      /\ \A j \in 1..(Len(fs) - 1) : IF j < i THEN gs[j].late ELSE gs[j] = fs[j + 1]
  BY <1>1, <1>2, WithoutIs
<1>4. ASSUME NEW j \in DOMAIN gs, LastCall(gs, j)
      PROVE  /\ gs[j].id = selected
             /\ gs[j].answer # None => Fresh(gs[j].answer, selected, ms, settled)
  <2>1. ~(j < i) /\ gs[j] = fs[j + 1] /\ j + 1 \in DOMAIN fs
    BY <1>2, <1>3, <1>4 DEF LastCall
  <2>2. ~fs[j + 1].late
    BY <1>4, <2>1 DEF LastCall
  <2>3. ASSUME NEW n \in DOMAIN fs, n > j + 1 PROVE fs[n].late
    <3>1. n - 1 \in DOMAIN gs /\ n - 1 > j /\ ~(n - 1 < i) /\ gs[n - 1] = fs[(n - 1) + 1]
      BY <1>2, <1>3, <2>1, <2>3
    <3>2. gs[n - 1].late
      BY <1>4, <3>1 DEF LastCall
    <3>. QED BY <1>2, <3>1, <3>2
  <2>4. LastCall(fs, j + 1)
    BY <2>2, <2>3 DEF LastCall
  <2>. QED BY <2>1, <2>4 DEF KeptFresh
<1>5. ASSUME fs[i].answer # None, ~fs[i].late, \A j \in DOMAIN gs : gs[j].late
      PROVE  Fresh(fs[i].answer, selected, ms, settled)
  <2>1. ASSUME NEW n \in DOMAIN fs, n > i PROVE fs[n].late
    <3>1. n - 1 \in DOMAIN gs /\ ~(n - 1 < i) /\ gs[n - 1] = fs[(n - 1) + 1]
      BY <1>2, <1>3, <2>1
    <3>. QED BY <1>2, <1>5, <3>1
  <2>2. LastCall(fs, i)
    BY <1>5, <2>1 DEF LastCall
  <2>. QED BY <1>5, <2>2 DEF KeptFresh
<1>. QED BY <1>1, <1>4, <1>5 DEF KeptFresh

(***************************************************************************)
(* The invariant of the page of the buildings and vendors                  *)
(***************************************************************************)
FetchesFormed == \A k \in Crm!Kinds : Formed(fetches[k], Crm!Existing(k))

(* What the page refers to exists.                                         *)
SelectionExists ==
  \A k \in Crm!Kinds : /\ crmPage.selected[k] \in Crm!Existing(k) \cup {None}
                       /\ crmPage.detail[k] # None => crmPage.detail[k].id \in Crm!Existing(k)

RequestFormed ==
  request # None =>
    /\ request.for # None => record[request.for] # None
    /\ request.form \in Crm!Kinds \cup {"contract"} => request.for = None
    /\ request.answer \notin {None, "refused"} =>
         /\ request.form \in Crm!Kinds => request.answer \in Crm!Existing(request.form)
         /\ request.for # None => request.answer \in record[request.for]

(* Whatever the user created is in the record.                             *)
MineRecorded == \A m \in mine : record[m.id] # None /\ m.entry \in record[m.id]

(* The forms wait for one thing: the request, or one load after it.        *)
FormAwaits == /\ crmPage.pending <=> request # None \/ \E l \in loads : l.awaited
              /\ request # None => \A l \in loads : ~l.awaited
              /\ \A l, m \in loads : l.awaited /\ m.awaited => l = m

NothingAwaited == \A l \in loads : ~l.awaited

DetailFresh ==
  \A k \in Crm!Kinds :
    KeptFresh(crmPage.selected[k], crmPage.detail[k], crmPage.late[k], fetches[k], mine,
    NothingAwaited)

CrmInvariant == /\ Crm!CrmPageTypeOK /\ FetchesFormed /\ SelectionExists /\ RequestFormed
                /\ MineRecorded /\ FormAwaits /\ DetailFresh

LEMMA InitCrm == Crm!CrmPageAssumption /\ Crm!CrmPageInit => CrmInvariant
<1> SUFFICES ASSUME Crm!CrmPageAssumption, Crm!CrmPageInit PROVE CrmInvariant
  OBVIOUS
<1>1. /\ Crm!NoPage \in Crm!Page /\ Crm!NoFetch \in [Crm!Kinds -> Seq(Crm!Fetch)]
      /\ \A k \in Crm!Kinds : /\ Crm!NoPage.selected[k] = None /\ Crm!NoPage.detail[k] = None
                              /\ Crm!NoFetch[k] = <<>>
  BY DEF Crm!NoPage, Crm!Page, Crm!NoFetch
<1>2. Crm!CrmPageTypeOK
  BY <1>1 DEF Crm!CrmPageInit, Crm!CrmPageTypeOK
<1>3. FormAwaits
  BY DEF Crm!CrmPageInit, FormAwaits, Crm!NoPage
<1>4. FetchesFormed /\ SelectionExists /\ RequestFormed /\ MineRecorded /\ DetailFresh
  BY <1>1 DEF Crm!CrmPageInit, FetchesFormed, Formed, SelectionExists, RequestFormed,
     MineRecorded, DetailFresh, KeptFresh
<1>. QED BY <1>2, <1>3, <1>4 DEF CrmInvariant

(***************************************************************************)
(* The records                                                             *)
(***************************************************************************)
Grows == /\ record' \in [Crm!All -> {None} \cup SUBSET Entries]
         /\ \A x \in Crm!All : record[x] # None => record'[x] # None /\ record[x] \subseteq record'[x]

LEMMA CreatedGrows ==
  ASSUME Crm!CrmPageAssumption, Crm!CrmPageTypeOK, NEW x \in Crm!All, record[x] = None,
         record' = [record EXCEPT ![x] = {}]
  PROVE  Grows /\ record'[x] # None
BY CrmNoneIs DEF Grows, Crm!CrmPageTypeOK

LEMMA EntryGrows ==
  ASSUME Crm!CrmPageAssumption, Crm!CrmPageTypeOK, NEW x \in Crm!All, NEW e \in Entries,
  record[x] # None,
         record' = [record EXCEPT ![x] = @ \cup {e}]
  PROVE  Grows /\ e \in record'[x]
<1>1. record[x] \in SUBSET Entries
  BY DEF Crm!CrmPageTypeOK
<1>2. PICK es : es = record[x] \cup {e}
  OBVIOUS
<1>3. es \in SUBSET Entries /\ record[x] \subseteq es /\ e \in es /\ es # None
  BY <1>1, <1>2, CrmNoneIs
<1>4. record' = [record EXCEPT ![x] = es]
  BY <1>2
<1>. QED BY <1>3, <1>4 DEF Grows, Crm!CrmPageTypeOK

LEMMA ExistingGrows ==
  ASSUME Grows
  PROVE  \A k \in Crm!Kinds : Crm!Existing(k) \subseteq Crm!Existing(k)'
BY DEF Grows, Crm!Existing, Crm!Records, Crm!All

LEMMA FormedGrows ==
  ASSUME FetchesFormed, \A k \in Crm!Kinds : Crm!Existing(k) \subseteq Crm!Existing(k)',
  fetches' = fetches
  PROVE  FetchesFormed'
<1>1. ASSUME NEW k \in Crm!Kinds, NEW ids, ids = Crm!Existing(k)' PROVE Formed(fetches[k], ids)
  <2>1. Formed(fetches[k], Crm!Existing(k)) /\ Crm!Existing(k) \subseteq ids
    BY <1>1 DEF FetchesFormed
  <2>. QED BY <2>1 DEF Formed
<1>2. \A k \in Crm!Kinds : Formed(fetches[k], Crm!Existing(k)')
  BY <1>1
<1>. QED BY <1>2, Zenon DEF FetchesFormed, Formed

(* A step of the server: the page keeps what it has.                       *)
LEMMA GrowsKeeps ==
  ASSUME Crm!CrmPageAssumption, CrmInvariant, Grows, UNCHANGED <<crmPage, loads, fetches, mine>>
  PROVE  /\ FetchesFormed' /\ SelectionExists' /\ MineRecorded' /\ DetailFresh'
         /\ record' \in [Crm!All -> {None} \cup SUBSET Entries]
<1>1. \A k \in Crm!Kinds : Crm!Existing(k) \subseteq Crm!Existing(k)'
  BY ExistingGrows
<1>2. FetchesFormed'
  BY <1>1, FormedGrows DEF CrmInvariant
<1>3. SelectionExists'
  BY <1>1 DEF CrmInvariant, SelectionExists
<1>4. MineRecorded'
  <2>1. \A m \in mine : m.id \in Crm!All
    BY DEF CrmInvariant, Crm!CrmPageTypeOK
  <2>. QED BY <2>1 DEF CrmInvariant, MineRecorded, Grows
<1>5. DetailFresh'
  BY DEF CrmInvariant, DetailFresh, NothingAwaited
<1>. QED BY <1>2, <1>3, <1>4, <1>5 DEF Grows

LEMMA CrmElsewhere ==
  ASSUME Crm!CrmPageAssumption, CrmInvariant, Crm!Elsewhere
  PROVE  CrmInvariant'
<1>1. UNCHANGED <<crmPage, loads, fetches, request, mine>>
  BY DEF Crm!Elsewhere
<1>2. Grows
  <2>1. ASSUME NEW x \in Crm!All, record[x] = None, record' = [record EXCEPT ![x] = {}]
        PROVE  Grows
    BY <2>1, CreatedGrows DEF CrmInvariant
  <2>2. ASSUME NEW x \in Crm!All, NEW e \in Crm!FreshEntries, record[x] # None,
               record' = [record EXCEPT ![x] = @ \cup {e}]
        PROVE  Grows
    <3>1. e \in Entries
      BY DEF Crm!FreshEntries
    <3>. QED BY <2>2, <3>1, EntryGrows DEF CrmInvariant
  <2>. QED BY <2>1, <2>2 DEF Crm!Elsewhere
<1>3. RequestFormed'
  <2>1. \A k \in Crm!Kinds : Crm!Existing(k) \subseteq Crm!Existing(k)'
    BY <1>2, ExistingGrows
  <2>2. request # None => request.for \in Crm!All \cup {None}
    BY DEF CrmInvariant, Crm!CrmPageTypeOK, Crm!Requests
  <2>. QED BY <1>1, <1>2, <2>1, <2>2 DEF CrmInvariant, RequestFormed, Grows
<1>4. Crm!CrmPageTypeOK' /\ FormAwaits'
  BY <1>1, <1>2, GrowsKeeps DEF CrmInvariant, Crm!CrmPageTypeOK, FormAwaits
<1>. QED BY <1>1, <1>2, <1>3, <1>4, GrowsKeeps DEF CrmInvariant

LEMMA CrmServeRequest ==
  ASSUME Crm!CrmPageAssumption, CrmInvariant, Crm!ServeRequest
  PROVE  CrmInvariant'
<1>1. UNCHANGED <<crmPage, loads, fetches, mine>> /\ request # None /\ request.answer = None
  BY DEF Crm!ServeRequest
<1>2. /\ request \in Crm!Requests /\ request.for \in Crm!All \cup {None}
      /\ (request.for # None => record[request.for] # None)
      /\ (request.form \in Crm!Kinds \cup {"contract"} => request.for = None)
  BY <1>1 DEF CrmInvariant, Crm!CrmPageTypeOK, Crm!Requests, RequestFormed
<1>3. ASSUME NEW a \in Crm!All \cup Entries \cup {"refused", "created"}, Crm!Answered(a)
      PROVE  /\ request' \in Crm!Requests /\ request'.for = request.for
             /\ request'.form = request.form /\ request'.answer = a
  BY <1>2, <1>3 DEF Crm!Answered, Crm!Requests
<1>4. ASSUME NEW x \in Crm!Records(request.form), request.form \in Crm!Kinds, record[x] = None,
             record' = [record EXCEPT ![x] = {}], Crm!Answered(x)
      PROVE  Grows /\ request' \in Crm!Requests /\ RequestFormed'
  <2>1. x \in Crm!All
    BY <1>4 DEF Crm!Records, Crm!All
  <2>2. Grows /\ record'[x] # None
    BY <1>4, <2>1, CreatedGrows DEF CrmInvariant
  <2>3. /\ request' \in Crm!Requests /\ request'.for = None
        /\ request'.form = request.form /\ request'.answer = x
    BY <1>2, <1>3, <1>4, <2>1
  <2>4. PICK k : k = request.form
    OBVIOUS
  <2>5. x \in Crm!Existing(k)' /\ request'.form = k
    BY <1>4, <2>2, <2>3, <2>4 DEF Crm!Existing, Crm!Records
  <2>6. x \in Crm!Existing(request.form)'
    BY <2>5
  <2>. QED BY <2>2, <2>3, <2>6 DEF RequestFormed
<1>5. ASSUME NEW e \in Crm!FreshEntries, request.for # None,
             record' = [record EXCEPT ![request.for] = @ \cup {e}], Crm!Answered(e)
      PROVE  Grows /\ request' \in Crm!Requests /\ RequestFormed'
  <2>1. e \in Entries /\ request.for \in Crm!All
    BY <1>2, <1>5 DEF Crm!FreshEntries
  <2>2. Grows /\ e \in record'[request.for]
    BY <1>2, <1>5, <2>1, EntryGrows DEF CrmInvariant
  <2>3. /\ request' \in Crm!Requests /\ request'.for = request.for
        /\ request'.form = request.form /\ request'.answer = e
    BY <1>3, <1>5, <2>1
  <2>4. record'[request.for] # None
    BY <1>2, <1>5, <2>1, <2>2 DEF Grows
  <2>. QED BY <1>2, <1>5, <2>2, <2>3, <2>4 DEF RequestFormed
<1>6. ASSUME NEW a \in {"created", "refused"}, Crm!Answered(a), UNCHANGED record,
             a = "created" => request.form = "contract"
      PROVE  Grows /\ request' \in Crm!Requests /\ RequestFormed'
  <2>1. Grows
    BY <1>6 DEF Grows, CrmInvariant, Crm!CrmPageTypeOK
  <2>2. /\ request' \in Crm!Requests /\ request'.for = request.for
        /\ request'.form = request.form /\ request'.answer = a
    BY <1>3, <1>6
  <2>. QED BY <1>2, <1>6, <2>1, <2>2 DEF RequestFormed, Crm!Kinds
<1>7. Grows /\ request' \in Crm!Requests /\ RequestFormed'
  BY <1>1, <1>4, <1>5, <1>6 DEF Crm!ServeRequest
<1>8. Crm!CrmPageTypeOK'
  BY <1>1, <1>7 DEF CrmInvariant, Crm!CrmPageTypeOK, Grows
<1>9. FormAwaits'
  BY <1>1, <1>7, CrmNoneIs, Zenon DEF CrmInvariant, FormAwaits
<1>. QED BY <1>1, <1>7, <1>8, <1>9, GrowsKeeps DEF CrmInvariant

(***************************************************************************)
(* The page                                                                *)
(***************************************************************************)
(* Loads that nobody awaits change nothing of what the page shows.         *)
LEMMA CrmSend ==
  ASSUME Crm!CrmPageAssumption, CrmInvariant, NEW q \in BOOLEAN,
         loads' = loads \cup {Crm!Load(q, FALSE)},
         UNCHANGED <<record, crmPage, fetches, request, mine>>
  PROVE  CrmInvariant'
<1>1. PICK l : l = Crm!Load(q, FALSE)
  OBVIOUS
<1>2. l \in Crm!Loads /\ ~l.awaited /\ loads' = loads \cup {l}
  BY <1>1 DEF Crm!Load, Crm!Loads
<1>3. NothingAwaited' <=> NothingAwaited
  BY <1>2, Zenon DEF NothingAwaited
<1>4. FormAwaits'
  BY <1>2 DEF CrmInvariant, FormAwaits
<1>5. PICK now \in BOOLEAN : now = NothingAwaited'
  BY DEF NothingAwaited
<1>6. ASSUME NEW k \in Crm!Kinds
      PROVE  KeptFresh(crmPage.selected[k], crmPage.detail[k], crmPage.late[k], fetches[k],
                       mine, now)
  BY <1>3, <1>5, AwaitedFresh DEF CrmInvariant, DetailFresh
<1>7. DetailFresh'
  BY <1>5, <1>6 DEF DetailFresh
<1>. QED BY <1>2, <1>4, <1>7 DEF CrmInvariant, Crm!CrmPageTypeOK, FetchesFormed, Crm!Existing,
            SelectionExists, RequestFormed, MineRecorded

LEMMA CrmMount == ASSUME Crm!CrmPageAssumption, CrmInvariant, Crm!Mount PROVE CrmInvariant'
<1>1. loads' = loads \cup {Crm!Load(FALSE, FALSE)}
  BY DEF Crm!Mount, Crm!Calls
<1>. QED BY <1>1, CrmSend DEF Crm!Mount

LEMMA CrmSearch ==
  ASSUME Crm!CrmPageAssumption, CrmInvariant, NEW q \in BOOLEAN, Crm!Search(q) PROVE CrmInvariant'
BY CrmSend DEF Crm!Search, Crm!Calls

LEMMA CrmLoadFails ==
  ASSUME Crm!CrmPageAssumption, CrmInvariant, NEW l \in loads, Crm!LoadFails(l) PROVE CrmInvariant'
<1>1. /\ Crm!NoPage \in Crm!Page /\ Crm!NoFetch \in [Crm!Kinds -> Seq(Crm!Fetch)]
      /\ ~Crm!NoPage.pending
      /\ \A k \in Crm!Kinds : /\ Crm!NoPage.selected[k] = None /\ Crm!NoPage.detail[k] = None
                              /\ Crm!NoFetch[k] = <<>>
  BY DEF Crm!NoPage, Crm!Page, Crm!NoFetch
<1>2. /\ crmPage' = Crm!NoPage /\ loads' = {} /\ fetches' = Crm!NoFetch /\ request' = None
      /\ record' = record /\ mine' = mine
  BY DEF Crm!LoadFails
<1>3. Crm!CrmPageTypeOK'
  BY <1>1, <1>2 DEF CrmInvariant, Crm!CrmPageTypeOK
<1>4. FormAwaits' /\ RequestFormed' /\ MineRecorded'
  BY <1>1, <1>2 DEF FormAwaits, RequestFormed, CrmInvariant, MineRecorded
<1>5. FetchesFormed' /\ SelectionExists' /\ DetailFresh'
  BY <1>1, <1>2 DEF FetchesFormed, Formed, SelectionExists, DetailFresh, KeptFresh
<1>. QED BY <1>3, <1>4, <1>5 DEF CrmInvariant

(* An answer of the server, for a record that exists.                      *)
LEMMA ShownIs ==
  ASSUME Crm!CrmPageAssumption, CrmInvariant, NEW k \in Crm!Kinds, NEW i \in DOMAIN fetches[k]
  PROVE  /\ fetches[k] \in Seq(Crm!Fetch) /\ Crm!Shown(fetches[k][i].id) \in Crm!Detail
         /\ \A m \in mine : m.id = fetches[k][i].id => m.entry \in Crm!Shown(fetches[k][i].id).entries
<1>1. fetches[k] \in Seq(Crm!Fetch) /\ fetches[k][i].id \in Crm!Existing(k)
  BY DEF CrmInvariant, FetchesFormed, Formed
<1>2. fetches[k][i].id \in Crm!All /\ record[fetches[k][i].id] \in SUBSET Entries
  BY <1>1 DEF Crm!Existing, Crm!Records, Crm!All, CrmInvariant, Crm!CrmPageTypeOK
<1>. QED BY <1>1, <1>2 DEF Crm!Shown, Crm!Detail, CrmInvariant, MineRecorded

LEMMA CrmServe ==
  ASSUME Crm!CrmPageAssumption, CrmInvariant, NEW k \in Crm!Kinds, NEW i \in DOMAIN fetches[k],
  Crm!Serve(k, i)
  PROVE  CrmInvariant'
<1>1. PICK gs : gs = Crm!Served(fetches[k], i)
  OBVIOUS
<1>2. /\ fetches' = [fetches EXCEPT ![k] = gs]
      /\ UNCHANGED <<record, crmPage, loads, request, mine>>
  BY <1>1 DEF Crm!Serve
<1>3. gs \in Seq(Crm!Fetch) /\ Formed(gs, Crm!Existing(k))
  <2>1. /\ gs \in Seq(Crm!Fetch) /\ Len(gs) = Len(fetches[k])
        /\ \A j \in 1..Len(fetches[k]) :
              /\ gs[j].id = fetches[k][j].id
              /\ gs[j].answer = IF j = i THEN Crm!Shown(fetches[k][i].id) ELSE fetches[k][j].answer
    BY <1>1, ShownIs, ServedIs
  <2>2. Formed(fetches[k], Crm!Existing(k)) /\ fetches[k] \in Seq(Crm!Fetch)
    BY ShownIs DEF CrmInvariant, FetchesFormed
  <2>3. DOMAIN gs = 1..Len(fetches[k]) /\ DOMAIN fetches[k] = 1..Len(fetches[k])
    BY <2>1, <2>2
  <2>4. Crm!Shown(fetches[k][i].id).id = fetches[k][i].id
    BY DEF Crm!Shown
  <2>. QED BY <2>1, <2>2, <2>3, <2>4 DEF Formed
<1>4. fetches \in [Crm!Kinds -> Seq(Crm!Fetch)]
  BY DEF CrmInvariant, Crm!CrmPageTypeOK
<1>5. \A j \in Crm!Kinds : fetches'[j] = IF j = k THEN gs ELSE fetches[j]
  BY <1>2, <1>4
<1>6. FetchesFormed'
  BY <1>2, <1>3, <1>5 DEF CrmInvariant, FetchesFormed, Crm!Existing
<1>7. DetailFresh'
  <2>1. KeptFresh(crmPage.selected[k], crmPage.detail[k], crmPage.late[k], gs, mine, NothingAwaited)
    BY <1>1, ShownIs, ServedFresh DEF CrmInvariant, DetailFresh
  <2>. QED BY <1>2, <1>5, <2>1 DEF CrmInvariant, DetailFresh, NothingAwaited
<1>8. Crm!CrmPageTypeOK'
  BY <1>2, <1>3, <1>4 DEF CrmInvariant, Crm!CrmPageTypeOK
<1>. QED BY <1>2, <1>6, <1>7, <1>8 DEF CrmInvariant, SelectionExists, Crm!Existing, RequestFormed,
            MineRecorded, FormAwaits

LEMMA CrmArrive ==
  ASSUME Crm!CrmPageAssumption, CrmInvariant, NEW k \in Crm!Kinds, NEW i \in DOMAIN fetches[k],
  Crm!Arrive(k, i)
  PROVE  CrmInvariant'
<1>1. PICK gs : gs = Crm!Without(fetches[k], i)
  OBVIOUS
<1>2. fetches' = [fetches EXCEPT ![k] = gs] /\ UNCHANGED <<record, loads, request, mine>>
  BY <1>1 DEF Crm!Arrive
<1>3. gs \in Seq(Crm!Fetch) /\ Formed(gs, Crm!Existing(k))
  <2>1. Formed(fetches[k], Crm!Existing(k))
    BY DEF CrmInvariant, FetchesFormed
  <2>. QED BY <1>1, <2>1, WithoutFormed DEF Formed
<1>4. fetches \in [Crm!Kinds -> Seq(Crm!Fetch)]
  BY DEF CrmInvariant, Crm!CrmPageTypeOK
<1>5. \A j \in Crm!Kinds : fetches'[j] = IF j = k THEN gs ELSE fetches[j]
  BY <1>2, <1>4
<1>6. PICK f : f = fetches[k][i]
  OBVIOUS
<1>7. f \in Crm!Fetch /\ f.id \in Crm!Existing(k) /\ (f.answer # None => f.answer.id = f.id)
  BY <1>6 DEF CrmInvariant, FetchesFormed, Formed
<1>8. \E d \in Crm!Detail \cup {None}, late \in BOOLEAN :
        /\ crmPage' = [crmPage EXCEPT !.detail[k] = d, !.late[k] = late]
        /\ d # None => d.id \in Crm!Existing(k)
        /\ KeptFresh(crmPage.selected[k], d, late, gs, mine, NothingAwaited)
  <2>1. KeptFresh(crmPage.selected[k], crmPage.detail[k], crmPage.late[k], fetches[k], mine,
  NothingAwaited)
    BY DEF CrmInvariant, DetailFresh
  <2>2. /\ f.answer # None => KeptFresh(crmPage.selected[k], f.answer, f.late, gs, mine, NothingAwaited)
        /\ KeptFresh(crmPage.selected[k], None, FALSE, gs, mine, NothingAwaited)
    BY <1>1, <1>4, <1>6, <2>1, ArrivedFresh
  <2>3. CASE f.answer # None /\ crmPage' = [crmPage EXCEPT !.detail[k] = f.answer, !.late[k] = f.late]
    <3>1. f.answer \in Crm!Detail \cup {None} /\ f.late \in BOOLEAN
      BY <1>7 DEF Crm!Fetch
    <3>. QED BY <1>7, <2>2, <2>3, <3>1
  <2>4. CASE crmPage' = [crmPage EXCEPT !.detail[k] = None, !.late[k] = FALSE]
    BY <2>2, <2>4
  <2>. QED BY <1>6, <2>3, <2>4, Zenon DEF Crm!Arrive
<1>9. PICK d \in Crm!Detail \cup {None} : \E late \in BOOLEAN :
        /\ crmPage' = [crmPage EXCEPT !.detail[k] = d, !.late[k] = late]
        /\ d # None => d.id \in Crm!Existing(k)
        /\ KeptFresh(crmPage.selected[k], d, late, gs, mine, NothingAwaited)
  BY <1>8
<1>10. PICK late \in BOOLEAN :
        /\ crmPage' = [crmPage EXCEPT !.detail[k] = d, !.late[k] = late]
        /\ d # None => d.id \in Crm!Existing(k)
        /\ KeptFresh(crmPage.selected[k], d, late, gs, mine, NothingAwaited)
  BY <1>9
<1>11. /\ crmPage' \in Crm!Page /\ crmPage'.selected = crmPage.selected
       /\ crmPage'.pending = crmPage.pending
       /\ \A j \in Crm!Kinds : /\ crmPage'.detail[j] = IF j = k THEN d ELSE crmPage.detail[j]
                               /\ crmPage'.late[j] = IF j = k THEN late ELSE crmPage.late[j]
  BY <1>10 DEF CrmInvariant, Crm!CrmPageTypeOK, Crm!Page
<1>12. FetchesFormed'
  BY <1>2, <1>3, <1>5 DEF CrmInvariant, FetchesFormed, Crm!Existing
<1>13. DetailFresh'
  <2>1. mine' = mine /\ NothingAwaited' = NothingAwaited
    BY <1>2 DEF NothingAwaited
  <2>2. ASSUME NEW j \in Crm!Kinds
        PROVE  KeptFresh(crmPage'.selected[j], crmPage'.detail[j], crmPage'.late[j],
                         fetches'[j], mine', NothingAwaited')
    <3>1. CASE j = k
      BY <1>5, <1>10, <1>11, <2>1, <3>1
    <3>2. CASE j # k
      BY <1>5, <1>11, <2>1, <3>2 DEF CrmInvariant, DetailFresh
    <3>. QED BY <3>1, <3>2
  <2>. QED BY <2>2 DEF DetailFresh
<1>14. Crm!CrmPageTypeOK'
  BY <1>2, <1>3, <1>4, <1>11 DEF CrmInvariant, Crm!CrmPageTypeOK
<1>15. SelectionExists'
  BY <1>2, <1>10, <1>11 DEF CrmInvariant, SelectionExists, Crm!Existing
<1>16. RequestFormed' /\ MineRecorded'
  BY <1>2 DEF CrmInvariant, RequestFormed, MineRecorded, Crm!Existing
<1>17. FormAwaits'
  BY <1>2, <1>11 DEF CrmInvariant, FormAwaits
<1>. QED BY <1>12, <1>13, <1>14, <1>15, <1>16, <1>17 DEF CrmInvariant

(* What a selection that changes makes of the page.                        *)
LEMMA SentIs ==
  ASSUME Crm!CrmPageAssumption, CrmInvariant, NEW k \in Crm!Kinds,
  NEW id \in Crm!Existing(k) \cup {None}
  PROVE  /\ Crm!Sent(k, id) \in Seq(Crm!Fetch) /\ Formed(Crm!Sent(k, id), Crm!Existing(k))
         /\ Crm!Kept(k, id) \in Crm!Detail \cup {None}
         /\ (Crm!Kept(k, id) # None => Crm!Kept(k, id).id \in Crm!Existing(k))
         /\ Crm!StillLate(k, id) \in BOOLEAN
         /\ \A ms, settled : KeptFresh(id, Crm!Kept(k, id), Crm!StillLate(k, id),
                                       Crm!Sent(k, id), ms, settled)
<1>1. fetches[k] \in Seq(Crm!Fetch) /\ Formed(fetches[k], Crm!Existing(k))
  BY DEF CrmInvariant, FetchesFormed, Formed
<1>2. /\ crmPage.detail[k] \in Crm!Detail \cup {None} /\ crmPage.late[k] \in BOOLEAN
      /\ crmPage.detail[k] # None => crmPage.detail[k].id \in Crm!Existing(k)
  BY DEF CrmInvariant, Crm!CrmPageTypeOK, Crm!Page, SelectionExists
<1>3. CASE id = None
  <2>1. /\ Crm!Sent(k, id) = Crm!Overtaken(fetches[k]) /\ Crm!Kept(k, id) = None
        /\ Crm!StillLate(k, id) \in BOOLEAN
    BY <1>3 DEF Crm!Sent, Crm!Kept, Crm!StillLate
  <2>2. \A ms, settled : KeptFresh(id, None, Crm!StillLate(k, id),
                                   Crm!Overtaken(fetches[k]), ms,
  settled)
    BY <1>1, NoneFresh
  <2>3. Formed(Crm!Overtaken(fetches[k]), Crm!Existing(k))
    BY <1>1, OvertakenFormed
  <2>4. Crm!Overtaken(fetches[k]) \in Seq(Crm!Fetch)
    BY <2>3 DEF Formed
  <2>. QED BY <2>1, <2>2, <2>3, <2>4, Zenon
<1>4. CASE id # None
  <2>1. PICK gs : gs = Append(fetches[k], [id |-> id, late |-> FALSE, answer |-> None])
    OBVIOUS
  <2>2. /\ Crm!Sent(k, id) = gs /\ Crm!Kept(k, id) = crmPage.detail[k]
        /\ Crm!StillLate(k, id) \in BOOLEAN
    BY <1>2, <1>4, <2>1 DEF Crm!Sent, Crm!Kept, Crm!StillLate
  <2>3. Crm!Existing(k) \in SUBSET Crm!All /\ id \in Crm!Existing(k)
    BY <1>4 DEF Crm!Existing, Crm!Records, Crm!All
  <2>4. Formed(gs, Crm!Existing(k))
    BY <1>1, <2>1, <2>3, AppendFormed
  <2>5. \A d, late, ms, settled : KeptFresh(id, d, late, gs, ms, settled)
    BY <1>1, <2>1, SentFresh
  <2>. QED BY <1>2, <2>2, <2>4, <2>5, Zenon DEF Formed
<1>. QED BY <1>3, <1>4

LEMMA ChosenKeeps ==
  ASSUME Crm!CrmPageAssumption, CrmInvariant, NEW k \in Crm!Kinds,
  NEW id \in Crm!Existing(k) \cup {None},
         Crm!Chosen(k, id)
  PROVE  /\ crmPage' \in Crm!Page /\ crmPage'.pending = crmPage.pending
         /\ fetches' \in [Crm!Kinds -> Seq(Crm!Fetch)]
         /\ \A j \in Crm!Kinds :
              /\ Formed(fetches'[j], Crm!Existing(j))
              /\ crmPage'.selected[j] \in Crm!Existing(j) \cup {None}
              /\ crmPage'.detail[j] # None => crmPage'.detail[j].id \in Crm!Existing(j)
              /\ KeptFresh(crmPage'.selected[j], crmPage'.detail[j], crmPage'.late[j],
                           fetches'[j], mine, NothingAwaited)
<1>1. PICK gs : gs = IF id = crmPage.selected[k] THEN fetches[k] ELSE Crm!Sent(k, id)
  OBVIOUS
<1>2. PICK d : d = Crm!Kept(k, id)
  OBVIOUS
<1>3. PICK late : late = Crm!StillLate(k, id)
  OBVIOUS
<1>4. /\ fetches \in [Crm!Kinds -> Seq(Crm!Fetch)] /\ crmPage \in Crm!Page
      /\ \A j \in Crm!Kinds :
           /\ Formed(fetches[j], Crm!Existing(j))
           /\ crmPage.selected[j] \in Crm!Existing(j) \cup {None}
           /\ crmPage.detail[j] # None => crmPage.detail[j].id \in Crm!Existing(j)
           /\ KeptFresh(crmPage.selected[j], crmPage.detail[j], crmPage.late[j],
                        fetches[j], mine, NothingAwaited)
  BY DEF CrmInvariant, Crm!CrmPageTypeOK, FetchesFormed, SelectionExists, DetailFresh
<1>5. /\ gs \in Seq(Crm!Fetch) /\ Formed(gs, Crm!Existing(k))
      /\ d \in Crm!Detail \cup {None}
      /\ (d # None => d.id \in Crm!Existing(k)) /\ late \in BOOLEAN
      /\ KeptFresh(id, d, late, gs, mine, NothingAwaited)
  <2>1. CASE id # crmPage.selected[k]
    BY <1>1, <1>2, <1>3, <2>1, SentIs
  <2>2. CASE id = crmPage.selected[k] /\ id # None
    <3>1. crmPage.late[k] \in BOOLEAN
      BY <1>4 DEF Crm!Page
    <3>2. gs = fetches[k] /\ d = crmPage.detail[k] /\ late = crmPage.late[k]
      BY <1>1, <1>2, <1>3, <2>2, <3>1 DEF Crm!Kept, Crm!StillLate
    <3>. QED BY <1>2, <1>3, <1>4, <2>2, <3>2, SentIs
  <2>3. CASE id = crmPage.selected[k] /\ id = None
    <3>1. gs = fetches[k] /\ d = None /\ late = FALSE
      BY <1>1, <1>2, <1>3, <2>3 DEF Crm!Kept, Crm!StillLate
    <3>2. KeptFresh(id, None, FALSE, fetches[k], mine, NothingAwaited)
      BY <1>4, <2>3 DEF KeptFresh
    <3>. QED BY <1>4, <3>1, <3>2
  <2>. QED BY <2>1, <2>2, <2>3
<1>6. fetches' = [fetches EXCEPT ![k] = gs]
  BY <1>1, <1>4 DEF Crm!Chosen
<1>7. crmPage' = [crmPage EXCEPT !.selected[k] = id, !.detail[k] = d, !.late[k] = late]
  BY <1>2, <1>3 DEF Crm!Chosen
<1>8. id \in Crm!All \cup {None}
  BY DEF Crm!Existing, Crm!Records, Crm!All
<1>9. /\ crmPage' \in Crm!Page /\ crmPage'.pending = crmPage.pending
      /\ \A j \in Crm!Kinds : /\ crmPage'.selected[j] = IF j = k THEN id ELSE crmPage.selected[j]
                              /\ crmPage'.detail[j] = IF j = k THEN d ELSE crmPage.detail[j]
                              /\ crmPage'.late[j] = IF j = k THEN late ELSE crmPage.late[j]
  BY <1>4, <1>5, <1>7, <1>8 DEF Crm!Page
<1>10. /\ fetches' \in [Crm!Kinds -> Seq(Crm!Fetch)]
       /\ \A j \in Crm!Kinds : fetches'[j] = IF j = k THEN gs ELSE fetches[j]
  BY <1>4, <1>5, <1>6
<1>. QED BY <1>4, <1>5, <1>9, <1>10

(* The invariant from what ChosenKeeps gives.                              *)
LEMMA KeptInvariant ==
  ASSUME record' = record, crmPage' \in Crm!Page, fetches' \in [Crm!Kinds -> Seq(Crm!Fetch)],
         NEW ms, NEW now \in BOOLEAN, ms = mine', now = NothingAwaited',
         \A j \in Crm!Kinds :
              /\ Formed(fetches'[j], Crm!Existing(j))
              /\ crmPage'.selected[j] \in Crm!Existing(j) \cup {None}
              /\ crmPage'.detail[j] # None => crmPage'.detail[j].id \in Crm!Existing(j)
              /\ KeptFresh(crmPage'.selected[j], crmPage'.detail[j], crmPage'.late[j],
                           fetches'[j], ms, now)
  PROVE  FetchesFormed' /\ SelectionExists' /\ DetailFresh'
BY DEF FetchesFormed, Crm!Existing, SelectionExists, DetailFresh

LEMMA CrmSelect ==
  ASSUME Crm!CrmPageAssumption, CrmInvariant, NEW k \in Crm!Kinds, NEW id, Crm!Select(k, id)
  PROVE  CrmInvariant'
<1>1. /\ id \in Crm!Existing(k) \cup {None} /\ Crm!Chosen(k, id)
      /\ UNCHANGED <<record, loads, request, mine>>
  BY DEF Crm!Select
<1>2. PICK now \in BOOLEAN : now = NothingAwaited'
  BY DEF NothingAwaited
<1>3. now = NothingAwaited
  BY <1>1, <1>2 DEF NothingAwaited
<1>4. FetchesFormed' /\ SelectionExists' /\ DetailFresh'
  <2>1. PICK ms : ms = mine'
    OBVIOUS
  <2>. QED BY <1>1, <1>2, <1>3, <2>1, ChosenKeeps, KeptInvariant
<1>5. /\ crmPage' \in Crm!Page /\ crmPage'.pending = crmPage.pending
      /\ fetches' \in [Crm!Kinds -> Seq(Crm!Fetch)]
  BY <1>1, ChosenKeeps
<1>. QED BY <1>1, <1>4, <1>5 DEF CrmInvariant, Crm!CrmPageTypeOK, RequestFormed, Crm!Existing,
            MineRecorded, FormAwaits

LEMMA CrmPerform ==
  ASSUME Crm!CrmPageAssumption, CrmInvariant, NEW form \in Crm!Forms,
  NEW for \in Crm!All \cup {None},
         Crm!Perform(form, for), for # None => record[for] # None,
         form \in Crm!Kinds \cup {"contract"} => for = None
  PROVE  CrmInvariant'
<1>1. /\ ~crmPage.pending /\ crmPage' = [crmPage EXCEPT !.pending = TRUE]
      /\ request' = [form |-> form, for |-> for, answer |-> None]
      /\ UNCHANGED <<record, loads, fetches, mine>>
  BY DEF Crm!Perform
<1>2. /\ request' \in Crm!Requests /\ request'.form = form /\ request'.for = for
      /\ request'.answer = None
  BY <1>1 DEF Crm!Requests
<1>3. /\ crmPage' \in Crm!Page /\ crmPage'.pending /\ crmPage'.selected = crmPage.selected
      /\ crmPage'.detail = crmPage.detail /\ crmPage'.late = crmPage.late
  BY <1>1 DEF CrmInvariant, Crm!CrmPageTypeOK, Crm!Page
<1>4. FormAwaits'
  BY <1>1, <1>2, <1>3, CrmNoneIs, Zenon DEF CrmInvariant, FormAwaits
<1>5. RequestFormed'
  BY <1>1, <1>2 DEF RequestFormed
<1>. QED BY <1>1, <1>2, <1>3, <1>4, <1>5 DEF CrmInvariant, Crm!CrmPageTypeOK, FetchesFormed,
            Crm!Existing, SelectionExists, MineRecorded, DetailFresh, NothingAwaited

LEMMA CrmCreate ==
  ASSUME Crm!CrmPageAssumption, CrmInvariant,
         \/ Crm!CreateBuilding \/ Crm!CreateApartment \/ Crm!CreateOccupancy
         \/ Crm!CreateVendor \/ Crm!AddBankVersion \/ Crm!CreateContract
  PROVE  CrmInvariant'
<1>1. \A k \in Crm!Kinds : /\ crmPage.selected[k] \in Crm!All \cup {None}
                           /\ crmPage.selected[k] # None => record[crmPage.selected[k]] # None
                           /\ crmPage.detail[k] # None =>
                            /\ crmPage.detail[k].id \in Crm!All
                            /\ record[crmPage.detail[k].id] # None
  BY DEF CrmInvariant, SelectionExists, Crm!Existing, Crm!Records, Crm!All
<1>2. "building" \in Crm!Kinds /\ "vendor" \in Crm!Kinds /\ Crm!Kinds = {"building", "vendor"}
  BY DEF Crm!Kinds
<1>3. Crm!Forms = {"building", "apartment", "occupancy", "vendor", "account", "contract"}
  BY DEF Crm!Forms
<1>4. CASE Crm!CreateBuilding \/ Crm!CreateVendor \/ Crm!CreateContract
  BY <1>3, <1>4, CrmPerform DEF Crm!CreateBuilding, Crm!CreateVendor, Crm!CreateContract
<1>5. CASE Crm!CreateApartment \/ Crm!AddBankVersion
  BY <1>1, <1>2, <1>3, <1>5, CrmPerform DEF Crm!CreateApartment, Crm!AddBankVersion
<1>6. CASE Crm!CreateOccupancy
  BY <1>1, <1>2, <1>3, <1>6, CrmPerform DEF Crm!CreateOccupancy
<1>. QED BY <1>4, <1>5, <1>6

LEMMA CrmRequestArrives ==
  ASSUME Crm!CrmPageAssumption, CrmInvariant, Crm!RequestArrives PROVE CrmInvariant'
<1>1. /\ request # None /\ request.answer \notin {None, "refused"} /\ request' = None
      /\ record' = record
  BY DEF Crm!RequestArrives
<1>2. PICK q \in BOOLEAN : loads' = loads \cup {Crm!Load(q, TRUE)}
  BY DEF Crm!RequestArrives, Crm!Calls
<1>3. PICK l : l = Crm!Load(q, TRUE)
  OBVIOUS
<1>4. l \in Crm!Loads /\ l.awaited /\ loads' = loads \cup {l}
  BY <1>2, <1>3 DEF Crm!Load, Crm!Loads
<1>5. /\ request \in Crm!Requests /\ (request.for # None => record[request.for] # None)
      /\ (request.form \in Crm!Kinds => request.answer \in Crm!Existing(request.form))
      /\ (request.for # None => request.answer \in record[request.for])
  BY <1>1 DEF CrmInvariant, Crm!CrmPageTypeOK, RequestFormed
<1>6. PICK m : m = [id |-> request.for, entry |-> request.answer]
  OBVIOUS
<1>7. mine' = IF request.for = None THEN mine ELSE mine \cup {m}
  BY <1>6, Zenon DEF Crm!RequestArrives
<1>8. request.for # None => /\ m \in [id: Crm!All, entry: Entries]
                            /\ m.id = request.for /\ m.entry = request.answer
  <2>1. request.for # None => request.for \in Crm!All /\ record[request.for] \in SUBSET Entries
    BY <1>5 DEF Crm!Requests, CrmInvariant, Crm!CrmPageTypeOK
  <2>. QED BY <1>5, <1>6, <2>1
<1>9. mine' \subseteq [id: Crm!All, entry: Entries] /\ MineRecorded'
  BY <1>1, <1>5, <1>7, <1>8 DEF CrmInvariant, Crm!CrmPageTypeOK, MineRecorded
<1>10. /\ crmPage' \in Crm!Page /\ crmPage'.pending = crmPage.pending
       /\ fetches' \in [Crm!Kinds -> Seq(Crm!Fetch)]
       /\ \A j \in Crm!Kinds :
              /\ Formed(fetches'[j], Crm!Existing(j))
              /\ crmPage'.selected[j] \in Crm!Existing(j) \cup {None}
              /\ crmPage'.detail[j] # None => crmPage'.detail[j].id \in Crm!Existing(j)
              /\ KeptFresh(crmPage'.selected[j], crmPage'.detail[j], crmPage'.late[j],
                           fetches'[j], mine, NothingAwaited)
  <2>1. CASE request.form \in Crm!Kinds
    <3>1. PICK k \in Crm!Kinds : k = request.form
      BY <2>1
    <3>2. PICK id \in Crm!Existing(k) \cup {None} : id = request.answer
      BY <1>5, <3>1
    <3>3. Crm!Chosen(k, id)
      BY <2>1, <3>1, <3>2 DEF Crm!RequestArrives
    <3>. QED BY <3>3, ChosenKeeps
  <2>2. CASE request.form \notin Crm!Kinds
    BY <2>2 DEF Crm!RequestArrives, CrmInvariant, Crm!CrmPageTypeOK, FetchesFormed,
       SelectionExists, DetailFresh
  <2>. QED BY <2>1, <2>2
<1>11. PICK now \in BOOLEAN : now = NothingAwaited'
  BY DEF NothingAwaited
<1>12. now = FALSE
  BY <1>4, <1>11 DEF NothingAwaited
<1>13. PICK ms : ms = mine'
  OBVIOUS
<1>14. \A j \in Crm!Kinds : KeptFresh(crmPage'.selected[j], crmPage'.detail[j], crmPage'.late[j],
                                      fetches'[j], ms, now)
  <2>1. \A j \in Crm!Kinds : KeptFresh(crmPage'.selected[j], crmPage'.detail[j], crmPage'.late[j],
  fetches'[j], mine, NothingAwaited)
    BY <1>10
  <2>. QED BY <2>1, <1>12, AwaitedFresh
<1>15. FetchesFormed' /\ SelectionExists' /\ DetailFresh'
  BY <1>1, <1>10, <1>11, <1>13, <1>14, KeptInvariant
<1>16. FormAwaits'
  BY <1>1, <1>4, <1>10 DEF CrmInvariant, FormAwaits
<1>. QED BY <1>1, <1>4, <1>9, <1>10, <1>15, <1>16 DEF CrmInvariant, Crm!CrmPageTypeOK, RequestFormed

LEMMA CrmRequestFails ==
  ASSUME Crm!CrmPageAssumption, CrmInvariant, Crm!RequestFails PROVE CrmInvariant'
<1>1. /\ request # None /\ request' = None /\ crmPage' = [crmPage EXCEPT !.pending = FALSE]
      /\ UNCHANGED <<record, loads, fetches, mine>>
  BY DEF Crm!RequestFails
<1>2. /\ crmPage' \in Crm!Page /\ ~crmPage'.pending /\ crmPage'.selected = crmPage.selected
      /\ crmPage'.detail = crmPage.detail /\ crmPage'.late = crmPage.late
  BY <1>1 DEF CrmInvariant, Crm!CrmPageTypeOK, Crm!Page
<1>3. FormAwaits'
  BY <1>1, <1>2, Zenon DEF CrmInvariant, FormAwaits
<1>. QED BY <1>1, <1>2, <1>3 DEF CrmInvariant, Crm!CrmPageTypeOK, FetchesFormed, Crm!Existing,
            SelectionExists, RequestFormed, MineRecorded, DetailFresh, NothingAwaited

LEMMA CrmLoadArrives ==
  ASSUME Crm!CrmPageAssumption, CrmInvariant, NEW l \in loads,
  NEW first \in [Crm!Kinds -> Crm!All \cup {None}],
         Crm!LoadArrives(l, first)
  PROVE  CrmInvariant'
<1>1. PICK selected :
        selected = [k \in Crm!Kinds |-> IF crmPage.selected[k] # None THEN crmPage.selected[k]
                                        ELSE first[k]]
  OBVIOUS
<1>2. PICK p : p = (crmPage.pending /\ ~l.awaited)
  OBVIOUS
<1>3. PICK d : d = [k \in Crm!Kinds |-> Crm!Kept(k, selected[k])]
  OBVIOUS
<1>4. PICK late : late = [k \in Crm!Kinds |-> Crm!StillLate(k, selected[k])]
  OBVIOUS
<1>5. /\ crmPage' = [crmPage EXCEPT !.profile = TRUE, !.selected = selected,
                     !.detail = d, !.late = late,
                              !.pending = p]
      /\ fetches' = [k \in Crm!Kinds |-> Crm!Sent(k, selected[k])]
      /\ loads' = loads \ {l} /\ UNCHANGED <<record, request, mine>>
      /\ \A k \in Crm!Kinds : first[k] \in Crm!Existing(k) \cup {None}
  <2>1. crmPage' = [crmPage EXCEPT !.profile = TRUE, !.selected = selected, !.detail = d,
  !.late = late,
                              !.pending = p]
    BY <1>1, <1>2, <1>3, <1>4, Zenon DEF Crm!LoadArrives
  <2>. QED BY <1>1, <2>1 DEF Crm!LoadArrives, Crm!AfterLoad, Crm!Calls
<1>6. /\ crmPage \in Crm!Page /\ crmPage.pending \in BOOLEAN /\ l.awaited \in BOOLEAN
      /\ p \in BOOLEAN
  BY <1>2 DEF CrmInvariant, Crm!CrmPageTypeOK, Crm!Page, Crm!Loads
<1>7. \A k \in Crm!Kinds : selected[k] \in Crm!Existing(k) \cup {None}
  BY <1>1, <1>5 DEF CrmInvariant, SelectionExists
<1>8. \A k \in Crm!Kinds : Crm!Existing(k) \subseteq Crm!All
  BY DEF Crm!Existing, Crm!Records, Crm!All
<1>9. /\ selected \in [Crm!Kinds -> Crm!All \cup {None}]
      /\ d \in [Crm!Kinds -> Crm!Detail \cup {None}]
      /\ late \in [Crm!Kinds -> BOOLEAN] /\ fetches' \in [Crm!Kinds -> Seq(Crm!Fetch)]
  BY <1>1, <1>3, <1>4, <1>5, <1>7, <1>8, SentIs
<1>10. /\ crmPage' \in Crm!Page /\ crmPage'.selected = selected /\ crmPage'.detail = d
       /\ crmPage'.late = late
       /\ crmPage'.pending = p
  BY <1>5, <1>6, <1>9 DEF Crm!Page
<1>11. PICK now \in BOOLEAN : now = NothingAwaited'
  BY DEF NothingAwaited
<1>12. PICK ms : ms = mine'
  OBVIOUS
<1>13. ASSUME NEW j \in Crm!Kinds
       PROVE  /\ Formed(fetches'[j], Crm!Existing(j))
              /\ crmPage'.selected[j] \in Crm!Existing(j) \cup {None}
              /\ crmPage'.detail[j] # None => crmPage'.detail[j].id \in Crm!Existing(j)
              /\ KeptFresh(crmPage'.selected[j], crmPage'.detail[j], crmPage'.late[j],
                           fetches'[j], ms, now)
  <2>1. PICK id \in Crm!Existing(j) \cup {None} : id = selected[j]
    BY <1>7
  <2>2. /\ fetches'[j] = Crm!Sent(j, id) /\ crmPage'.selected[j] = id
        /\ crmPage'.detail[j] = Crm!Kept(j, id)
        /\ crmPage'.late[j] = Crm!StillLate(j, id)
    BY <1>3, <1>4, <1>5, <1>10, <2>1
  <2>. QED BY <2>2, SentIs
<1>14. FetchesFormed' /\ SelectionExists' /\ DetailFresh'
  BY <1>5, <1>9, <1>10, <1>11, <1>12, <1>13, KeptInvariant
<1>15. FormAwaits'
  BY <1>2, <1>5, <1>6, <1>10 DEF CrmInvariant, FormAwaits
<1>. QED BY <1>5, <1>9, <1>10, <1>14, <1>15 DEF CrmInvariant, Crm!CrmPageTypeOK, RequestFormed,
            Crm!Existing, MineRecorded

LEMMA NextCrm ==
  ASSUME Crm!CrmPageAssumption, CrmInvariant, [Crm!CrmPageNext]_(Crm!crmPage)
  PROVE  CrmInvariant'
<1>1. ASSUME NEW l \in loads, NEW first \in [Crm!Kinds -> Crm!All \cup {None}],
             Crm!LoadArrives(l, first)
      PROVE  CrmInvariant'
  BY <1>1, CrmLoadArrives
<1>2. ASSUME NEW l \in loads, Crm!LoadFails(l) PROVE CrmInvariant'
  BY <1>2, CrmLoadFails
<1>3. ASSUME NEW k \in Crm!Kinds, NEW i \in DOMAIN fetches[k], Crm!Serve(k, i) \/ Crm!Arrive(k, i)
      PROVE  CrmInvariant'
  BY <1>3, CrmServe, CrmArrive
<1>4. ASSUME NEW k \in Crm!Kinds, NEW id, Crm!Select(k, id) PROVE CrmInvariant'
  BY <1>4, CrmSelect
<1>5. ASSUME NEW q \in BOOLEAN, Crm!Search(q) PROVE CrmInvariant'
  BY <1>5, CrmSearch
<1>6. CASE UNCHANGED Crm!crmPage
  BY <1>6 DEF Crm!crmPage, CrmInvariant, Crm!CrmPageTypeOK, FetchesFormed, Crm!Existing,
     SelectionExists, RequestFormed, MineRecorded, FormAwaits, DetailFresh, NothingAwaited
<1>7. CASE \/ Crm!CreateBuilding \/ Crm!CreateApartment \/ Crm!CreateOccupancy
           \/ Crm!CreateVendor \/ Crm!AddBankVersion \/ Crm!CreateContract
  BY <1>7, CrmCreate
<1>. QED
  BY <1>1, <1>2, <1>3, <1>4, <1>5, <1>6, <1>7, CrmElsewhere, CrmMount, CrmServeRequest,
     CrmRequestArrives, CrmRequestFails, Zenon DEF Crm!CrmPageNext

LEMMA CrmShown == CrmInvariant => Crm!OwnWritesShown
<1> SUFFICES ASSUME CrmInvariant PROVE Crm!OwnWritesShown
  OBVIOUS
<1>1. ASSUME NEW k \in Crm!Kinds, ~crmPage.pending, fetches[k] = <<>>, ~crmPage.late[k],
             crmPage.detail[k] # None
      PROVE  /\ crmPage.detail[k].id = crmPage.selected[k]
             /\ \A m \in mine : m.id = crmPage.detail[k].id => m.entry \in crmPage.detail[k].entries
  <2>1. NothingAwaited
    BY <1>1 DEF CrmInvariant, FormAwaits, NothingAwaited
  <2>2. Fresh(crmPage.detail[k], crmPage.selected[k], mine, NothingAwaited)
    BY <1>1 DEF CrmInvariant, DetailFresh, KeptFresh
  <2>. QED BY <2>1, <2>2 DEF Fresh
<1>. QED BY <1>1 DEF Crm!OwnWritesShown, CrmInvariant

(***************************************************************************)
(* The inbox                                                               *)
(***************************************************************************)
InboxInvariant == PageInvariant /\ CrmInvariant

(* Every step of the inbox is a step of one part at most.                  *)
LEMMA PartSteps ==
  ASSUME [InboxNext]_<<vars, review, crm>>
  PROVE  /\ [Next]_vars /\ [Browser!PageNext]_(Browser!browser)
         /\ [Crm!CrmPageNext]_(Crm!crmPage)
BY DEF InboxNext, Processes, Reviews, Manages, Browser!browser, review, Crm!crmPage, crm

LEMMA InboxHolds == InboxSpec => []InboxInvariant
<1>1. InboxInit => InboxInvariant
  BY InboxAssumption, InitPage, InitCrm DEF InboxInit, InboxInvariant
<1>2. InboxInvariant /\ [InboxNext]_<<vars, review, crm>> => InboxInvariant'
  BY PartSteps, InboxAssumption, NextPage, NextCrm DEF InboxInvariant
<1>. QED BY <1>1, <1>2, PTL DEF InboxSpec

(* The parts share no state, so what is true of the pipeline or of a page  *)
(* alone is true of it beside the others.                                  *)
LEMMA PartsRun == InboxSpec => Spec /\ Browser!PageSpec /\ Crm!CrmPageSpec
<1>1. InboxInit => Init /\ Browser!PageInit /\ Crm!CrmPageInit
  BY DEF InboxInit
<1>2. [InboxNext]_<<vars, review, crm>> =>
        /\ [Next]_vars /\ [Browser!PageNext]_(Browser!browser)
        /\ [Crm!CrmPageNext]_(Crm!crmPage)
  BY PartSteps
<1>. QED BY <1>1, <1>2, PTL DEF InboxSpec, Spec, Browser!PageSpec, Crm!CrmPageSpec

(* The buttons of the invoice page are disabled while a request of the     *)
(* reviewer, or the load that follows it, is under way, and not any longer *)
(* (perform of invoices/page.tsx).                                         *)
THEOREM ButtonsWait == InboxSpec => []PageConsistent
<1>1. InboxInvariant => PageConsistent
  BY DEF InboxInvariant, PageInvariant, OneAwaited, PageConsistent, Browser!PageConsistent
<1>. QED BY <1>1, InboxHolds, PTL

(* A draft or submission that the server accepts is for the version of the *)
(* invoice that the page showed at the click, with edits typed for that    *)
(* invoice over no later version, a submission for the status shown, and a *)
(* save leaves nothing to a decision on data from before it (saveDraft and *)
(* submitForApproval of invoices/page.tsx against update of                *)
(* InvoicesService, which tests the status it read and later the version). *)
THEOREM AcceptedShown == InboxSpec => AcceptedAsShown
<1>1. ASSUME InboxInvariant, [InboxNext]_<<vars, review, crm>>
      PROVE  [write # None /\ write' # None /\ write.answer = None /\ write'.answer = "accepted"
                /\ write.kind # "upload" =>
              /\ write.id = write.shown.id /\ server[write.id].version = write.shown.version
              /\ write.typed # None => /\ write.typed.id = write.id
                                       /\ write.typed.version <= server[write.id].version
              /\ write.kind = "submit" => server[write.id] = write.shown
              /\ write.kind = "save" => server'[write.id].status # "AWAITING_APPROVAL"
             ]_(Browser!browser)
  BY <1>1, PartSteps, InboxAssumption, NextAccepted DEF InboxInvariant
<1>. QED BY <1>1, InboxHolds, PTL DEF InboxSpec, AcceptedAsShown, Browser!AcceptedAsShown

(* A details panel at rest shows the selected record with everything the   *)
(* user was told he has created in it, unless the last answer to arrive    *)
(* was one that a later call had overtaken (load, perform and the effects  *)
(* of crm/page.tsx).                                                       *)
THEOREM OwnWrites == InboxSpec => []OwnWritesShown
<1>1. InboxInvariant => OwnWritesShown
  BY CrmShown DEF InboxInvariant, OwnWritesShown
<1>. QED BY <1>1, InboxHolds, PTL
=============================================================================
