------------------------------ MODULE InvoicePage ------------------------------
(***************************************************************************)
(* The invoice page of the web interface: the inbox, the invoice the       *)
(* reviewer has before him, the draft he types, and the requests he sends, *)
(* while answers come late and in any order and others work on the same    *)
(* invoices.                                                               *)
(*                                                                         *)
(* Abstractions.  An invoice keeps its status and version: CLOSED stands   *)
(* for BLOCKED, APPROVED, REJECTED and a MANUAL_REVIEW whose document is   *)
(* not clean.  Ids are in the order of creation.  The profile is answered  *)
(* with the inbox, and the inbox when it arrives.  Equal calls under way   *)
(* count as one, and those of a page that was left are not followed.  The  *)
(* document preview, messages and layout are left out.                     *)
(***************************************************************************)
EXTENDS Integers, FiniteSets

CONSTANTS Invoices,
          MaxRevision,     \* bound: versions of an invoice
          MaxCalls,        \* bound: requests under way at once
          None

Statuses == {"PROCESSING", "NEEDS_REVIEW", "MANUAL_REVIEW", "AWAITING_APPROVAL", "CLOSED"}
Row == [id: Invoices, status: Statuses, version: 1..MaxRevision]
Draft == [id: Invoices, version: 1..MaxRevision]

VARIABLES invoice,         \* the rows of the server
          page,            \* the state of the page
          calls,           \* the GET requests under way
          write            \* the request it waits for

browser == <<invoice, page, calls, write>>

NoPage == [profile |-> FALSE, inbox |-> {}, selectedId |-> None, selected |-> None,
           pending |-> FALSE, typed |-> None]
Page == [profile: BOOLEAN,
         inbox: SUBSET Invoices,
         selectedId: Invoices \cup {None},
         selected: Row \cup {None},
         pending: BOOLEAN,
         typed: Draft \cup {None}]      \* what the first edit in the form was typed over

Calls == [kind: {"list", "detail", "select"}, id: Invoices \cup {None}, row: Row \cup {None},
          awaited: BOOLEAN]             \* a write ends when it has arrived
Answers == {"accepted", "refused"}
Writes == [kind: {"upload", "save", "submit"}, id: Invoices \cup {None}, version: 0..MaxRevision,
           typed: Draft \cup {None}, closure: Invoices \cup {None},
           shown: Row \cup {None},      \* history: what the page showed at the click
           read: Statuses \cup {None},  \* the status its transaction has read
           answer: {None} \cup Answers]

(* What the instances that are checked assume of the constants.            *)
PageAssumption == /\ Invoices \subseteq Nat /\ IsFiniteSet(Invoices)
                  /\ MaxRevision \in Nat \ {0} /\ MaxCalls \in Nat
                  /\ None \notin Nat \cup Row \cup Draft \cup Writes \cup Answers \cup Statuses

PageInit == /\ invoice = [i \in Invoices |-> None]
            /\ page = NoPage /\ calls = {} /\ write = None

Existing == {i \in Invoices : invoice[i] # None}
Largest(ids) == CHOOSE i \in ids : \A k \in ids : k <= i

(***************************************************************************)
(* The server                                                              *)
(***************************************************************************)
Editable == {"NEEDS_REVIEW", "MANUAL_REVIEW", "AWAITING_APPROVAL"}
Submittable(row) == row.status = "NEEDS_REVIEW"

Changed(row, status) == [row EXCEPT !.status = status, !.version = @ + 1]

(* An edit writes over the row as it is by then, and takes out of approval *)
(* what it has read to be in it.                                           *)
Saved(row, read) ==
  Changed(row, IF read = "AWAITING_APPROVAL" THEN "NEEDS_REVIEW" ELSE row.status)
Submitted(row) == Changed(row, "AWAITING_APPROVAL")

Upload == \E i \in Invoices \ Existing :
            /\ \A k \in Invoices \ Existing : i <= k
            /\ invoice' = [invoice EXCEPT ![i] = [id |-> i, status |-> "PROCESSING", version |-> 1]]

(* What an edit of the version that the row has can have read, before the  *)
(* worker or a decision changed the status.                                *)
MayHaveRead(row, read) ==
  /\ read \in Editable /\ row.status # "PROCESSING"
  /\ row.status = "AWAITING_APPROVAL" => read = row.status
  /\ read = "AWAITING_APPROVAL" => row.version > 1

Rewrite(i, row) == row \in Row /\ invoice' = [invoice EXCEPT ![i] = row]

(* The writes of others.  Those of the worker, which may do a job again,   *)
(* and of decisions go by the id and leave the version; only manualReview  *)
(* looks at the status.                                                    *)
Restatus(i) ==
  \/ invoice[i].status = "PROCESSING" /\ Rewrite(i, [invoice[i] EXCEPT !.status = "MANUAL_REVIEW"])
  \/ \E s \in {"NEEDS_REVIEW", "CLOSED"} : Rewrite(i, [invoice[i] EXCEPT !.status = s])
Edit(i) ==
  \E read \in Editable : MayHaveRead(invoice[i], read) /\ Rewrite(i, Saved(invoice[i], read))
Submission(i) == Submittable(invoice[i]) /\ Rewrite(i, Submitted(invoice[i]))

Elsewhere ==
  /\ Upload \/ \E i \in Existing : Restatus(i) \/ Edit(i) \/ Submission(i)
  /\ UNCHANGED <<page, calls, write>>

(***************************************************************************)
(* Loading                                                                 *)
(***************************************************************************)
Call(kind, id, awaited) == [kind |-> kind, id |-> id, row |-> None, awaited |-> awaited]

(* load closes over selectedId; the effect runs it when that has changed.  *)
Effect(id) == IF id = page.selectedId THEN {} ELSE {Call("list", id, FALSE)}

Send(cs) == calls' = cs /\ Cardinality(cs) <= MaxCalls

Mount == /\ page = NoPage /\ calls = {} /\ write = None
         /\ Send({Call("list", None, FALSE)})
         /\ UNCHANGED <<invoice, page, write>>

(* Variant, for the runs' mutants: nobody waits for the detail.            *)
Unawaited(c, id) == Call("detail", id, FALSE)

(* load ends with the detail, and with it what waits for it.               *)
Detail(c, id) == Call("detail", id, c.awaited)

(* The first invoice of the inbox is the latest.                           *)
ListArrives(c) ==
  LET target == IF c.id # None THEN c.id ELSE Largest(Existing) IN
  /\ c.kind = "list"
  /\ IF c.id = None /\ Existing = {}
     THEN /\ page' = [page EXCEPT !.profile = TRUE, !.pending = @ /\ ~c.awaited]
          /\ Send(calls \ {c})
     ELSE /\ page' = [page EXCEPT !.profile = TRUE, !.inbox = Existing, !.selectedId = target]
          /\ Send((calls \ {c}) \cup {Detail(c, target)} \cup Effect(target))
  /\ UNCHANGED <<invoice, write>>

Serve(c) ==
  /\ c.kind \in {"detail", "select"} /\ c.row = None
  /\ Send((calls \ {c}) \cup {[c EXCEPT !.row = invoice[c.id]]})
  /\ UNCHANGED <<invoice, page, write>>

(* The key of the form is the id of the invoice: another invoice has a new *)
(* form.                                                                   *)
Retyped(row) == IF page.selected # None /\ page.selected.id = row.id THEN page.typed ELSE None

Arrive(c) ==
  /\ c.row # None
  /\ page' = [page EXCEPT !.selected = c.row, !.typed = Retyped(c.row),
                          !.pending = @ /\ ~c.awaited]
  /\ Send(calls \ {c})
  /\ UNCHANGED <<invoice, write>>

(* A load fails and the page is left for the login; the detail of a click  *)
(* fails and nothing happens.                                              *)
Fail(c) ==
  /\ IF c.kind = "select"
     THEN calls' = calls \ {c} /\ UNCHANGED <<page, write>>
     ELSE calls' = {} /\ page' = NoPage /\ write' = None
  /\ UNCHANGED invoice

Poll == /\ page.selected # None /\ page.selected.status = "PROCESSING"
        /\ Send(calls \cup {Call("list", page.selectedId, FALSE)})
        /\ UNCHANGED <<invoice, page, write>>

(***************************************************************************)
(* The reviewer                                                            *)
(***************************************************************************)
SelectInvoice(i) ==
  /\ i \in page.inbox
  /\ page' = [page EXCEPT !.selectedId = i]
  /\ Send(calls \cup {Call("select", i, FALSE)} \cup Effect(i))
  /\ UNCHANGED <<invoice, write>>

Type == /\ page.selected # None /\ page.typed = None
        /\ page' = [page EXCEPT !.typed = [id |-> page.selected.id,
                                         version |-> page.selected.version]]
        /\ UNCHANGED <<invoice, calls, write>>

Click(kind, id, version, typed, closure, shown) ==
  /\ ~page.pending
  /\ write' = [kind |-> kind, id |-> id, version |-> version, typed |-> typed,
               closure |-> closure, shown |-> shown, read |-> None, answer |-> None]
  /\ page' = [page EXCEPT !.pending = TRUE]
  /\ UNCHANGED <<invoice, calls>>

UploadClick == page.profile /\ Click("upload", None, 0, None, None, None)
Save == /\ page.selected # None /\ page.selected.status \in Editable
        /\ Click("save", page.selected.id, page.selected.version, page.typed,
                 page.selectedId, page.selected)
SubmitForApproval == /\ page.selected # None /\ Submittable(page.selected)
                     /\ Click("submit", page.selected.id, page.selected.version, None,
                              page.selectedId, page.selected)

(* Variant, for the runs' mutants: the UPDATE has no version.              *)
AnyVersion(row) == TRUE

Current(row) == row.version = write.version

(* The row a transaction reads first.                                      *)
Allowed(row) == IF write.kind = "save" THEN row.status \in Editable
                                       ELSE row.version = write.version /\ Submittable(row)

(* The WHERE of the UPDATE that follows.                                   *)
Matched(row) == Current(row) /\ (write.kind = "submit" => Submittable(row))

Written(row) == IF write.kind = "save" THEN Saved(row, write.read) ELSE Submitted(row)

Answered(answer) == write' = [write EXCEPT !.answer = answer, !.read = None,
                                           !.typed = None, !.shown = None]

Awaits(kinds) == write # None /\ write.answer = None /\ write.kind \in kinds

ServeUpload == /\ Awaits({"upload"})
               /\ Upload /\ Answered("accepted")
               /\ UNCHANGED <<page, calls>>

(* A submission is refused for evidence that is missing, too.              *)
ReadForWrite ==
  /\ Awaits({"save", "submit"}) /\ write.read = None
  /\ \/ /\ Allowed(invoice[write.id])
        /\ write' = [write EXCEPT !.read = invoice[write.id].status]
     \/ /\ Allowed(invoice[write.id]) => write.kind = "submit"
        /\ Answered("refused")
  /\ UNCHANGED <<invoice, page, calls>>

ServeWrite ==
  /\ Awaits({"save", "submit"}) /\ write.read # None
  /\ LET row == invoice[write.id] IN
     IF Matched(row)
     THEN Rewrite(write.id, Written(row)) /\ Answered("accepted")
     ELSE UNCHANGED invoice /\ Answered("refused")
  /\ UNCHANGED <<page, calls>>

(* An accepted save or submission is followed by a load, of the selection  *)
(* at the click.  An accepted upload is not: the form is gone from its     *)
(* event by then, and resetting it throws.                                 *)
WriteArrives ==
  /\ write # None /\ write.answer # None
  /\ write' = None
  /\ IF write.answer = "accepted" /\ write.kind # "upload"
     THEN Send(calls \cup {Call("list", write.closure, TRUE)}) /\ UNCHANGED page
     ELSE page' = [page EXCEPT !.pending = FALSE] /\ UNCHANGED calls
  /\ UNCHANGED invoice

WriteFails == /\ write # None
              /\ write' = None
              /\ page' = [page EXCEPT !.pending = FALSE]
              /\ UNCHANGED <<invoice, calls>>

PageNext ==
  \/ Mount \/ Poll \/ Type \/ UploadClick \/ Save \/ SubmitForApproval
  \/ \E c \in calls : ListArrives(c) \/ Serve(c) \/ Arrive(c) \/ Fail(c)
  \/ ServeUpload \/ ReadForWrite \/ ServeWrite \/ WriteArrives \/ WriteFails
  \/ \E i \in Invoices : SelectInvoice(i)
  \/ Elsewhere

PageSpec == PageInit /\ [][PageNext]_browser
-----------------------------------------------------------------------------
PageTypeOK == /\ invoice \in [Invoices -> Row \cup {None}]
              /\ page \in Page /\ calls \subseteq Calls /\ write \in Writes \cup {None}

(* The buttons are disabled while a request of the reviewer, or the load   *)
(* that follows it, is under way, and then they are enabled again: however *)
(* the calls that run meanwhile end.                                       *)
PageConsistent ==
  /\ PageTypeOK
  /\ page.pending <=> write # None \/ \E c \in calls : c.awaited

(* What the server accepts was meant for the row it writes: the version of *)
(* the invoice that the page showed at the click, with edits typed for the *)
(* same invoice over that version or an earlier one that the page has      *)
(* replaced, however late the answers come.  A submission finds the status *)
(* that was shown, too.  A save may find another, but leaves no invoice to *)
(* a decision on what the request before it said.                          *)
AcceptedAsShown ==
  [][write # None /\ write' # None /\ write.answer = None /\ write'.answer = "accepted"
       /\ write.kind # "upload" =>
     /\ write.id = write.shown.id /\ invoice[write.id].version = write.shown.version
     /\ write.typed # None => /\ write.typed.id = write.id
                              /\ write.typed.version <= invoice[write.id].version
     /\ write.kind = "submit" => invoice[write.id] = write.shown
     /\ write.kind = "save" => invoice'[write.id].status # "AWAITING_APPROVAL"]_browser
=============================================================================
