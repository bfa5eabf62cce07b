---------------------------- MODULE IngestPipeline ----------------------------
(***************************************************************************)
(* The way of an uploaded document to review: upload in apps/api, the      *)
(* BullMQ job it publishes, and InvoicePipeline.process in apps/worker,    *)
(* over two tables, the invoice's status and two buckets.                  *)
(*                                                                         *)
(* Nothing ties these together but the order of the steps, so every call   *)
(* to storage, every statement or transaction, and every message of the    *)
(* queue is an action, and a process may die between any two.  The worker  *)
(* keeps no lock on a document: a job whose worker is silent for too long  *)
(* is delivered again while the first delivery still runs.                 *)
(*                                                                         *)
(* A run is one delivery of a document's job.  It copies the document      *)
(* under a key of its own, so the run's number stands for that key.  Each  *)
(* document has its own invoice.  Any call may fail, and a scanner may     *)
(* change its mind between two runs.                                       *)
(***************************************************************************)
EXTENDS Naturals

CONSTANTS Documents,      \* the documents that may be uploaded
          Contents,       \* what a document's bytes can be
          None,           \* no duplicate, no key
          Attempts,       \* failures a job is allowed ("attempts" of the queue)
          MaxStalled,     \* times a job is delivered again after it stalled
          MaxDeaths       \* bound: processes that die

ASSUME BoundsAssumption == /\ Attempts \in Nat \ {0}
                           /\ MaxStalled \in Nat
                           /\ MaxDeaths \in Nat

Runs == 1..(Attempts + MaxStalled)

ASSUME NoneAssumption == None \notin Documents \cup Runs

StorageState == {"ABSENT", "QUARANTINED", "APPROVED", "BLOCKED"}
ProcessingState == {"QUARANTINED", "SCANNING", "PARSED",
                    "NEEDS_REVIEW", "MANUAL_REVIEW", "BLOCKED"}
ScanResult == {"PENDING", "CLEAN", "INFECTED", "ERROR"}
InvoiceStatus == {"PROCESSING", "NEEDS_REVIEW", "MANUAL_REVIEW", "BLOCKED"}

Document == [storage: StorageState, key: Runs \cup {None},
             duplicateOf: Documents \cup {None}]
Processing == [state: ProcessingState, scan: ScanResult]
Job == [state: {"none", "waiting", "active", "completed", "failed"},
        failures: 0..Attempts, stalls: 0..MaxStalled, started: 0..(Attempts + MaxStalled)]

UploadPhase == {"idle", "stored", "committed", "unpublished", "ended"}
RunPhase == {"idle", "started", "quarantined", "scanning", "clean", "infected",
             "copied", "matched", "promoted", "approved", "reading", "extracted",
             "caught", "marking", "succeeded", "failed", "ended"}

VARIABLES content,      \* the bytes of each document
          upload,       \* where the upload handler of each document is
          quarantine,   \* documents with an object in the quarantine bucket
          copies,       \* the objects of each document in the approved bucket
          document,     \* the Document table
          processing,   \* the DocumentProcessing table
          invoice,      \* the status of the document's invoice
          job,          \* the document's job in the queue
          phase,        \* where each run of a document is
          last,         \* the runs of a document that are its last attempt
          match,        \* the duplicate that a run under the lock has found
          deaths        \* processes that have died

rows == <<document, processing, invoice>>
buckets == <<quarantine, copies>>
runs == <<phase, last, match>>
vars == <<content, upload, buckets, rows, job, runs, deaths>>

Init ==
  /\ content \in [Documents -> Contents]
  /\ upload = [d \in Documents |-> "idle"]
  /\ quarantine = {}
  /\ copies = [d \in Documents |-> {}]
  /\ document = [d \in Documents |->
                   [storage |-> "ABSENT", key |-> None, duplicateOf |-> None]]
  /\ processing = [d \in Documents |-> [state |-> "QUARANTINED", scan |-> "PENDING"]]
  /\ invoice = [d \in Documents |-> "PROCESSING"]
  /\ job = [d \in Documents |->
              [state |-> "none", failures |-> 0, stalls |-> 0, started |-> 0]]
  /\ phase = [d \in Documents |-> [n \in Runs |-> "idle"]]
  /\ last = [d \in Documents |-> {}]
  /\ match = [d \in Documents |-> None]
  /\ deaths = 0

(* The triggers of the invoice pipeline migration.                         *)

(* Variant: the trigger on DocumentProcessing missing.                     *)
AnyMove(old, new) == old \in ProcessingState /\ new \in ProcessingState

Transitions ==
  ({"QUARANTINED"} \X {"SCANNING", "MANUAL_REVIEW"})
    \cup ({"SCANNING"} \X {"QUARANTINED", "PARSED", "BLOCKED", "MANUAL_REVIEW"})
    \cup ({"PARSED"} \X {"NEEDS_REVIEW", "MANUAL_REVIEW"})

MayMove(old, new) == old = new \/ <<old, new>> \in Transitions

(* Variant: the trigger on Document missing.                               *)
AnyKey(d) == document[d].storage # "ABSENT"

KeyUnset(d) == document[d].key = None

InState(d, s) == [processing EXCEPT ![d] = [state |-> s, scan |-> @.scan]]

-----------------------------------------------------------------------------
(* upload                                                                  *)

UploadStore(d) ==
  /\ upload[d] = "idle"
  /\ upload' = [upload EXCEPT ![d] = "stored"]
  /\ quarantine' = quarantine \cup {d}
  /\ UNCHANGED <<content, copies, rows, job, runs, deaths>>

(* The rows of the invoice, the document and its processing.               *)
Recorded(d) == [document EXCEPT ![d] = [storage |-> "QUARANTINED", key |-> None,
                                        duplicateOf |-> None]]

UploadCommit(d) ==
  /\ upload[d] = "stored"
  /\ upload' = [upload EXCEPT ![d] = "committed"]
  /\ document' = Recorded(d)
  /\ UNCHANGED <<content, buckets, processing, invoice, job, runs, deaths>>

(* The transaction fails as the handler sees it, and may have committed;   *)
(* the object is deleted, if storage lets it.                              *)
UploadRefused(d) ==
  /\ upload[d] = "stored"
  /\ upload' = [upload EXCEPT ![d] = "ended"]
  /\ document' \in {document, Recorded(d)}
  /\ quarantine' \in {quarantine, quarantine \ {d}}
  /\ UNCHANGED <<content, copies, processing, invoice, job, runs, deaths>>

JobRow(state, failures, stalls, started) ==
  [state |-> state, failures |-> failures, stalls |-> stalls, started |-> started]

Published(d) == [job EXCEPT ![d] = JobRow("waiting", 0, 0, 0)]

UploadPublish(d) ==
  /\ upload[d] = "committed"
  /\ upload' = [upload EXCEPT ![d] = "ended"]
  /\ job' = Published(d)
  /\ UNCHANGED <<content, buckets, rows, runs, deaths>>

(* Publishing fails as the handler sees it; the queue may have the job.    *)
UploadUnpublished(d) ==
  /\ upload[d] = "committed"
  /\ upload' = [upload EXCEPT ![d] = "unpublished"]
  /\ job' \in {job, Published(d)}
  /\ UNCHANGED <<content, buckets, rows, runs, deaths>>

(* markManualReview: one transaction, which the trigger may refuse.        *)
UploadMark(d) ==
  /\ upload[d] = "unpublished"
  /\ upload' = [upload EXCEPT ![d] = "ended"]
  /\ IF MayMove(processing[d].state, "MANUAL_REVIEW")
     THEN /\ processing' = InState(d, "MANUAL_REVIEW")
          /\ invoice' = [invoice EXCEPT ![d] = "MANUAL_REVIEW"]
     ELSE UNCHANGED <<processing, invoice>>
  /\ UNCHANGED <<content, buckets, document, job, runs, deaths>>

(* The process dies, or the transaction of UploadMark fails.               *)
UploadDies(d) ==
  /\ upload[d] \in {"stored", "committed", "unpublished"}
  /\ deaths < MaxDeaths
  /\ upload' = [upload EXCEPT ![d] = "ended"]
  /\ deaths' = deaths + 1
  /\ UNCHANGED <<content, buckets, rows, job, runs>>

-----------------------------------------------------------------------------
(* The queue                                                               *)

LastAttempt(failures) == failures + 1 >= Attempts

Deliver(d) ==
  LET n == job[d].started + 1 IN
  /\ job[d].state = "waiting"
  /\ job' = [job EXCEPT ![d] = JobRow("active", @.failures, @.stalls, n)]
  /\ phase' = [phase EXCEPT ![d][n] = "started"]
  /\ last' = IF LastAttempt(job[d].failures)
             THEN [last EXCEPT ![d] = @ \cup {n}] ELSE last
  /\ UNCHANGED <<content, upload, buckets, rows, match, deaths>>

(* Variant: off by one.                                                    *)
UpToMaxStalled(d) == job[d].stalls <= MaxStalled

MayStall(d) == job[d].stalls < MaxStalled

(* The lock of an active job has not been renewed in time.                 *)
Stall(d) ==
  /\ job[d].state = "active"
  /\ job' = IF MayStall(d)
            THEN [job EXCEPT ![d] = JobRow("waiting", @.failures, @.stalls + 1, @.started)]
            ELSE [job EXCEPT ![d] = JobRow("failed", @.failures, @.stalls, @.started)]
  /\ UNCHANGED <<content, upload, buckets, rows, runs, deaths>>

(* The queue hears only the run that holds the job's lock, the last one.   *)
Report(d, n) ==
  /\ phase[d][n] \in {"succeeded", "failed"}
  /\ phase' = [phase EXCEPT ![d][n] = "ended"]
  /\ IF job[d].state = "active" /\ n = job[d].started
     THEN job' = [job EXCEPT ![d] =
            IF phase[d][n] = "succeeded"
            THEN JobRow("completed", @.failures, @.stalls, n)
            ELSE JobRow(IF @.failures + 1 < Attempts THEN "waiting" ELSE "failed",
                        @.failures + 1, @.stalls, n)]
     ELSE job' = job
  /\ UNCHANGED <<content, upload, buckets, rows, last, match, deaths>>

-----------------------------------------------------------------------------
(* process                                                                 *)

(* Run n of d goes on from phase p to phase q.                             *)
Moves(d, n, p, q) ==
  /\ phase[d][n] = p
  /\ phase' = [phase EXCEPT ![d][n] = q]
  /\ UNCHANGED <<content, upload, job, last, deaths>>

Goes(d, n, p, q) == Moves(d, n, p, q) /\ UNCHANGED match

(* A statement or a commit is carried out, and the run goes on; or the     *)
(* connection breaks, and the run does not learn that it was.              *)
Does(d, n, p, q) == Goes(d, n, p, q) \/ Goes(d, n, p, "caught")

Settled == {"NEEDS_REVIEW", "MANUAL_REVIEW", "BLOCKED"}

Load(d, n) ==
  /\ \/ processing[d].state \in Settled /\ Goes(d, n, "started", "succeeded")
     \/ /\ processing[d].state \notin Settled
        /\ document[d].storage = "QUARANTINED"
        /\ Goes(d, n, "started", "quarantined")
     \/ /\ processing[d].state \notin Settled
        /\ document[d].storage # "QUARANTINED"
        /\ Goes(d, n, "started", "approved")
  /\ UNCHANGED <<buckets, rows>>

BeginScan(d, n) ==
  /\ MayMove(processing[d].state, "SCANNING")
  /\ Does(d, n, "quarantined", "scanning")
  /\ processing' = InState(d, "SCANNING")
  /\ UNCHANGED <<buckets, document, invoice>>

(* The object is downloaded and scanned.                                   *)
Scan(d, n) ==
  /\ \/ d \in quarantine /\ \E verdict \in {"clean", "infected"} :
                                Goes(d, n, "scanning", verdict)
     \/ d \notin quarantine /\ Goes(d, n, "scanning", "caught")
  /\ UNCHANGED <<buckets, rows>>

Block(d, n) ==
  /\ MayMove(processing[d].state, "BLOCKED")
  /\ Does(d, n, "infected", "succeeded")
  /\ document' = [document EXCEPT ![d] =
       [storage |-> "BLOCKED", key |-> @.key, duplicateOf |-> @.duplicateOf]]
  /\ processing' = [processing EXCEPT ![d] = [state |-> "BLOCKED", scan |-> "INFECTED"]]
  /\ invoice' = [invoice EXCEPT ![d] = "BLOCKED"]
  /\ UNCHANGED buckets

Copy(d, n) ==
  /\ Does(d, n, "clean", "copied")
  /\ copies' = [copies EXCEPT ![d] = @ \cup {n}]
  /\ UNCHANGED <<quarantine, rows>>

(* Variants: the advisory lock left out; taken for the session.            *)
NoLock(d) == d \in Documents

SessionLock(d) == \A e \in Documents : content[e] = content[d] => document[e].key = None

(* The advisory lock on the fingerprint, held up to the end of promotion.  *)
FingerprintFree(d) ==
  \A e \in Documents, m \in Runs :
    content[e] = content[d] => phase[e][m] # "matched"

(* Other documents with this fingerprint, which is set with the key.  The  *)
(* code takes the oldest; here it is any of them.                          *)
Twins(d) == {e \in Documents \ {d} : document[e].key # None /\ content[e] = content[d]}

Match(d, n) ==
  /\ FingerprintFree(d)
  /\ Moves(d, n, "copied", "matched")
  /\ \E e \in IF Twins(d) = {} THEN {None} ELSE Twins(d) :
       match' = [match EXCEPT ![d] = e]
  /\ UNCHANGED <<buckets, rows>>

Promotes(d) == KeyUnset(d) /\ MayMove(processing[d].state, "PARSED")

Promote(d, n) ==
  /\ Promotes(d)
  /\ Does(d, n, "matched", "promoted")
  /\ document' = [document EXCEPT ![d] =
       [storage |-> "APPROVED", key |-> n, duplicateOf |-> match[d]]]
  /\ processing' = [processing EXCEPT ![d] = [state |-> "PARSED", scan |-> "CLEAN"]]
  /\ UNCHANGED <<buckets, invoice>>

(* The trigger refuses: rollback, and the copy is deleted if possible.     *)
PromoteRefused(d, n) ==
  /\ ~Promotes(d)
  /\ Goes(d, n, "matched", "caught")
  /\ copies' \in {copies, [copies EXCEPT ![d] = @ \ {n}]}
  /\ UNCHANGED <<quarantine, rows>>

DeleteQuarantined(d, n) ==
  /\ Does(d, n, "promoted", "reading")
  /\ quarantine' = quarantine \ {d}
  /\ UNCHANGED <<copies, rows>>

(* A run that finds the document approved takes it up from there.          *)
TakeUp(d, n) ==
  /\ MayMove(processing[d].state, "PARSED")
  /\ Does(d, n, "approved", "reading")
  /\ processing' = [processing EXCEPT ![d] = [state |-> "PARSED", scan |-> "CLEAN"]]
  /\ UNCHANGED <<buckets, document, invoice>>

(* OCR, of the file at hand or downloaded from the approved bucket.        *)
Extract(d, n) ==
  /\ document[d].key \in copies[d]
  /\ Goes(d, n, "reading", "extracted")
  /\ UNCHANGED <<buckets, rows>>

Finish(d, n) ==
  /\ MayMove(processing[d].state, "NEEDS_REVIEW")
  /\ Does(d, n, "extracted", "succeeded")
  /\ processing' = InState(d, "NEEDS_REVIEW")
  /\ invoice' = [invoice EXCEPT ![d] = "NEEDS_REVIEW"]
  /\ UNCHANGED <<buckets, document>>

(* The state a run in one of these phases is about to set.                 *)
Target == [quarantined |-> "SCANNING", infected |-> "BLOCKED",
           approved |-> "PARSED", extracted |-> "NEEDS_REVIEW"]

(* The trigger refuses it, and with it the whole transaction.              *)
Refused(d, n) ==
  /\ \E p \in DOMAIN Target : /\ ~MayMove(processing[d].state, Target[p])
                              /\ Goes(d, n, p, "caught")
  /\ UNCHANGED <<buckets, rows>>

(* resetForRetry, for a run that is not the last attempt.                  *)
ResetForRetry(d, n) ==
  LET new == IF document[d].storage = "APPROVED" THEN "PARSED" ELSE "QUARANTINED" IN
  /\ n \notin last[d]
  /\ Goes(d, n, "caught", "failed")
  /\ processing' = IF MayMove(processing[d].state, new) THEN InState(d, new) ELSE processing
  /\ UNCHANGED <<buckets, document, invoice>>

(* manualReview: two statements, each on its own.                          *)
ManualReview(d, n) ==
  /\ n \in last[d]
  /\ Goes(d, n, "caught", "marking")
  /\ processing' = IF processing[d].state \notin {"NEEDS_REVIEW", "BLOCKED"}
                   THEN [processing EXCEPT ![d] =
                           [state |-> "MANUAL_REVIEW",
                            scan |-> IF @.scan = "PENDING" THEN "ERROR" ELSE @.scan]]
                   ELSE processing
  /\ UNCHANGED <<buckets, document, invoice>>

(* Variant: the status left out of the WHERE.                              *)
InAnyStatus(d) == document[d].storage # "ABSENT"

StillProcessing(d) == invoice[d] = "PROCESSING"

MarkInvoice(d, n) ==
  /\ Goes(d, n, "marking", "failed")
  /\ invoice' = IF StillProcessing(d) THEN [invoice EXCEPT ![d] = "MANUAL_REVIEW"]
                ELSE invoice
  /\ UNCHANGED <<buckets, document, processing>>

(* A call fails and changes nothing.  Outside the try block, and in its    *)
(* handler, nothing catches the error.                                     *)
Fails(d, n) ==
  /\ \/ \E p \in {"quarantined", "scanning", "infected", "clean", "copied", "matched",
                   "promoted", "approved", "reading", "extracted"} : Goes(d, n, p, "caught")
     \/ \E p \in {"started", "caught", "marking"} : Goes(d, n, p, "failed")
  /\ UNCHANGED <<buckets, rows>>

RunDies(d, n) ==
  /\ phase[d][n] \notin {"idle", "ended"}
  /\ deaths < MaxDeaths
  /\ phase' = [phase EXCEPT ![d][n] = "ended"]
  /\ deaths' = deaths + 1
  /\ UNCHANGED <<content, upload, buckets, rows, job, last, match>>

-----------------------------------------------------------------------------
Uploading(d) ==
  \/ UploadCommit(d) \/ UploadRefused(d) \/ UploadPublish(d)
  \/ UploadUnpublished(d) \/ UploadMark(d)

(* What a run does, apart from calls that fail.                            *)
Working(d, n) ==
  \/ Load(d, n) \/ BeginScan(d, n) \/ Scan(d, n) \/ Block(d, n)
  \/ Copy(d, n) \/ Match(d, n) \/ Promote(d, n) \/ PromoteRefused(d, n)
  \/ DeleteQuarantined(d, n) \/ TakeUp(d, n) \/ Extract(d, n) \/ Finish(d, n)
  \/ Refused(d, n) \/ ResetForRetry(d, n) \/ ManualReview(d, n) \/ MarkInvoice(d, n)

Next ==
  \E d \in Documents :
    \/ UploadStore(d) \/ Uploading(d) \/ UploadDies(d)
    \/ Deliver(d) \/ Stall(d)
    \/ \E n \in Runs : Working(d, n) \/ Fails(d, n) \/ Report(d, n) \/ RunDies(d, n)

Spec == Init /\ [][Next]_vars

(* The process that runs a job has died.                                   *)
Abandoned(d) == job[d].state = "active" /\ phase[d][job[d].started] = "ended"

(* Handlers and workers carry on, the queue delivers what waits, and finds *)
(* jobs whose worker is gone.  Nothing makes a call fail or succeed.       *)
Fairness ==
  \A d \in Documents :
    /\ WF_vars(Uploading(d))
    /\ WF_vars(Deliver(d))
    /\ WF_vars(Abandoned(d) /\ Stall(d))
    /\ \A n \in Runs : WF_vars(Working(d, n)) /\ WF_vars(Report(d, n))

FairSpec == Spec /\ Fairness

-----------------------------------------------------------------------------
(* Every variable has its type, and the queue's counters their limits.     *)
TypeOK ==
  /\ content \in [Documents -> Contents]
  /\ upload \in [Documents -> UploadPhase]
  /\ quarantine \subseteq Documents
  /\ copies \in [Documents -> SUBSET Runs]
  /\ document \in [Documents -> Document]
  /\ processing \in [Documents -> Processing]
  /\ invoice \in [Documents -> InvoiceStatus]
  /\ job \in [Documents -> Job]
  /\ phase \in [Documents -> [Runs -> RunPhase]]
  /\ last \in [Documents -> SUBSET Runs]
  /\ match \in [Documents -> Documents \cup {None}]
  /\ deaths \in 0..MaxDeaths

(* However the deliveries of a job overlap, the two tables and the         *)
(* approved bucket tell one story: the document is approved just when it   *)
(* was found clean and a key was given to it, under which its copy is      *)
(* there; it is blocked just when it was found infected.  So a verdict of  *)
(* one delivery never meets the promotion of another.                      *)
StorageAgrees ==
  \A d \in Documents :
    /\ document[d].storage = "APPROVED" <=> document[d].key # None
    /\ processing[d].scan = "CLEAN" <=> document[d].key # None
    /\ document[d].key # None => document[d].key \in copies[d]
    /\ document[d].storage = "BLOCKED" <=> processing[d].scan = "INFECTED"
    /\ processing[d].state = "BLOCKED" <=> processing[d].scan = "INFECTED"
    /\ processing[d].state \in {"PARSED", "NEEDS_REVIEW"} => document[d].key # None

(* The invoice shows a verdict only when the document has just that        *)
(* verdict, and never shows a reviewable or blocked document as one still  *)
(* being processed: manualReview and a failed publication, which write in  *)
(* other transactions than the worker's, do not run over its result.       *)
InvoiceAgrees ==
  \A d \in Documents :
    IF invoice[d] = "PROCESSING"
    THEN processing[d].state \notin {"NEEDS_REVIEW", "BLOCKED"}
    ELSE invoice[d] = processing[d].state

(* The unmarked ones of the approved documents with the bytes of d.        *)
Originals(d) == {e \in Documents : /\ content[e] = content[d]
                                   /\ document[e].key # None
                                   /\ document[e].duplicateOf = None}

(* Of the approved documents with the same bytes, one and only one is not  *)
(* marked as a duplicate, whichever workers promoted them at the same time.*)
DuplicatesAreMarked ==
  \A d \in Documents :
    document[d].key # None => \E e \in Documents : Originals(d) = {e}

(* The tables, seen as the gate between upload and review.                 *)
Stage(d) ==
  CASE document[d].storage = "ABSENT"          -> "absent"
    [] processing[d].state = "BLOCKED"         -> "blocked"
    [] processing[d].state = "MANUAL_REVIEW"   -> "manual"
    [] processing[d].state = "NEEDS_REVIEW"    -> "reviewable"
    [] processing[d].state = "PARSED"          -> "cleared"
    [] OTHER                                   -> "received"

Gate == INSTANCE DocumentGate WITH
          Kept <- Runs,
          Nothing <- None,
          stage <- [d \in Documents |-> Stage(d)],
          kept <- [d \in Documents |-> document[d].key],
          original <- [d \in Documents |-> document[d].duplicateOf]

(* The two tables implement DocumentGate: a document gets to review, or is *)
(* blocked or handed to a person, once, for good, and in no other way than *)
(* by a clean scan and a promotion that gives it its only copy.            *)
KeepsGate == Gate!Spec

(* A published document's job ends, whatever fails, dies or waits for the  *)
(* lock on its fingerprint.                                                *)
JobsEnd ==
  \A d \in Documents : job[d].state = "waiting" ~> job[d].state \in {"completed", "failed"}

Quiet(d) == \A n \in Runs : phase[d][n] \in {"idle", "ended"}

(* A job is published once, and every delivery of it is accounted for.     *)
JobsInOrder ==
  \A d \in Documents :
    /\ upload[d] \in {"idle", "stored", "committed"} => job[d].state = "none"
    /\ job[d].state = "none" =>
         job[d].failures = 0 /\ job[d].stalls = 0 /\ job[d].started = 0
    /\ job[d].state \in {"waiting", "active"} => job[d].failures < Attempts
    /\ job[d].state = "waiting" => job[d].started = job[d].failures + job[d].stalls
    /\ job[d].state = "active" => job[d].started = job[d].failures + job[d].stalls + 1

(* Nothing is done for a document before its rows are there.               *)
RowsInOrder ==
  \A d \in Documents :
    /\ upload[d] \in {"idle", "stored"} => document[d].storage = "ABSENT"
    /\ document[d].storage = "ABSENT" =>
         /\ processing[d] = [state |-> "QUARANTINED", scan |-> "PENDING"]
         /\ invoice[d] = "PROCESSING"
         /\ upload[d] \in {"idle", "stored", "ended"}
         /\ job[d].state = "none"
    /\ processing[d].state \in {"QUARANTINED", "SCANNING"} => document[d].key = None
    /\ document[d].key = None => document[d].duplicateOf = None

Unpromoted == {"idle", "started", "quarantined", "scanning", "clean", "infected",
               "copied", "matched"}

(* What a run relies on that it has not read itself just now.              *)
RunsInOrder ==
  \A d \in Documents, n \in Runs :
    /\ n > job[d].started => phase[d][n] = "idle"
    /\ phase[d][n] \in Unpromoted => document[d].key # n
    /\ phase[d][n] \in {"copied", "matched"} => n \in copies[d]
    /\ phase[d][n] = "approved" => document[d].key # None
    /\ phase[d][n] = "marking" => processing[d].state \in Settled

(* The lock has one holder, and what it found stays so while it is held.   *)
LockHolds ==
  \A d \in Documents, n \in Runs :
    phase[d][n] = "matched" =>
      /\ \A e \in Documents, m \in Runs :
           phase[e][m] = "matched" /\ content[e] = content[d] => e = d /\ m = n
      /\ IF match[d] = None THEN Twins(d) = {} ELSE match[d] \in Twins(d)

(* With TypeOK and the properties, an inductive invariant: what the order  *)
(* of the steps, the lock and the counters of the queue guarantee.         *)
Inductive == JobsInOrder /\ RowsInOrder /\ RunsInOrder /\ LockHolds

(* "Scanner, storage, or OCR failure: MANUAL_REVIEW"                       *)
(* (docs/milestone-0.4.md:30), also when the failure takes the worker down *)
(* with it and the queue, which hears of no failure, gives the job up.     *)
FailureIsVisible ==
  \A d \in Documents :
    job[d].state = "failed" /\ job[d].failures = 0 /\ Quiet(d)
      => processing[d].state \notin {"SCANNING", "PARSED"}

(* "The clean object is copied to the approved bucket and removed from     *)
(* quarantine" (docs/milestone-0.4.md:17).                                 *)
ReviewedLeavesQuarantine ==
  \A d \in Documents :
    processing[d].state = "NEEDS_REVIEW" /\ Quiet(d) => d \notin quarantine
=============================================================================
