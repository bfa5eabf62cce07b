------------------------ MODULE IngestPipelineProofs ------------------------
(* Theorems about IngestPipeline, for all values of its constants.         *)
EXTENDS IngestPipeline, TLAPS

(* When a run goes on, only its own phase and perhaps its match change      *)
(* (Moves).                                                                 *)
LEMMA MovesRun ==
  ASSUME TypeOK, NEW d \in Documents, NEW n \in Runs, NEW p, NEW q, Moves(d, n, p, q)
  PROVE  /\ phase[d][n] = p
         /\ UNCHANGED <<content, upload, job, last, deaths>>
         /\ q \in RunPhase => phase' \in [Documents -> [Runs -> RunPhase]]
         /\ \A e \in Documents, m \in Runs :
              phase'[e][m] = IF e = d /\ m = n THEN q ELSE phase[e][m]
  BY DEF TypeOK, Moves

(* The processing rows after an update of one document's state (every       *)
(* UPDATE of DocumentProcessing.state in the worker).                       *)
LEMMA InStateRows ==
  ASSUME TypeOK, NEW d \in Documents, NEW s \in ProcessingState
  PROVE  /\ InState(d, s) \in [Documents -> Processing]
         /\ \A e \in Documents : InState(d, s)[e] =
              IF e = d THEN [state |-> s, scan |-> processing[d].scan] ELSE processing[e]
  BY DEF TypeOK, InState, Processing

(* The rows of an upload and of a published job are of their types.         *)
LEMMA NewRows ==
  ASSUME TypeOK, NEW d \in Documents
  PROVE  /\ Recorded(d) \in [Documents -> Document]
         /\ Published(d) \in [Documents -> Job]
  <1>1. Recorded(d) \in [Documents -> Document]
    BY DEF TypeOK, Recorded, Document, StorageState
  <1>2. Published(d) \in [Documents -> Job]
    BY BoundsAssumption DEF TypeOK, Published, JobRow, Job, Runs
  <1>. QED BY <1>1, <1>2

(* Every step keeps the types; a job's counters stay within the queue's     *)
(* limits because a delivery is only made of a job that has an attempt      *)
(* left.                                                                    *)
LEMMA NextType ==
  ASSUME TypeOK, JobsInOrder, [Next]_vars
  PROVE  TypeOK'
<1> USE TypeOK, JobsInOrder
<1>1. ASSUME NEW d \in Documents, UploadStore(d) PROVE TypeOK'
  <2>1. upload' \in [Documents -> UploadPhase]
    BY <1>1 DEF UploadStore, TypeOK, UploadPhase
  <2>2. quarantine' \subseteq Documents
    BY <1>1 DEF UploadStore, TypeOK
  <2>. QED
    BY <1>1, <2>1, <2>2
       DEF UploadStore, TypeOK, rows, buckets, runs
<1>2. ASSUME NEW d \in Documents, UploadCommit(d) PROVE TypeOK'
  <2>1. upload' \in [Documents -> UploadPhase]
    BY <1>2 DEF UploadCommit, Recorded, TypeOK, UploadPhase
  <2>2. document' \in [Documents -> Document]
    BY <1>2 DEF UploadCommit, Recorded, TypeOK, Document, StorageState
  <2>. QED
    BY <1>2, <2>1, <2>2
       DEF UploadCommit, TypeOK, rows, buckets, runs
<1>3. ASSUME NEW d \in Documents, UploadRefused(d) PROVE TypeOK'
  <2>1. upload' \in [Documents -> UploadPhase]
    BY <1>3 DEF UploadRefused, Recorded, TypeOK, UploadPhase
  <2>2. document' \in [Documents -> Document]
    BY <1>3, NewRows DEF UploadRefused, TypeOK
  <2>3. quarantine' \subseteq Documents
    BY <1>3 DEF UploadRefused, Recorded, TypeOK
  <2>. QED
    BY <1>3, <2>1, <2>2, <2>3
       DEF UploadRefused, TypeOK, rows, buckets, runs
<1>4. ASSUME NEW d \in Documents, UploadPublish(d) PROVE TypeOK'
  <2>1. upload' \in [Documents -> UploadPhase]
    BY <1>4 DEF UploadPublish, Published, TypeOK, UploadPhase
  <2>2. job' \in [Documents -> Job]
    BY <1>4, BoundsAssumption
       DEF UploadPublish, Published, TypeOK, JobsInOrder, Job, Runs, JobRow
  <2>. QED
    BY <1>4, <2>1, <2>2
       DEF UploadPublish, TypeOK, rows, buckets, runs
<1>5. ASSUME NEW d \in Documents, UploadUnpublished(d) PROVE TypeOK'
  <2>1. upload' \in [Documents -> UploadPhase]
    BY <1>5 DEF UploadUnpublished, Published, TypeOK, UploadPhase
  <2>2. job' \in [Documents -> Job]
    BY <1>5, NewRows DEF UploadUnpublished, TypeOK
  <2>. QED
    BY <1>5, <2>1, <2>2
       DEF UploadUnpublished, TypeOK, rows, buckets, runs
<1>6. ASSUME NEW d \in Documents, UploadMark(d) PROVE TypeOK'
  <2>1. upload' \in [Documents -> UploadPhase]
    BY <1>6 DEF UploadMark, TypeOK, UploadPhase
  <2>2. processing' \in [Documents -> Processing]
    <3>1. "MANUAL_REVIEW" \in ProcessingState BY DEF ProcessingState
    <3>2. CASE MayMove(processing[d].state, "MANUAL_REVIEW")
      BY <1>6, <3>1, <3>2, InStateRows DEF UploadMark
    <3>3. CASE ~MayMove(processing[d].state, "MANUAL_REVIEW")
      BY <1>6, <3>3 DEF UploadMark, TypeOK
    <3>. QED BY <3>2, <3>3
  <2>3. invoice' \in [Documents -> InvoiceStatus]
    BY <1>6 DEF UploadMark, TypeOK, InvoiceStatus
  <2>. QED
    BY <1>6, <2>1, <2>2, <2>3
       DEF UploadMark, TypeOK, rows, buckets, runs
<1>7. ASSUME NEW d \in Documents, UploadDies(d) PROVE TypeOK'
  <2>1. upload' \in [Documents -> UploadPhase]
    BY <1>7 DEF UploadDies, TypeOK, UploadPhase
  <2>2. deaths' \in 0..MaxDeaths
    BY <1>7, BoundsAssumption DEF UploadDies, TypeOK
  <2>. QED
    BY <1>7, <2>1, <2>2
       DEF UploadDies, TypeOK, rows, buckets, runs
<1>8. ASSUME NEW d \in Documents, Deliver(d) PROVE TypeOK'
  <2>1. job' \in [Documents -> Job]
    BY <1>8, BoundsAssumption DEF Deliver, TypeOK, JobsInOrder, Job, Runs, JobRow
  <2>2. phase' \in [Documents -> [Runs -> RunPhase]]
    BY <1>8, BoundsAssumption DEF Deliver, TypeOK, RunPhase, JobsInOrder, Runs, Job
  <2>3. last' \in [Documents -> SUBSET Runs]
    BY <1>8, BoundsAssumption DEF Deliver, TypeOK, Runs, JobsInOrder, Job
  <2>. QED
    BY <1>8, <2>1, <2>2, <2>3
       DEF Deliver, TypeOK, rows, buckets, runs
<1>9. ASSUME NEW d \in Documents, Stall(d) PROVE TypeOK'
  <2>1. job' \in [Documents -> Job]
    <3>1. CASE MayStall(d)
      BY <1>9, <3>1, BoundsAssumption DEF Stall, TypeOK, MayStall, JobRow, Job
    <3>2. CASE ~MayStall(d)
      BY <1>9, <3>2 DEF Stall, TypeOK, JobRow, Job
    <3>. QED BY <3>1, <3>2
  <2>. QED
    BY <1>9, <2>1
       DEF Stall, TypeOK, rows, buckets, runs
<1>10. ASSUME NEW d \in Documents, NEW n \in Runs, Load(d, n) PROVE TypeOK'
  <2>1. phase' \in [Documents -> [Runs -> RunPhase]]
    BY <1>10, MovesRun DEF Load, Settled, Goes, RunPhase
  <2>. QED
    BY <1>10, <2>1
       DEF Load, Goes, Moves, TypeOK, rows, buckets, runs
<1>11. ASSUME NEW d \in Documents, NEW n \in Runs, BeginScan(d, n) PROVE TypeOK'
  <2>1. phase' \in [Documents -> [Runs -> RunPhase]]
    BY <1>11, MovesRun DEF BeginScan, Does, Goes, RunPhase
  <2>2. processing' \in [Documents -> Processing]
    BY <1>11, InStateRows DEF BeginScan, TypeOK, ProcessingState, ScanResult, Processing
  <2>. QED
    BY <1>11, <2>1, <2>2
       DEF BeginScan, Does, Goes, Moves, TypeOK, rows, buckets, runs
<1>12. ASSUME NEW d \in Documents, NEW n \in Runs, Scan(d, n) PROVE TypeOK'
  <2>1. phase' \in [Documents -> [Runs -> RunPhase]]
    BY <1>12, MovesRun DEF Scan, Goes, RunPhase
  <2>. QED
    BY <1>12, <2>1
       DEF Scan, Goes, Moves, TypeOK, rows, buckets, runs
<1>13. ASSUME NEW d \in Documents, NEW n \in Runs, Block(d, n) PROVE TypeOK'
  <2>1. phase' \in [Documents -> [Runs -> RunPhase]]
    BY <1>13, MovesRun DEF Block, Does, Goes, RunPhase
  <2>2. document' \in [Documents -> Document]
    BY <1>13 DEF Block, TypeOK, Document, StorageState
  <2>3. processing' \in [Documents -> Processing]
    BY <1>13, InStateRows DEF Block, TypeOK, ProcessingState, ScanResult, Processing
  <2>4. invoice' \in [Documents -> InvoiceStatus]
    BY <1>13 DEF Block, TypeOK, InvoiceStatus
  <2>. QED
    BY <1>13, <2>1, <2>2, <2>3, <2>4
       DEF Block, Does, Goes, Moves, TypeOK, rows, buckets, runs
<1>14. ASSUME NEW d \in Documents, NEW n \in Runs, Copy(d, n) PROVE TypeOK'
  <2>1. phase' \in [Documents -> [Runs -> RunPhase]]
    BY <1>14, MovesRun DEF Copy, Does, Goes, RunPhase
  <2>2. copies' \in [Documents -> SUBSET Runs]
    BY <1>14 DEF Copy, TypeOK
  <2>. QED
    BY <1>14, <2>1, <2>2
       DEF Copy, Does, Goes, Moves, TypeOK, rows, buckets, runs
<1>15. ASSUME NEW d \in Documents, NEW n \in Runs, Match(d, n) PROVE TypeOK'
  <2>1. phase' \in [Documents -> [Runs -> RunPhase]]
    BY <1>15, MovesRun DEF Match, Twins, RunPhase
  <2>2. match' \in [Documents -> Documents \cup {None}]
    BY <1>15 DEF Match, Twins, TypeOK
  <2>. QED
    BY <1>15, <2>1, <2>2
       DEF Match, Moves, TypeOK, rows, buckets, runs
<1>16. ASSUME NEW d \in Documents, NEW n \in Runs, Promote(d, n) PROVE TypeOK'
  <2>1. phase' \in [Documents -> [Runs -> RunPhase]]
    BY <1>16, MovesRun DEF Promote, Does, Goes, RunPhase
  <2>2. document' \in [Documents -> Document]
    BY <1>16 DEF Promote, TypeOK, Document, StorageState
  <2>3. processing' \in [Documents -> Processing]
    BY <1>16, InStateRows DEF Promote, TypeOK, ProcessingState, ScanResult, Processing
  <2>. QED
    BY <1>16, <2>1, <2>2, <2>3
       DEF Promote, Does, Goes, Moves, TypeOK, rows, buckets, runs
<1>17. ASSUME NEW d \in Documents, NEW n \in Runs, PromoteRefused(d, n) PROVE TypeOK'
  <2>1. phase' \in [Documents -> [Runs -> RunPhase]]
    BY <1>17, MovesRun DEF PromoteRefused, Goes, RunPhase
  <2>2. copies' \in [Documents -> SUBSET Runs]
    BY <1>17 DEF PromoteRefused, TypeOK
  <2>. QED
    BY <1>17, <2>1, <2>2
       DEF PromoteRefused, Goes, Moves, TypeOK, rows, buckets, runs
<1>18. ASSUME NEW d \in Documents, NEW n \in Runs, DeleteQuarantined(d, n) PROVE TypeOK'
  <2>1. phase' \in [Documents -> [Runs -> RunPhase]]
    BY <1>18, MovesRun DEF DeleteQuarantined, Does, Goes, RunPhase
  <2>2. quarantine' \subseteq Documents
    BY <1>18 DEF DeleteQuarantined, TypeOK
  <2>. QED
    BY <1>18, <2>1, <2>2
       DEF DeleteQuarantined, Does, Goes, Moves, TypeOK, rows, buckets, runs
<1>19. ASSUME NEW d \in Documents, NEW n \in Runs, TakeUp(d, n) PROVE TypeOK'
  <2>1. phase' \in [Documents -> [Runs -> RunPhase]]
    BY <1>19, MovesRun DEF TakeUp, Does, Goes, RunPhase
  <2>2. processing' \in [Documents -> Processing]
    BY <1>19, InStateRows DEF TakeUp, TypeOK, ProcessingState, ScanResult, Processing
  <2>. QED
    BY <1>19, <2>1, <2>2
       DEF TakeUp, Does, Goes, Moves, TypeOK, rows, buckets, runs
<1>20. ASSUME NEW d \in Documents, NEW n \in Runs, Extract(d, n) PROVE TypeOK'
  <2>1. phase' \in [Documents -> [Runs -> RunPhase]]
    BY <1>20, MovesRun DEF Extract, Goes, RunPhase
  <2>. QED
    BY <1>20, <2>1
       DEF Extract, Goes, Moves, TypeOK, rows, buckets, runs
<1>21. ASSUME NEW d \in Documents, NEW n \in Runs, Finish(d, n) PROVE TypeOK'
  <2>1. phase' \in [Documents -> [Runs -> RunPhase]]
    BY <1>21, MovesRun DEF Finish, Does, Goes, RunPhase
  <2>2. processing' \in [Documents -> Processing]
    BY <1>21, InStateRows DEF Finish, TypeOK, ProcessingState, ScanResult, Processing
  <2>3. invoice' \in [Documents -> InvoiceStatus]
    BY <1>21 DEF Finish, TypeOK, InvoiceStatus
  <2>. QED
    BY <1>21, <2>1, <2>2, <2>3
       DEF Finish, Does, Goes, Moves, TypeOK, rows, buckets, runs
<1>22. ASSUME NEW d \in Documents, NEW n \in Runs, Refused(d, n) PROVE TypeOK'
  <2>1. phase' \in [Documents -> [Runs -> RunPhase]]
    BY <1>22, MovesRun DEF Refused, Target, Goes, RunPhase
  <2>. QED
    BY <1>22, <2>1
       DEF Refused, Goes, Moves, TypeOK, rows, buckets, runs
<1>23. ASSUME NEW d \in Documents, NEW n \in Runs, ResetForRetry(d, n) PROVE TypeOK'
  <2>1. phase' \in [Documents -> [Runs -> RunPhase]]
    BY <1>23, MovesRun DEF ResetForRetry, Goes, RunPhase
  <2>2. processing' \in [Documents -> Processing]
    BY <1>23, InStateRows
       DEF ResetForRetry, TypeOK, ProcessingState, ScanResult, Processing
  <2>. QED
    BY <1>23, <2>1, <2>2
       DEF ResetForRetry, Goes, Moves, TypeOK, rows, buckets, runs
<1>24. ASSUME NEW d \in Documents, NEW n \in Runs, ManualReview(d, n) PROVE TypeOK'
  <2>1. phase' \in [Documents -> [Runs -> RunPhase]]
    BY <1>24, MovesRun DEF ManualReview, Goes, RunPhase
  <2>2. processing' \in [Documents -> Processing]
    BY <1>24, InStateRows
       DEF ManualReview, TypeOK, ProcessingState, ScanResult, Processing
  <2>. QED
    BY <1>24, <2>1, <2>2
       DEF ManualReview, Goes, Moves, TypeOK, rows, buckets, runs
<1>25. ASSUME NEW d \in Documents, NEW n \in Runs, MarkInvoice(d, n) PROVE TypeOK'
  <2>1. phase' \in [Documents -> [Runs -> RunPhase]]
    BY <1>25, MovesRun DEF MarkInvoice, Goes, RunPhase
  <2>2. invoice' \in [Documents -> InvoiceStatus]
    BY <1>25 DEF MarkInvoice, TypeOK, InvoiceStatus
  <2>. QED
    BY <1>25, <2>1, <2>2
       DEF MarkInvoice, Goes, Moves, TypeOK, rows, buckets, runs
<1>26. ASSUME NEW d \in Documents, NEW n \in Runs, Fails(d, n) PROVE TypeOK'
  <2>1. phase' \in [Documents -> [Runs -> RunPhase]]
    BY <1>26, MovesRun DEF Fails, Goes, RunPhase
  <2>. QED
    BY <1>26, <2>1
       DEF Fails, Goes, Moves, TypeOK, rows, buckets, runs
<1>27. ASSUME NEW d \in Documents, NEW n \in Runs, Report(d, n) PROVE TypeOK'
  <2>1. phase' \in [Documents -> [Runs -> RunPhase]]
    BY <1>27 DEF Report, TypeOK, RunPhase
  <2>2. job' \in [Documents -> Job]
    <3>1. job[d].failures \in 0..Attempts /\ job[d].stalls \in 0..MaxStalled
      BY DEF TypeOK, Job
    <3>2. CASE job[d].state = "active" /\ n = job[d].started /\ phase[d][n] = "succeeded"
      <4>1. JobRow("completed", job[d].failures, job[d].stalls, n) \in Job
        BY <3>1, BoundsAssumption DEF JobRow, Job, Runs
      <4>2. job' = [job EXCEPT ![d] =
                      JobRow("completed", job[d].failures, job[d].stalls, n)]
        BY <1>27, <3>2 DEF Report
      <4>. QED BY <4>1, <4>2 DEF TypeOK
    <3>3. CASE job[d].state = "active" /\ n = job[d].started /\ phase[d][n] # "succeeded"
      <4>1. job[d].failures + 1 \in 0..Attempts
        BY <3>1, <3>3, BoundsAssumption DEF JobsInOrder
      <4>2. ASSUME NEW s \in {"waiting", "failed"}
            PROVE  JobRow(s, job[d].failures + 1, job[d].stalls, n) \in Job
        BY <3>1, <4>1, BoundsAssumption DEF JobRow, Job, Runs
      <4>3. \E s \in {"waiting", "failed"} :
              job' = [job EXCEPT ![d] =
                        JobRow(s, job[d].failures + 1, job[d].stalls, n)]
        BY <1>27, <3>3 DEF Report
      <4>. QED BY <4>2, <4>3 DEF TypeOK
    <3>4. CASE ~(job[d].state = "active" /\ n = job[d].started)
      BY <1>27, <3>4 DEF Report, TypeOK
    <3>. QED BY <3>2, <3>3, <3>4
  <2>. QED
    BY <1>27, <2>1, <2>2
       DEF Report, TypeOK, rows, buckets, runs
<1>28. ASSUME NEW d \in Documents, NEW n \in Runs, RunDies(d, n) PROVE TypeOK'
  <2>1. phase' \in [Documents -> [Runs -> RunPhase]]
    BY <1>28 DEF RunDies, TypeOK, RunPhase
  <2>2. deaths' \in 0..MaxDeaths
    BY <1>28, BoundsAssumption DEF RunDies, TypeOK
  <2>. QED
    BY <1>28, <2>1, <2>2
       DEF RunDies, TypeOK, rows, buckets, runs
<1>29. CASE UNCHANGED vars
  BY <1>29 DEF TypeOK, rows, buckets, runs, vars
<1>. QED
  BY <1>1, <1>2, <1>3, <1>4, <1>5, <1>6, <1>7, <1>8, <1>9, <1>10, <1>11, <1>12, <1>13,
     <1>14, <1>15, <1>16, <1>17, <1>18, <1>19, <1>20, <1>21, <1>22, <1>23, <1>24, <1>25,
     <1>26, <1>27, <1>28, <1>29, [Next]_vars DEF Next, Uploading, Working

-----------------------------------------------------------------------------
(* What writing a whole job row leaves in it.                               *)
LEMMA JobWritten ==
  ASSUME TypeOK, NEW d \in Documents, NEW s, NEW f, NEW t, NEW k,
         job' = [job EXCEPT ![d] = JobRow(s, f, t, k)]
  PROVE  /\ job'[d].state = s
         /\ job'[d].failures = f
         /\ job'[d].stalls = t
         /\ job'[d].started = k
         /\ \A e \in Documents : e # d => job'[e] = job[e]
  BY DEF TypeOK, JobRow

(* A run touches neither the upload nor the job; only its report does.      *)
LEMMA RunKeepsJob ==
  ASSUME NEW d \in Documents, NEW n \in Runs,
         Working(d, n) \/ Fails(d, n) \/ RunDies(d, n)
  PROVE  UNCHANGED <<content, upload, job>>
  BY DEF Working, Fails, RunDies, Load, BeginScan, Scan, Block, Copy, Match,
     Promote, PromoteRefused, DeleteQuarantined, TakeUp, Extract, Finish, Refused,
     ResetForRetry, ManualReview, MarkInvoice, Does, Goes, Moves

(* Every step keeps JobsInOrder: uploads publish once, and deliveries are   *)
(* counted.                                                                 *)
LEMMA NextJobs ==
  ASSUME TypeOK, JobsInOrder, RowsInOrder, [Next]_vars
  PROVE  JobsInOrder'
<1> USE TypeOK, JobsInOrder DEF JobsInOrder
<1>1. ASSUME NEW d \in Documents,
             \/ UploadStore(d) \/ UploadCommit(d) \/ UploadRefused(d)
             \/ UploadMark(d) \/ UploadDies(d)
      PROVE  JobsInOrder'
  BY <1>1 DEF UploadStore, UploadCommit, UploadRefused, UploadMark, UploadDies, TypeOK
<1>2. ASSUME NEW d \in Documents, UploadPublish(d) PROVE JobsInOrder'
  BY <1>2, BoundsAssumption DEF UploadPublish, Published, JobRow, TypeOK
<1>3. ASSUME NEW d \in Documents, UploadUnpublished(d) PROVE JobsInOrder'
  <2>1. CASE job' = job
    BY <1>3, <2>1 DEF UploadUnpublished, TypeOK
  <2>2. CASE job' = Published(d)
    BY <1>3, <2>2, BoundsAssumption DEF UploadUnpublished, Published, JobRow, TypeOK
  <2>. QED BY <1>3, <2>1, <2>2 DEF UploadUnpublished
<1>4. ASSUME NEW d \in Documents, Deliver(d) PROVE JobsInOrder'
  BY <1>4 DEF Deliver, JobRow, TypeOK, Job
<1>5. ASSUME NEW d \in Documents, Stall(d) PROVE JobsInOrder'
  <2>1. CASE MayStall(d)
    <3>1. job' = [job EXCEPT ![d] = JobRow("waiting", job[d].failures,
                                           job[d].stalls + 1, job[d].started)]
      BY <1>5, <2>1 DEF Stall
    <3>2. job[d] \in Job
      BY DEF TypeOK
    <3>3. /\ job'[d].state = "waiting"
          /\ job'[d].failures = job[d].failures
          /\ job'[d].stalls = job[d].stalls + 1
          /\ job'[d].started = job[d].started
          /\ \A e \in Documents : e # d => job'[e] = job[e]
      BY <3>1, JobWritten
    <3>4. job[d].started = job[d].failures + job[d].stalls + 1
      BY <1>5 DEF Stall
    <3>5. job'[d].started = job'[d].failures + job'[d].stalls
      BY <3>2, <3>3, <3>4 DEF Job
    <3>6. /\ upload' = upload
          /\ job[d].state = "active"
      BY <1>5 DEF Stall
    <3>. QED BY <3>3, <3>5, <3>6
  <2>2. CASE ~MayStall(d)
    BY <1>5, <2>2 DEF Stall, JobRow, TypeOK, Job
  <2>. QED BY <2>1, <2>2
<1>6. ASSUME NEW d \in Documents, NEW n \in Runs, Report(d, n) PROVE JobsInOrder'
  <2>1. CASE job[d].state = "active" /\ n = job[d].started /\ phase[d][n] = "succeeded"
    <3>1. job' = [job EXCEPT ![d] =
                    JobRow("completed", job[d].failures, job[d].stalls, n)]
      BY <1>6, <2>1 DEF Report
    <3>. QED BY <1>6, <2>1, <3>1 DEF Report, JobRow, TypeOK
  <2>2. CASE job[d].state = "active" /\ n = job[d].started /\ phase[d][n] # "succeeded"
    <3> DEFINE s == IF job[d].failures + 1 < Attempts THEN "waiting" ELSE "failed"
    <3>1. job' = [job EXCEPT ![d] = JobRow(s, job[d].failures + 1, job[d].stalls, n)]
      BY <1>6, <2>2 DEF Report
    <3>6. s = "waiting" => job[d].failures + 1 < Attempts
      OBVIOUS
    <3>7. s \in {"waiting", "failed"}
      OBVIOUS
    <3> HIDE DEF s
    <3>2. job[d] \in Job
      BY DEF TypeOK
    <3>3. job[d].started = (job[d].failures + 1) + job[d].stalls
      BY <2>2, <3>2 DEF Job
    <3>4. /\ job'[d].state = s
          /\ job'[d].failures = job[d].failures + 1
          /\ job'[d].stalls = job[d].stalls
          /\ job'[d].started = n
          /\ \A e \in Documents : e # d => job'[e] = job[e]
      BY <3>1, JobWritten
    <3>5. upload' = upload
      BY <1>6 DEF Report
    <3>. QED BY <2>2, <3>3, <3>4, <3>5, <3>6, <3>7
  <2>3. CASE ~(job[d].state = "active" /\ n = job[d].started)
    BY <1>6, <2>3 DEF Report, TypeOK
  <2>. QED BY <2>1, <2>2, <2>3
<1>7. ASSUME NEW d \in Documents, NEW n \in Runs,
             Working(d, n) \/ Fails(d, n) \/ RunDies(d, n)
      PROVE  UNCHANGED <<content, upload, job>>
  BY <1>7, RunKeepsJob
<1>8. CASE UNCHANGED <<upload, job>>
  BY <1>8
<1>. QED
  BY <1>1, <1>2, <1>3, <1>4, <1>5, <1>6, <1>7, <1>8, [Next]_vars DEF Next, Uploading, vars

-----------------------------------------------------------------------------
(* A row of the Document table.                                             *)
Row(storage, key, duplicateOf) ==
  [storage |-> storage, key |-> key, duplicateOf |-> duplicateOf]

(* A row of the DocumentProcessing table.                                   *)
Verdict(state, scan) == [state |-> state, scan |-> scan]

(* The three rows of document d are written.                                *)
Writes(d, doc, verdict, status) ==
  /\ document' = [document EXCEPT ![d] = doc]
  /\ processing' = [processing EXCEPT ![d] = verdict]
  /\ invoice' = [invoice EXCEPT ![d] = status]

(* The trigger lets document d get to state s.                              *)
May(d, s) == MayMove(processing[d].state, s)

(* All the ways in which the three tables are written, by an upload of d or *)
(* by run n of d: one disjunct per statement or transaction of the code.    *)
WritesRow(d, n) ==
  LET doc == document[d]
      scan == processing[d].scan
  IN
  \/ /\ upload[d] = "stored"
     /\ upload'[d] \in {"committed", "ended"}
     /\ Writes(d, Row("QUARANTINED", None, None), processing[d], invoice[d])
  \/ /\ upload[d] = "unpublished"
     /\ May(d, "MANUAL_REVIEW")
     /\ Writes(d, doc, Verdict("MANUAL_REVIEW", scan), "MANUAL_REVIEW")
  \/ /\ phase[d][n] = "quarantined"
     /\ May(d, "SCANNING")
     /\ Writes(d, doc, Verdict("SCANNING", scan), invoice[d])
  \/ /\ phase[d][n] = "infected"
     /\ May(d, "BLOCKED")
     /\ Writes(d, Row("BLOCKED", doc.key, doc.duplicateOf),
               Verdict("BLOCKED", "INFECTED"), "BLOCKED")
  \/ /\ phase[d][n] = "matched"
     /\ doc.key = None
     /\ May(d, "PARSED")
     /\ phase'[d][n] # "matched"
     /\ copies' = copies
     /\ Writes(d, Row("APPROVED", n, match[d]), Verdict("PARSED", "CLEAN"), invoice[d])
  \/ /\ phase[d][n] = "approved"
     /\ May(d, "PARSED")
     /\ Writes(d, doc, Verdict("PARSED", "CLEAN"), invoice[d])
  \/ /\ phase[d][n] = "extracted"
     /\ May(d, "NEEDS_REVIEW")
     /\ Writes(d, doc, Verdict("NEEDS_REVIEW", scan), "NEEDS_REVIEW")
  \/ /\ phase[d][n] = "caught"
     /\ doc.storage = "APPROVED"
     /\ May(d, "PARSED")
     /\ Writes(d, doc, Verdict("PARSED", scan), invoice[d])
  \/ /\ phase[d][n] = "caught"
     /\ doc.storage # "APPROVED"
     /\ May(d, "QUARANTINED")
     /\ Writes(d, doc, Verdict("QUARANTINED", scan), invoice[d])
  \/ /\ phase[d][n] = "caught"
     /\ processing[d].state \notin {"NEEDS_REVIEW", "BLOCKED"}
     /\ Writes(d, doc, Verdict("MANUAL_REVIEW", IF scan = "PENDING" THEN "ERROR" ELSE scan),
               invoice[d])
  \/ /\ phase[d][n] = "marking"
     /\ invoice[d] = "PROCESSING"
     /\ Writes(d, doc, processing[d], "MANUAL_REVIEW")

(* Writing what is there changes nothing.                                   *)
LEMMA Unwritten ==
  ASSUME TypeOK, NEW d \in Documents
  PROVE  /\ document = [document EXCEPT ![d] = document[d]]
         /\ processing = [processing EXCEPT ![d] = processing[d]]
         /\ invoice = [invoice EXCEPT ![d] = invoice[d]]
  BY DEF TypeOK

(* Every step leaves the tables alone or writes them in one of those ways.  *)
LEMMA StepWrites ==
  ASSUME TypeOK, [Next]_vars
  PROVE  UNCHANGED rows \/ \E d \in Documents, n \in Runs : WritesRow(d, n)
<1> USE TypeOK DEF rows
<1> DEFINE Goal == UNCHANGED rows \/ \E d \in Documents, n \in Runs : WritesRow(d, n)
<1>0. 1 \in Runs
  BY BoundsAssumption DEF Runs
<1>1. ASSUME NEW d \in Documents, UploadCommit(d) \/ UploadRefused(d) PROVE Goal
  <2>1. CASE document' = Recorded(d)
    <3>1. upload'[d] \in {"committed", "ended"}
      BY <1>1 DEF UploadCommit, UploadRefused, TypeOK
    <3>2. WritesRow(d, 1)
      BY <1>1, <2>1, <3>1, Unwritten
         DEF UploadCommit, UploadRefused, Recorded, WritesRow, Writes, Row
    <3>. QED BY <3>2, <1>0
  <2>2. CASE document' = document
    BY <1>1, <2>2 DEF UploadCommit, UploadRefused
  <2>. QED BY <1>1, <2>1, <2>2 DEF UploadCommit, UploadRefused
<1>2. ASSUME NEW d \in Documents, UploadMark(d) PROVE Goal
  <2>1. CASE May(d, "MANUAL_REVIEW")
    <3>1. WritesRow(d, 1)
      BY <1>2, <2>1, Unwritten DEF UploadMark, May, InState, WritesRow, Writes, Verdict
    <3>. QED BY <3>1, <1>0
  <2>2. CASE ~May(d, "MANUAL_REVIEW")
    BY <1>2, <2>2 DEF UploadMark, May
  <2>. QED BY <2>1, <2>2
<1>3. ASSUME NEW d \in Documents, NEW n \in Runs, BeginScan(d, n) PROVE WritesRow(d, n)
  BY <1>3, Unwritten DEF BeginScan, Does, Goes, Moves, May, InState, WritesRow, Writes, Verdict
<1>4. ASSUME NEW d \in Documents, NEW n \in Runs, Block(d, n) PROVE WritesRow(d, n)
  BY <1>4 DEF Block, Does, Goes, Moves, May, WritesRow, Writes, Row, Verdict
<1>5. ASSUME NEW d \in Documents, NEW n \in Runs, Promote(d, n) PROVE WritesRow(d, n)
  <2>1. phase[d][n] = "matched" /\ phase'[d][n] # "matched"
    BY <1>5 DEF Promote, Does, Goes, Moves, TypeOK
  <2>. QED
    BY <1>5, <2>1, Unwritten
       DEF Promote, buckets, Promotes, KeyUnset, May, WritesRow, Writes, Row, Verdict
<1>6. ASSUME NEW d \in Documents, NEW n \in Runs, TakeUp(d, n) PROVE WritesRow(d, n)
  BY <1>6, Unwritten DEF TakeUp, Does, Goes, Moves, May, WritesRow, Writes, Verdict
<1>7. ASSUME NEW d \in Documents, NEW n \in Runs, Finish(d, n) PROVE WritesRow(d, n)
  BY <1>7, Unwritten DEF Finish, Does, Goes, Moves, May, InState, WritesRow, Writes, Verdict
<1>8. ASSUME NEW d \in Documents, NEW n \in Runs, ResetForRetry(d, n) PROVE Goal
  <2> DEFINE new == IF document[d].storage = "APPROVED" THEN "PARSED" ELSE "QUARANTINED"
  <2>1. CASE May(d, new)
    <3>1. WritesRow(d, n)
      BY <1>8, <2>1, Unwritten
         DEF ResetForRetry, Goes, Moves, May, InState, WritesRow, Writes, Verdict
    <3>. QED BY <3>1
  <2>2. CASE ~May(d, new)
    BY <1>8, <2>2 DEF ResetForRetry, May
  <2>. QED BY <2>1, <2>2
<1>9. ASSUME NEW d \in Documents, NEW n \in Runs, ManualReview(d, n) PROVE Goal
  <2>1. CASE processing[d].state \notin {"NEEDS_REVIEW", "BLOCKED"}
    <3>1. WritesRow(d, n)
      BY <1>9, <2>1, Unwritten DEF ManualReview, Goes, Moves, WritesRow, Writes, Verdict
    <3>. QED BY <3>1
  <2>2. CASE processing[d].state \in {"NEEDS_REVIEW", "BLOCKED"}
    BY <1>9, <2>2 DEF ManualReview
  <2>. QED BY <2>1, <2>2
<1>10. ASSUME NEW d \in Documents, NEW n \in Runs, MarkInvoice(d, n) PROVE Goal
  <2>1. CASE invoice[d] = "PROCESSING"
    <3>1. WritesRow(d, n)
      BY <1>10, <2>1, Unwritten
         DEF MarkInvoice, StillProcessing, Goes, Moves, WritesRow, Writes
    <3>. QED BY <3>1
  <2>2. CASE invoice[d] # "PROCESSING"
    BY <1>10, <2>2 DEF MarkInvoice, StillProcessing
  <2>. QED BY <2>1, <2>2
<1>11. ASSUME NEW d \in Documents,
              \/ UploadStore(d) \/ UploadPublish(d) \/ UploadUnpublished(d) \/ UploadDies(d)
              \/ Deliver(d) \/ Stall(d)
       PROVE  UNCHANGED rows
  BY <1>11 DEF UploadStore, UploadPublish, UploadUnpublished, UploadDies, Deliver, Stall
<1>12. ASSUME NEW d \in Documents, NEW n \in Runs,
              \/ Load(d, n) \/ Scan(d, n) \/ Copy(d, n) \/ Match(d, n)
              \/ PromoteRefused(d, n) \/ DeleteQuarantined(d, n) \/ Extract(d, n)
              \/ Refused(d, n) \/ Fails(d, n) \/ Report(d, n) \/ RunDies(d, n)
       PROVE  UNCHANGED rows
  BY <1>12 DEF Load, Scan, Copy, Match, PromoteRefused, DeleteQuarantined, Extract, Refused,
     Fails, Report, RunDies
<1>13. CASE UNCHANGED vars
  BY <1>13 DEF vars
<1> HIDE DEF rows
<1>. QED
  BY <1>1, <1>2, <1>3, <1>4, <1>5, <1>6, <1>7, <1>8, <1>9, <1>10, <1>11, <1>12, <1>13,
     [Next]_vars DEF Next, Uploading, Working

-----------------------------------------------------------------------------
(* What the tables hold after a write.                                      *)
LEMMA Written ==
  ASSUME TypeOK, NEW d \in Documents, NEW doc, NEW verdict, NEW status,
         Writes(d, doc, verdict, status)
  PROVE  /\ document'[d] = doc
         /\ processing'[d] = verdict
         /\ invoice'[d] = status
         /\ \A e \in Documents : e # d => /\ document'[e] = document[e]
                                          /\ processing'[e] = processing[e]
                                          /\ invoice'[e] = invoice[e]
  BY DEF TypeOK, Writes

(* The trigger on DocumentProcessing, state by state.                       *)
LEMMA Allowed ==
  ASSUME NEW d \in Documents
  PROVE  /\ May(d, "SCANNING") <=> processing[d].state \in {"QUARANTINED", "SCANNING"}
         /\ May(d, "QUARANTINED") <=> processing[d].state \in {"QUARANTINED", "SCANNING"}
         /\ May(d, "PARSED") <=> processing[d].state \in {"SCANNING", "PARSED"}
         /\ May(d, "BLOCKED") <=> processing[d].state \in {"SCANNING", "BLOCKED"}
         /\ May(d, "NEEDS_REVIEW") <=> processing[d].state \in {"PARSED", "NEEDS_REVIEW"}
         /\ May(d, "MANUAL_REVIEW") <=>
              processing[d].state \in {"QUARANTINED", "SCANNING", "PARSED", "MANUAL_REVIEW"}
  BY DEF May, MayMove, Transitions

(* A copy in the approved bucket goes only when its own run, refused by the *)
(* trigger, deletes it; that step writes no row (the cleanup after a        *)
(* rollback).                                                               *)
LEMMA StepCopies ==
  ASSUME TypeOK, [Next]_vars, NEW e \in Documents, NEW k \in copies[e]
  PROVE  \/ k \in copies'[e]
         \/ phase[e][k] = "matched" /\ phase'[e][k] = "caught" /\ document' = document
<1> USE TypeOK
<1>1. ASSUME NEW d \in Documents, NEW n \in Runs, Copy(d, n) PROVE k \in copies'[e]
  BY <1>1 DEF Copy, TypeOK
<1>2. ASSUME NEW d \in Documents, NEW n \in Runs, PromoteRefused(d, n)
      PROVE  \/ k \in copies'[e]
             \/ phase[e][k] = "matched" /\ phase'[e][k] = "caught" /\ document' = document
  <2>1. CASE copies' = copies
    BY <2>1
  <2>2. CASE copies' = [copies EXCEPT ![d] = @ \ {n}]
    BY <1>2, <2>2 DEF PromoteRefused, Goes, Moves, TypeOK, rows
  <2>. QED BY <1>2, <2>1, <2>2 DEF PromoteRefused
<1>3. ASSUME NEW d \in Documents,
             \/ UploadStore(d) \/ Uploading(d) \/ UploadDies(d) \/ Deliver(d) \/ Stall(d)
      PROVE  copies' = copies
  BY <1>3 DEF UploadStore, Uploading, UploadCommit, UploadRefused, UploadPublish,
     UploadUnpublished, UploadMark, UploadDies, Deliver, Stall, buckets
<1>4. ASSUME NEW d \in Documents, NEW n \in Runs,
             \/ Working(d, n) /\ ~Copy(d, n) /\ ~PromoteRefused(d, n)
             \/ Fails(d, n) \/ Report(d, n) \/ RunDies(d, n)
      PROVE  copies' = copies
  BY <1>4 DEF Working, Load, BeginScan, Scan, Block, Match, Promote, DeleteQuarantined,
     TakeUp, Extract, Finish, Refused, ResetForRetry, ManualReview, MarkInvoice, Fails,
     Report, RunDies, buckets
<1>5. CASE UNCHANGED vars
  BY <1>5 DEF vars, buckets
<1>. QED
  BY <1>1, <1>2, <1>3, <1>4, <1>5, [Next]_vars DEF Next, Working

(* Every step keeps StorageAgrees: promotion and blocking are one           *)
(* transaction each, and no trigger lets one follow the other.              *)
LEMMA NextStorage ==
  ASSUME TypeOK, RowsInOrder, RunsInOrder, StorageAgrees, [Next]_vars
  PROVE  StorageAgrees'
<1> USE TypeOK DEF StorageAgrees
<1>1. SUFFICES ASSUME NEW e \in Documents
               PROVE  /\ document'[e].storage = "APPROVED" <=> document'[e].key # None
                      /\ processing'[e].scan = "CLEAN" <=> document'[e].key # None
                      /\ document'[e].key # None => document'[e].key \in copies'[e]
                      /\ document'[e].storage = "BLOCKED" <=> processing'[e].scan = "INFECTED"
                      /\ processing'[e].state = "BLOCKED" <=> processing'[e].scan = "INFECTED"
                      /\ processing'[e].state \in {"PARSED", "NEEDS_REVIEW"} =>
                           document'[e].key # None
  OBVIOUS
<1>2. document[e].key # None => document[e].key \in copies'[e]
  <2>1. SUFFICES ASSUME document[e].key # None PROVE document[e].key \in copies'[e]
    OBVIOUS
  <2>2. document[e].key \in copies[e] /\ document[e].key \in Runs
    BY <2>1 DEF TypeOK
  <2>3. phase[e][document[e].key] # "matched"
    BY <2>2 DEF RunsInOrder, Unpromoted
  <2>. QED BY <2>2, <2>3, StepCopies
<1>3. CASE UNCHANGED rows
  BY <1>2, <1>3 DEF rows
<1>4. ASSUME NEW d \in Documents, NEW n \in Runs, WritesRow(d, n)
      PROVE  /\ document'[e].storage = "APPROVED" <=> document'[e].key # None
             /\ processing'[e].scan = "CLEAN" <=> document'[e].key # None
             /\ document'[e].key # None => document'[e].key \in copies'[e]
             /\ document'[e].storage = "BLOCKED" <=> processing'[e].scan = "INFECTED"
             /\ processing'[e].state = "BLOCKED" <=> processing'[e].scan = "INFECTED"
             /\ processing'[e].state \in {"PARSED", "NEEDS_REVIEW"} =>
                  document'[e].key # None
  <2>1. CASE e # d
    BY <1>2, <1>4, <2>1, Written DEF WritesRow
  <2>2. CASE e = d
    BY <1>2, <1>4, <2>2, Written, Allowed, NoneAssumption
       DEF WritesRow, Row, Verdict, RowsInOrder, RunsInOrder
  <2>. QED BY <2>1, <2>2
<1>. QED BY <1>3, <1>4, StepWrites

(* Every step keeps InvoiceAgrees: the transactions that settle a document  *)
(* set its invoice, and the statement on its own, after manualReview, asks  *)
(* for PROCESSING.                                                          *)
LEMMA NextInvoice ==
  ASSUME TypeOK, RowsInOrder, RunsInOrder, InvoiceAgrees, [Next]_vars
  PROVE  InvoiceAgrees'
<1> USE TypeOK DEF InvoiceAgrees
<1>1. CASE UNCHANGED rows
  BY <1>1 DEF rows
<1>2. ASSUME NEW d \in Documents, NEW n \in Runs, WritesRow(d, n), NEW e \in Documents
      PROVE  IF invoice'[e] = "PROCESSING"
             THEN processing'[e].state \notin {"NEEDS_REVIEW", "BLOCKED"}
             ELSE invoice'[e] = processing'[e].state
  <2>1. CASE e # d
    BY <1>2, <2>1, Written DEF WritesRow
  <2>2. CASE e = d
    <3>1. invoice[d] \in InvoiceStatus
      BY DEF TypeOK
    <3>. QED
      BY <1>2, <2>2, <3>1, Written, Allowed
         DEF WritesRow, Verdict, InvoiceStatus, RunsInOrder, Settled
  <2>. QED BY <2>1, <2>2
<1>. QED BY <1>1, <1>2, StepWrites

-----------------------------------------------------------------------------
(* A run has a document to work on: jobs are published after the rows are   *)
(* there.                                                                   *)
LEMMA RunHasRow ==
  ASSUME TypeOK, JobsInOrder, RowsInOrder, RunsInOrder,
         NEW d \in Documents, NEW n \in Runs, phase[d][n] # "idle"
  PROVE  document[d].storage # "ABSENT"
<1>1. job[d].started # 0
  <2>1. ~(n > job[d].started)
    BY DEF RunsInOrder
  <2>. QED BY <2>1, BoundsAssumption DEF Runs
<1>2. job[d].state # "none"
  BY <1>1 DEF JobsInOrder
<1>. QED BY <1>2 DEF RowsInOrder

(* What a step may do to a document's rows: a key and a mark stay once      *)
(* given, a key comes only from the promotion of its own run, a settled     *)
(* state is never left.                                                     *)
LEMMA DocumentKept ==
  ASSUME TypeOK, JobsInOrder, RowsInOrder, RunsInOrder, StorageAgrees, [Next]_vars,
         NEW e \in Documents
  PROVE  /\ document[e].key # None => /\ document'[e].key = document[e].key
                                      /\ document'[e].duplicateOf = document[e].duplicateOf
         /\ processing[e].state \in Settled => processing'[e].state \in Settled
         /\ document[e].storage # "ABSENT" => document'[e].storage # "ABSENT"
         /\ document'[e].storage = "ABSENT" =>
              UNCHANGED <<document[e], processing[e], invoice[e]>>
         /\ document[e].storage = "ABSENT" =>
              document'[e].storage = "ABSENT" \/ upload'[e] \in {"committed", "ended"}
         /\ \A n \in Runs : document'[e].key = n =>
              \/ document[e].key = n
              \/ /\ phase[e][n] = "matched" /\ phase'[e][n] # "matched"
                 /\ document'[e].duplicateOf = match[e]
         /\ document'[e].key = None => document'[e].duplicateOf = None
         /\ processing'[e].state \in {"QUARANTINED", "SCANNING"} =>
              processing[e].state \in {"QUARANTINED", "SCANNING"} /\ document'[e].key = None
<1> USE TypeOK DEF RowsInOrder
<1> DEFINE Goal ==
         /\ document[e].key # None => /\ document'[e].key = document[e].key
                                      /\ document'[e].duplicateOf = document[e].duplicateOf
         /\ processing[e].state \in Settled => processing'[e].state \in Settled
         /\ document[e].storage # "ABSENT" => document'[e].storage # "ABSENT"
         /\ document'[e].storage = "ABSENT" =>
              UNCHANGED <<document[e], processing[e], invoice[e]>>
         /\ document[e].storage = "ABSENT" =>
              document'[e].storage = "ABSENT" \/ upload'[e] \in {"committed", "ended"}
         /\ \A n \in Runs : document'[e].key = n =>
              \/ document[e].key = n
              \/ /\ phase[e][n] = "matched" /\ phase'[e][n] # "matched"
                 /\ document'[e].duplicateOf = match[e]
         /\ document'[e].key = None => document'[e].duplicateOf = None
         /\ processing'[e].state \in {"QUARANTINED", "SCANNING"} =>
              processing[e].state \in {"QUARANTINED", "SCANNING"} /\ document'[e].key = None
<1>1. CASE UNCHANGED rows
  BY <1>1 DEF rows
<1>2. ASSUME NEW d \in Documents, NEW n \in Runs, WritesRow(d, n)
      PROVE  Goal
  <2>1. CASE e # d
    <3>1. UNCHANGED <<document[e], processing[e], invoice[e]>>
      BY <1>2, <2>1, Written DEF WritesRow
    <3>. QED BY <3>1
  <2>2. CASE e = d
    <3>1. document[d] \in Document
      BY DEF TypeOK
    <3>2. phase[d][n] # "idle" => document[d].storage # "ABSENT"
      BY RunHasRow
    <3>. QED
      BY <1>2, <2>2, <3>1, <3>2, Written, Allowed, NoneAssumption
         DEF WritesRow, Row, Verdict, Settled, StorageAgrees, Document
  <2>. QED BY <2>1, <2>2
<1>. QED BY <1>1, <1>2, StepWrites

(* Every step keeps RowsInOrder: rows first, then the job, then the work.   *)
LEMMA NextRows ==
  ASSUME TypeOK, JobsInOrder, RowsInOrder, RunsInOrder, StorageAgrees, [Next]_vars
  PROVE  RowsInOrder'
<1> USE TypeOK
<1>1. ASSUME NEW e \in Documents, document'[e].storage = "ABSENT"
      PROVE  /\ document[e].storage = "ABSENT"
             /\ UNCHANGED <<processing[e], invoice[e]>>
  BY <1>1, DocumentKept
<1> DEFINE Here(e) ==
             /\ upload'[e] \in {"idle", "stored"} => document'[e].storage = "ABSENT"
             /\ document'[e].storage = "ABSENT" =>
                  /\ upload'[e] \in {"idle", "stored", "ended"}
                  /\ job'[e].state = "none"
<1>2. ASSUME NEW e \in Documents PROVE Here(e)
  <2>1. ASSUME NEW d \in Documents, UploadStore(d) \/ UploadDies(d) PROVE Here(e)
    BY <2>1 DEF UploadStore, UploadDies, rows, RowsInOrder, TypeOK
  <2>2. ASSUME NEW d \in Documents, UploadCommit(d) PROVE Here(e)
    BY <2>2 DEF UploadCommit, Recorded, RowsInOrder, TypeOK
  <2>3. ASSUME NEW d \in Documents, UploadRefused(d) PROVE Here(e)
    <3>1. upload'[e] \in {"idle", "stored"} => e # d /\ upload'[e] = upload[e]
      BY <2>3 DEF UploadRefused, TypeOK
    <3>2. e # d => document'[e] = document[e] /\ upload'[e] = upload[e]
      <4>1. CASE document' = document
        BY <2>3, <4>1 DEF UploadRefused, TypeOK
      <4>2. CASE document' = Recorded(d)
        BY <2>3, <4>2 DEF UploadRefused, Recorded, TypeOK
      <4>. QED BY <2>3, <4>1, <4>2 DEF UploadRefused
    <3>3. upload'[d] = "ended" /\ job' = job
      BY <2>3 DEF UploadRefused, TypeOK
    <3>. QED BY <1>1, <3>1, <3>2, <3>3 DEF RowsInOrder
  <2>4. ASSUME NEW d \in Documents, UploadPublish(d) \/ UploadUnpublished(d) \/ UploadMark(d)
        PROVE Here(e)
    <3>1. document[d].storage # "ABSENT" /\ document' = document
      BY <2>4 DEF UploadPublish, UploadUnpublished, UploadMark, rows, RowsInOrder
    <3>2. /\ upload'[d] \notin {"idle", "stored"}
          /\ e # d => upload'[e] = upload[e]
      BY <2>4 DEF UploadPublish, UploadUnpublished, UploadMark, TypeOK
    <3>3. e # d => job'[e] = job[e]
      BY <2>4 DEF UploadPublish, UploadUnpublished, UploadMark, Published, TypeOK
    <3>. QED BY <3>1, <3>2, <3>3 DEF RowsInOrder
  <2>5. ASSUME NEW d \in Documents, Deliver(d) \/ Stall(d) PROVE Here(e)
    <3>1. document[d].storage # "ABSENT" /\ document' = document /\ upload' = upload
      BY <2>5 DEF Deliver, Stall, rows, RowsInOrder
    <3>2. e # d => job'[e] = job[e]
      BY <2>5 DEF Deliver, Stall, TypeOK
    <3>. QED BY <3>1, <3>2 DEF RowsInOrder
  <2>6. ASSUME NEW d \in Documents, NEW n \in Runs, Report(d, n) PROVE Here(e)
    <3>1. document[d].storage # "ABSENT"
      BY <2>6, RunHasRow DEF Report
    <3>2. document' = document /\ upload' = upload /\ (e # d => job'[e] = job[e])
      BY <2>6 DEF Report, rows, TypeOK
    <3>. QED BY <3>1, <3>2 DEF RowsInOrder
  <2>7. ASSUME NEW d \in Documents, NEW n \in Runs,
               Working(d, n) \/ Fails(d, n) \/ RunDies(d, n)
        PROVE Here(e)
    <3>1. UNCHANGED <<upload, job>>
      BY <2>7, RunKeepsJob
    <3>. QED BY <1>1, <3>1, DocumentKept DEF RowsInOrder
  <2>8. CASE UNCHANGED vars
    BY <2>8 DEF vars, rows, RowsInOrder
  <2>. QED
    BY <2>1, <2>2, <2>3, <2>4, <2>5, <2>6, <2>7, <2>8, [Next]_vars DEF Next, Uploading
<1>3. ASSUME NEW e \in Documents,
             processing'[e].state \in {"QUARANTINED", "SCANNING"}
      PROVE  document'[e].key = None
  BY <1>3, DocumentKept
<1>4. ASSUME NEW e \in Documents, document'[e].key = None
      PROVE  document'[e].duplicateOf = None
  BY <1>4, DocumentKept
<1>. QED BY <1>1, <1>2, <1>3, <1>4 DEF RowsInOrder

-----------------------------------------------------------------------------
(* Phases that a run may reach from any other.                              *)
Over == {"promoted", "reading", "extracted", "caught", "succeeded", "failed", "ended"}

(* All the ways in which run n of d may go on.                              *)
PhaseStep(d, n) ==
  LET old == phase[d][n]
      new == phase'[d][n]
  IN
  \/ new = old
  \/ old # "idle" /\ new \in Over
  \/ old = "idle" /\ new = "started" /\ n <= job'[d].started
  \/ /\ old \in {"started", "quarantined", "scanning"}
     /\ new \in {"quarantined", "scanning", "clean", "infected"}
  \/ /\ old = "started" /\ new = "approved"
     /\ processing[d].state \notin Settled /\ document[d].storage # "QUARANTINED"
  \/ old = "clean" /\ new = "copied" /\ n \in copies'[d]
  \/ old = "copied" /\ new = "matched" /\ Match(d, n)
  \/ old = "caught" /\ new = "marking" /\ processing'[d].state \in Settled

(* A new phase for one run is one for that run only.                        *)
LEMMA OnePhase ==
  ASSUME TypeOK, NEW d \in Documents, NEW n \in Runs, NEW q,
         phase' = [phase EXCEPT ![d][n] = q]
  PROVE  /\ phase'[d][n] = q
         /\ \A e \in Documents, m \in Runs : e # d \/ m # n => phase'[e][m] = phase[e][m]
  BY DEF TypeOK

(* A run that goes to one of the phases of Over takes a PhaseStep.          *)
LEMMA MovesOver ==
  ASSUME TypeOK, NEW d \in Documents, NEW n \in Runs, NEW p, NEW q \in Over,
         p # "idle", Moves(d, n, p, q)
  PROVE  PhaseStep(d, n) /\ \E r : phase' = [phase EXCEPT ![d][n] = r]
<1>1. phase[d][n] = p /\ phase' = [phase EXCEPT ![d][n] = q]
  BY DEF Moves
<1>2. phase'[d][n] = q
  BY <1>1 DEF TypeOK
<1>. QED BY <1>1, <1>2 DEF PhaseStep

(* The same of Goes and Does, whose connection may break on the way.        *)
LEMMA GoesOver ==
  ASSUME TypeOK, NEW d \in Documents, NEW n \in Runs, NEW p, NEW q,
         p # "idle", q \in Over, Goes(d, n, p, q) \/ Does(d, n, p, q)
  PROVE  PhaseStep(d, n) /\ \E r : phase' = [phase EXCEPT ![d][n] = r]
<1>1. Moves(d, n, p, q) \/ Moves(d, n, p, "caught")
  BY DEF Does, Goes
<1>2. "caught" \in Over
  BY DEF Over
<1>. QED BY <1>1, <1>2, MovesOver

(* Every step is, for every run, a PhaseStep.                               *)
LEMMA StepPhases ==
  ASSUME TypeOK, RunsInOrder, [Next]_vars, NEW e \in Documents, NEW m \in Runs
  PROVE  PhaseStep(e, m)
<1> USE TypeOK
<1>1. ASSUME NEW d \in Documents, Deliver(d) PROVE PhaseStep(e, m)
  <2> DEFINE k == job[d].started + 1
  <2>1. job[d].started \in Nat
    BY BoundsAssumption DEF TypeOK, Job
  <2>2. job'[d].started = k
    BY <1>1 DEF Deliver, TypeOK, JobRow
  <2>3. e # d \/ m # k => phase'[e][m] = phase[e][m]
    BY <1>1 DEF Deliver, TypeOK
  <2>4. CASE e = d /\ m = k
    <3>1. phase[d][k] = "idle"
      BY <2>1, <2>4 DEF RunsInOrder
    <3>2. phase'[d][k] = "started"
      BY <1>1, <2>4 DEF Deliver, TypeOK
    <3>3. m <= job'[d].started
      BY <2>1, <2>2, <2>4
    <3>. QED BY <2>4, <3>1, <3>2, <3>3 DEF PhaseStep
  <2>. QED BY <2>3, <2>4 DEF PhaseStep
<1>2. ASSUME NEW d \in Documents,
             UploadStore(d) \/ Uploading(d) \/ UploadDies(d) \/ Stall(d)
      PROVE  phase' = phase
  BY <1>2 DEF UploadStore, Uploading, UploadCommit, UploadRefused, UploadPublish,
     UploadUnpublished, UploadMark, UploadDies, Stall, runs
<1>3. ASSUME NEW d \in Documents, NEW n \in Runs,
             Working(d, n) \/ Fails(d, n) \/ Report(d, n) \/ RunDies(d, n)
      PROVE  PhaseStep(d, n) /\ \E q : phase' = [phase EXCEPT ![d][n] = q]
  <2>1. CASE Load(d, n)
    BY <2>1, OnePhase DEF Load, Goes, Moves, PhaseStep, Over, Unpromoted
  <2>2. CASE BeginScan(d, n)
    BY <2>2, OnePhase DEF BeginScan, Does, Goes, Moves, PhaseStep, Over, Unpromoted
  <2>3. CASE Scan(d, n)
    BY <2>3, OnePhase DEF Scan, Goes, Moves, PhaseStep, Over, Unpromoted
  <2>4. CASE Block(d, n)
    <3>1. Does(d, n, "infected", "succeeded")
      BY <2>4 DEF Block
    <3>. QED BY <3>1, GoesOver DEF Over
  <2>5. CASE Copy(d, n)
    <3>1. n \in copies'[d]
      BY <2>5 DEF Copy, TypeOK
    <3>. QED BY <2>5, <3>1, OnePhase DEF Copy, Does, Goes, Moves, PhaseStep, Over
  <2>6. CASE Match(d, n)
    <3>1. Moves(d, n, "copied", "matched")
      BY <2>6 DEF Match
    <3>2. phase[d][n] = "copied" /\ phase' = [phase EXCEPT ![d][n] = "matched"]
      BY <3>1 DEF Moves
    <3>3. phase'[d][n] = "matched"
      BY <3>2 DEF TypeOK
    <3>. QED BY <2>6, <3>2, <3>3 DEF PhaseStep
  <2>7. CASE Promote(d, n)
    <3>1. Does(d, n, "matched", "promoted")
      BY <2>7 DEF Promote
    <3>. QED BY <3>1, GoesOver DEF Over
  <2>8. CASE PromoteRefused(d, n)
    <3>1. Goes(d, n, "matched", "caught")
      BY <2>8 DEF PromoteRefused
    <3>. QED BY <3>1, GoesOver DEF Over
  <2>9. CASE DeleteQuarantined(d, n)
    <3>1. Does(d, n, "promoted", "reading")
      BY <2>9 DEF DeleteQuarantined
    <3>. QED BY <3>1, GoesOver DEF Over
  <2>10. CASE TakeUp(d, n)
    <3>1. Does(d, n, "approved", "reading")
      BY <2>10 DEF TakeUp
    <3>. QED BY <3>1, GoesOver DEF Over
  <2>11. CASE Extract(d, n)
    <3>1. Goes(d, n, "reading", "extracted")
      BY <2>11 DEF Extract
    <3>. QED BY <3>1, GoesOver DEF Over
  <2>12. CASE Finish(d, n)
    <3>1. Does(d, n, "extracted", "succeeded")
      BY <2>12 DEF Finish
    <3>. QED BY <3>1, GoesOver DEF Over
  <2>13. CASE Refused(d, n)
    <3>1. PICK p \in DOMAIN Target : Goes(d, n, p, "caught")
      BY <2>13 DEF Refused
    <3>2. p # "idle"
      BY DEF Target
    <3>. QED BY <3>1, <3>2, GoesOver DEF Over
  <2>14. CASE ResetForRetry(d, n)
    <3>1. Goes(d, n, "caught", "failed")
      BY <2>14 DEF ResetForRetry
    <3>. QED BY <3>1, GoesOver DEF Over
  <2>15. CASE ManualReview(d, n)
    <3>1. processing'[d].state \in Settled
      BY <2>15 DEF ManualReview, TypeOK, Settled
    <3>2. Moves(d, n, "caught", "marking")
      BY <2>15 DEF ManualReview, Goes
    <3>3. phase[d][n] = "caught" /\ phase' = [phase EXCEPT ![d][n] = "marking"]
      BY <3>2 DEF Moves
    <3>4. phase'[d][n] = "marking"
      BY <3>3 DEF TypeOK
    <3>. QED BY <3>1, <3>3, <3>4 DEF PhaseStep
  <2>16. CASE MarkInvoice(d, n)
    <3>1. Goes(d, n, "marking", "failed")
      BY <2>16 DEF MarkInvoice
    <3>. QED BY <3>1, GoesOver DEF Over
  <2>17. CASE Fails(d, n)
    <3>1. \E p, q : p # "idle" /\ q \in Over /\ Goes(d, n, p, q)
      BY <2>17 DEF Fails, Over
    <3>. QED BY <3>1, GoesOver
  <2>18. CASE Report(d, n)
    <3>1. phase[d][n] # "idle" /\ phase' = [phase EXCEPT ![d][n] = "ended"]
      BY <2>18 DEF Report
    <3>2. phase'[d][n] = "ended"
      BY <3>1 DEF TypeOK
    <3>. QED BY <3>1, <3>2 DEF PhaseStep, Over
  <2>19. CASE RunDies(d, n)
    <3>1. phase[d][n] # "idle" /\ phase' = [phase EXCEPT ![d][n] = "ended"]
      BY <2>19 DEF RunDies
    <3>2. phase'[d][n] = "ended"
      BY <3>1 DEF TypeOK
    <3>. QED BY <3>1, <3>2 DEF PhaseStep, Over
  <2>. QED
    BY <1>3, <2>1, <2>2, <2>3, <2>4, <2>5, <2>6, <2>7, <2>8, <2>9, <2>10, <2>11, <2>12,
       <2>13, <2>14, <2>15, <2>16, <2>17, <2>18, <2>19 DEF Working
<1>4. ASSUME NEW d \in Documents, NEW n \in Runs,
             Working(d, n) \/ Fails(d, n) \/ Report(d, n) \/ RunDies(d, n)
      PROVE  PhaseStep(e, m)
  <2>1. CASE e = d /\ m = n
    BY <1>3, <1>4, <2>1
  <2>2. CASE e # d \/ m # n
    <3>1. PICK q : phase' = [phase EXCEPT ![d][n] = q]
      BY <1>3, <1>4
    <3>2. phase'[e][m] = phase[e][m]
      BY <2>2, <3>1, OnePhase
    <3>. QED BY <3>2 DEF PhaseStep
  <2>. QED BY <2>1, <2>2
<1>5. CASE UNCHANGED vars
  BY <1>5 DEF vars, runs, PhaseStep
<1>. QED
  BY <1>1, <1>2, <1>4, <1>5, [Next]_vars DEF Next, PhaseStep

(* Deliveries are counted up, never down.                                   *)
LEMMA StepStarted ==
  ASSUME TypeOK, JobsInOrder, [Next]_vars, NEW e \in Documents
  PROVE  job'[e].started >= job[e].started
<1> USE TypeOK
<1>0. job[e] \in Job /\ job[e].started \in Nat
  BY BoundsAssumption DEF TypeOK, Job
<1>1. ASSUME NEW d \in Documents, UploadPublish(d) \/ UploadUnpublished(d)
      PROVE  job'[e].started = job[e].started
  <2>1. job[d].started = 0
    BY <1>1 DEF UploadPublish, UploadUnpublished, JobsInOrder
  <2>2. CASE job' = Published(d)
    BY <2>1, <2>2 DEF Published, JobRow, TypeOK
  <2>. QED BY <1>1, <2>2 DEF UploadPublish, UploadUnpublished
<1>2. ASSUME NEW d \in Documents, Deliver(d)
      PROVE  job'[e].started >= job[e].started
  BY <1>0, <1>2 DEF Deliver, JobRow, TypeOK
<1>3. ASSUME NEW d \in Documents, Stall(d)
      PROVE  job'[e].started = job[e].started
  BY <1>3 DEF Stall, JobRow, TypeOK
<1>4. ASSUME NEW d \in Documents, NEW n \in Runs, Report(d, n)
      PROVE  job'[e].started = job[e].started
  <2>1. CASE job[d].state = "active" /\ n = job[d].started
    BY <1>4, <2>1 DEF Report, JobRow, TypeOK
  <2>2. CASE ~(job[d].state = "active" /\ n = job[d].started)
    BY <1>4, <2>2 DEF Report
  <2>. QED BY <2>1, <2>2
<1>5. ASSUME NEW d \in Documents,
             \/ UploadStore(d) \/ UploadCommit(d) \/ UploadRefused(d) \/ UploadMark(d)
             \/ UploadDies(d)
      PROVE  job' = job
  BY <1>5 DEF UploadStore, UploadCommit, UploadRefused, UploadMark, UploadDies
<1>6. ASSUME UNCHANGED vars
      PROVE  job' = job
  BY <1>6 DEF vars
<1>. QED
  BY <1>0, <1>1, <1>2, <1>3, <1>4, <1>5, <1>6, RunKeepsJob, [Next]_vars DEF Next, Uploading

(* Every step keeps RunsInOrder: what a run relies on without having read   *)
(* it just now stays so while other runs of the same document work.         *)
LEMMA NextRuns ==
  ASSUME TypeOK, JobsInOrder, RowsInOrder, RunsInOrder, StorageAgrees, [Next]_vars
  PROVE  RunsInOrder'
<1> USE TypeOK
<1>1. SUFFICES ASSUME NEW d \in Documents, NEW n \in Runs
               PROVE  /\ n > job'[d].started => phase'[d][n] = "idle"
                      /\ phase'[d][n] \in Unpromoted => document'[d].key # n
                      /\ phase'[d][n] \in {"copied", "matched"} => n \in copies'[d]
                      /\ phase'[d][n] = "approved" => document'[d].key # None
                      /\ phase'[d][n] = "marking" => processing'[d].state \in Settled
  BY DEF RunsInOrder
<1>2. PhaseStep(d, n)
  BY StepPhases
<1>3. n > job'[d].started => phase'[d][n] = "idle"
  <2>1. job[d].started \in Nat /\ job'[d].started \in Nat /\ n \in Nat
    BY NextType, BoundsAssumption DEF TypeOK, Job, Runs
  <2>2. n > job'[d].started => phase[d][n] = "idle"
    BY <2>1, StepStarted DEF RunsInOrder
  <2>. QED BY <1>2, <2>1, <2>2 DEF PhaseStep, Unpromoted
<1>4. phase'[d][n] \in Unpromoted => document'[d].key # n
  <2>1. phase'[d][n] \in Unpromoted => phase[d][n] \in Unpromoted
    BY <1>2 DEF PhaseStep, Unpromoted, Over
  <2>2. phase'[d][n] \in Unpromoted /\ phase[d][n] = "matched" => phase'[d][n] = "matched"
    BY <1>2 DEF PhaseStep, Unpromoted, Over
  <2>. QED BY <2>1, <2>2, DocumentKept DEF RunsInOrder
<1>5. phase'[d][n] \in {"copied", "matched"} => n \in copies'[d]
  <2>1. CASE phase'[d][n] = phase[d][n]
    BY <2>1, StepCopies DEF RunsInOrder
  <2>2. CASE phase[d][n] = "copied" /\ Match(d, n)
    <3>1. copies' = copies
      BY <2>2 DEF Match, buckets
    <3>. QED BY <2>2, <3>1 DEF RunsInOrder
  <2>. QED BY <1>2, <2>1, <2>2 DEF PhaseStep, Over
<1>6. phase'[d][n] = "approved" => document'[d].key # None
  <2>1. CASE phase[d][n] = "approved"
    BY <2>1, DocumentKept DEF RunsInOrder
  <2>2. CASE phase[d][n] # "approved" /\ phase'[d][n] = "approved"
    <3>1. /\ phase[d][n] = "started"
          /\ processing[d].state \notin Settled
          /\ document[d].storage # "QUARANTINED"
      BY <1>2, <2>2 DEF PhaseStep, Over
    <3>2. document[d].storage # "ABSENT"
      BY <3>1, RunHasRow
    <3>3. document[d].storage \in StorageState
      BY DEF TypeOK, Document
    <3>4. document[d].key # None
      BY <3>1, <3>2, <3>3 DEF StorageState, StorageAgrees, Settled
    <3>. QED BY <3>4, DocumentKept
  <2>. QED BY <2>1, <2>2
<1>7. phase'[d][n] = "marking" => processing'[d].state \in Settled
  BY <1>2, DocumentKept DEF PhaseStep, Over, RunsInOrder
<1>. QED BY <1>3, <1>4, <1>5, <1>6, <1>7

-----------------------------------------------------------------------------
(* The bytes of a document never change.                                    *)
LEMMA StepContent ==
  ASSUME [Next]_vars
  PROVE  content' = content
<1>1. CASE UNCHANGED vars
  BY <1>1 DEF vars
<1>2. ASSUME NEW d \in Documents,
             \/ UploadStore(d) \/ Uploading(d) \/ UploadDies(d) \/ Deliver(d) \/ Stall(d)
             \/ \E n \in Runs : Report(d, n)
      PROVE  content' = content
  BY <1>2 DEF UploadStore, Uploading, UploadCommit, UploadRefused, UploadPublish,
     UploadUnpublished, UploadMark, UploadDies, Deliver, Stall, Report
<1>. QED BY <1>1, <1>2, RunKeepsJob, [Next]_vars DEF Next

(* Only Match sets what a run under the lock has found.                     *)
LEMMA StepMatch ==
  ASSUME [Next]_vars
  PROVE  match' = match \/ \E d \in Documents, n \in Runs : Match(d, n)
<1>1. CASE UNCHANGED vars
  BY <1>1 DEF vars, runs
<1>2. ASSUME NEW d \in Documents,
             \/ UploadStore(d) \/ Uploading(d) \/ UploadDies(d) \/ Deliver(d) \/ Stall(d)
             \/ \E n \in Runs : Report(d, n) \/ Fails(d, n) \/ RunDies(d, n)
      PROVE  match' = match
  BY <1>2 DEF UploadStore, Uploading, UploadCommit, UploadRefused, UploadPublish,
     UploadUnpublished, UploadMark, UploadDies, Deliver, Stall, Report, Fails, RunDies,
     Goes, runs
<1>3. ASSUME NEW d \in Documents, NEW n \in Runs, Working(d, n), ~Match(d, n)
      PROVE  match' = match
  BY <1>3 DEF Working, Load, BeginScan, Scan, Block, Copy, Promote, PromoteRefused,
     DeleteQuarantined, TakeUp, Extract, Finish, Refused, ResetForRetry, ManualReview,
     MarkInvoice, Does, Goes
<1>. QED BY <1>1, <1>2, <1>3, [Next]_vars DEF Next

(* A key comes from a run that holds the lock, with the mark it has found.  *)
LEMMA StepKey ==
  ASSUME TypeOK, JobsInOrder, RowsInOrder, RunsInOrder, StorageAgrees, [Next]_vars,
         NEW e \in Documents, document[e].key = None, document'[e].key # None
  PROVE  \E n \in Runs : /\ phase[e][n] = "matched"
                         /\ document'[e].duplicateOf = match[e]
<1>1. document'[e].key \in Runs
  BY NextType DEF TypeOK, Document
<1>. QED BY <1>1, NoneAssumption, DocumentKept

(* Every step keeps LockHolds: a second run waits for the fingerprint, and  *)
(* while it waits no other document with the same bytes is promoted.        *)
LEMMA NextLock ==
  ASSUME TypeOK, JobsInOrder, RowsInOrder, RunsInOrder, LockHolds, StorageAgrees, [Next]_vars
  PROVE  LockHolds'
<1> USE TypeOK
<1>1. SUFFICES ASSUME NEW d \in Documents, NEW n \in Runs, phase'[d][n] = "matched"
               PROVE  /\ \A e \in Documents, m \in Runs :
                           phase'[e][m] = "matched" /\ content'[e] = content'[d]
                             => e = d /\ m = n
                      /\ IF match'[d] = None THEN Twins(d)' = {} ELSE match'[d] \in Twins(d)'
  BY DEF LockHolds
<1> DEFINE Held ==
             /\ \A e \in Documents, m \in Runs :
                  phase'[e][m] = "matched" /\ content'[e] = content'[d] => e = d /\ m = n
             /\ IF match'[d] = None THEN Twins(d)' = {} ELSE match'[d] \in Twins(d)'
<1>2. content' = content
  BY StepContent
<1>3. ASSUME NEW a \in Documents, NEW b \in Runs, Match(a, b)
      PROVE  Held
  <2>1. /\ phase[a][b] = "copied"
        /\ phase' = [phase EXCEPT ![a][b] = "matched"]
        /\ document' = document
        /\ FingerprintFree(a)
    BY <1>3 DEF Match, Moves, rows
  <2>2. \A e \in Documents, m \in Runs : e # a \/ m # b => phase'[e][m] = phase[e][m]
    BY <2>1, OnePhase
  <2>3. \A e \in Documents : Twins(e)' = Twins(e)
    BY <1>2, <2>1 DEF Twins
  <2>4. CASE d = a
    <3>1. n = b
      BY <1>1, <2>1, <2>2, <2>4 DEF FingerprintFree
    <3>2. \A e \in Documents, m \in Runs :
            phase'[e][m] = "matched" /\ content'[e] = content'[d] => e = d /\ m = n
      BY <1>2, <2>1, <2>2, <2>4, <3>1 DEF FingerprintFree
    <3>3. IF match'[d] = None THEN Twins(d) = {} ELSE match'[d] \in Twins(d)
      <4>1. None \notin Twins(d)
        BY NoneAssumption DEF Twins
      <4>2. PICK e \in IF Twins(a) = {} THEN {None} ELSE Twins(a) :
              match' = [match EXCEPT ![a] = e]
        BY <1>3 DEF Match
      <4>3. match'[d] = e
        BY <2>4, <4>2 DEF TypeOK
      <4>. QED BY <2>4, <4>1, <4>2, <4>3
    <3>. QED BY <2>3, <3>2, <3>3
  <2>5. CASE d # a
    <3>1. phase[d][n] = "matched"
      BY <1>1, <2>2, <2>5
    <3>2. content[d] # content[a]
      BY <2>1, <3>1 DEF FingerprintFree
    <3>3. \A e \in Documents, m \in Runs :
            phase'[e][m] = "matched" /\ content'[e] = content'[d] => e = d /\ m = n
      BY <1>2, <2>2, <3>1, <3>2 DEF LockHolds
    <3>4. match'[d] = match[d]
      BY <1>3, <2>5 DEF Match, TypeOK
    <3>5. IF match[d] = None THEN Twins(d) = {} ELSE match[d] \in Twins(d)
      BY <3>1 DEF LockHolds
    <3>. QED BY <2>3, <3>3, <3>4, <3>5
  <2>. QED BY <2>4, <2>5
<1>4. CASE ~ \E a \in Documents, b \in Runs : Match(a, b)
  <2>1. match' = match
    BY <1>4, StepMatch
  <2>2. \A e \in Documents, m \in Runs : phase'[e][m] = "matched" => phase[e][m] = "matched"
    BY <1>4, StepPhases DEF PhaseStep, Over
  <2>3. phase[d][n] = "matched"
    BY <1>1, <2>2
  <2>4. \A e \in Documents, m \in Runs :
          phase[e][m] = "matched" /\ content[e] = content[d] => e = d /\ m = n
    BY <2>3 DEF LockHolds
  <2>5. Twins(d)' = Twins(d)
    <3>1. ASSUME NEW e \in Documents, e # d, content[e] = content[d]
          PROVE  document'[e].key # None <=> document[e].key # None
      BY <2>4, <3>1, StepKey, DocumentKept
    <3>. QED BY <1>2, <3>1 DEF Twins
  <2>6. IF match[d] = None THEN Twins(d) = {} ELSE match[d] \in Twins(d)
    BY <2>3 DEF LockHolds
  <2>. QED BY <1>2, <2>1, <2>2, <2>4, <2>5, <2>6
<1>. QED BY <1>3, <1>4

(* Every step keeps DuplicatesAreMarked: the first promotion of some bytes  *)
(* finds none, and every later one, one at a time, finds one.               *)
LEMMA NextDuplicates ==
  ASSUME TypeOK, JobsInOrder, RowsInOrder, RunsInOrder, LockHolds, StorageAgrees,
         DuplicatesAreMarked, [Next]_vars
  PROVE  DuplicatesAreMarked'
<1> USE TypeOK
<1>1. SUFFICES ASSUME NEW d \in Documents, document'[d].key # None
               PROVE  \E e \in Documents : Originals(d)' = {e}
  BY DEF DuplicatesAreMarked
<1>2. content' = content
  BY StepContent
<1>3. \A e \in Documents : document[e].key # None =>
        /\ document'[e].key # None
        /\ document'[e].duplicateOf = document[e].duplicateOf
  BY DocumentKept
<1> DEFINE New(e) == /\ content[e] = content[d]
                     /\ document[e].key = None
                     /\ document'[e].key # None
<1>4. CASE \A e \in Documents : ~New(e)
  <2>1. document[d].key # None
    BY <1>1, <1>4
  <2>2. Originals(d)' = Originals(d)
    BY <1>2, <1>3, <1>4 DEF Originals
  <2>. QED BY <2>1, <2>2 DEF DuplicatesAreMarked
<1>5. ASSUME NEW o \in Documents, New(o)
      PROVE  \E e \in Documents : Originals(d)' = {e}
  <2>1. PICK n \in Runs : phase[o][n] = "matched" /\ document'[o].duplicateOf = match[o]
    BY <1>5, StepKey
  <2>2. ASSUME NEW e \in Documents, New(e) PROVE e = o
    <3>1. PICK m \in Runs : phase[e][m] = "matched"
      BY <2>2, StepKey
    <3>. QED BY <1>5, <2>1, <2>2, <3>1 DEF LockHolds
  <2>3. IF match[o] = None THEN Twins(o) = {} ELSE match[o] \in Twins(o)
    BY <2>1 DEF LockHolds
  <2>4. CASE match[o] = None
    <3>1. \A e \in Documents \ {o} : content[e] = content[d] => document'[e].key = None
      BY <1>5, <2>2, <2>3, <2>4 DEF Twins
    <3>2. Originals(d)' = {o}
      BY <1>2, <1>5, <2>1, <2>4, <3>1 DEF Originals
    <3>. QED BY <3>2
  <2>5. CASE match[o] # None
    <3>1. match[o] \in Documents /\ document[match[o]].key # None
          /\ content[match[o]] = content[d]
      BY <1>5, <2>3, <2>5 DEF Twins
    <3>2. PICK e \in Documents : Originals(match[o]) = {e}
      BY <3>1 DEF DuplicatesAreMarked
    <3>3. Originals(d)' = Originals(match[o])
      BY <1>2, <1>3, <2>1, <2>2, <2>5, <3>1 DEF Originals
    <3>. QED BY <3>2, <3>3
  <2>. QED BY <2>4, <2>5
<1>. QED BY <1>4, <1>5

-----------------------------------------------------------------------------
(* The inductive invariant.                                                 *)
Invariant == TypeOK /\ Inductive /\ StorageAgrees /\ InvoiceAgrees /\ DuplicatesAreMarked

(* It holds when nothing has been uploaded.                                 *)
LEMMA InitHolds == Init => Invariant
<1> SUFFICES ASSUME Init PROVE Invariant
  OBVIOUS
<1>1. TypeOK
  BY BoundsAssumption DEF Init, TypeOK, UploadPhase, Document, StorageState, Processing,
     ProcessingState, ScanResult, InvoiceStatus, Job, Runs, RunPhase
<1>2. JobsInOrder /\ RowsInOrder
  BY DEF Init, JobsInOrder, RowsInOrder
<1>3. \A d \in Documents, n \in Runs : phase[d][n] = "idle"
  BY DEF Init
<1>4. RunsInOrder /\ LockHolds
  BY <1>3, NoneAssumption DEF Init, RunsInOrder, LockHolds, Runs
<1>5. StorageAgrees /\ InvoiceAgrees /\ DuplicatesAreMarked
  BY DEF Init, StorageAgrees, InvoiceAgrees, DuplicatesAreMarked
<1>. QED BY <1>1, <1>2, <1>4, <1>5 DEF Invariant, Inductive

(* It holds for ever.                                                       *)
THEOREM Invariance == Spec => []Invariant
<1>1. Invariant /\ [Next]_vars => Invariant'
  BY NextType, NextJobs, NextRows, NextRuns, NextLock, NextStorage, NextInvoice,
     NextDuplicates DEF Invariant, Inductive
<1>. QED BY InitHolds, <1>1, PTL DEF Spec

(* Every variable keeps its type, and the queue keeps the limits on         *)
(* attempts and stalled deliveries (TypeOK).                                *)
THEOREM TypesHold == Spec => []TypeOK
<1>1. Invariant => TypeOK
  BY DEF Invariant
<1>. QED BY Invariance, <1>1, PTL

(* However many deliveries of however many jobs overlap, fail or die, the   *)
(* document is approved just when it was found clean and has its copy,      *)
(* blocked just when it was found infected (StorageAgrees), and the invoice *)
(* shows no other verdict (InvoiceAgrees).                                  *)
THEOREM TablesAgree == Spec => [](StorageAgrees /\ InvoiceAgrees)
<1>1. Invariant => StorageAgrees /\ InvoiceAgrees
  BY DEF Invariant
<1>. QED BY Invariance, <1>1, PTL

(* An invoice shows the verdict of its document and no other               *)
(* (InvoiceAgrees).                                                        *)
THEOREM InvoicesAgree == Spec => []InvoiceAgrees
BY TablesAgree, PTL

(* Of the approved documents with the same bytes just one is not marked as  *)
(* a duplicate, whichever workers promote them at the same time             *)
(* (DuplicatesAreMarked).                                                   *)
THEOREM OneOriginal == Spec => []DuplicatesAreMarked
<1>1. Invariant => DuplicatesAreMarked
  BY DEF Invariant
<1>. QED BY Invariance, <1>1, PTL

-----------------------------------------------------------------------------
(* Stage, as a function of the two rows.                                    *)
StageOf(doc, verdict) ==
  CASE doc.storage = "ABSENT"            -> "absent"
    [] verdict.state = "BLOCKED"         -> "blocked"
    [] verdict.state = "MANUAL_REVIEW"   -> "manual"
    [] verdict.state = "NEEDS_REVIEW"    -> "reviewable"
    [] verdict.state = "PARSED"          -> "cleared"
    [] OTHER                             -> "received"

(* Stage depends on nothing else, before and after a step.                  *)
LEMMA StagesOf ==
  ASSUME NEW d
  PROVE  /\ Stage(d) = StageOf(document[d], processing[d])
         /\ Stage(d)' = StageOf(document'[d], processing'[d])
  BY DEF Stage, StageOf

(* A write leaves the stage of its document alone or takes one of the steps *)
(* of DocumentGate; only promotion gives a key, and it clears the document. *)
LEMMA WriteStage ==
  ASSUME Invariant, NEW d \in Documents, NEW n \in Runs, WritesRow(d, n)
  PROVE  \/ /\ Stage(d)' = Stage(d)
            /\ document'[d].key = document[d].key
            /\ document'[d].duplicateOf = document[d].duplicateOf
         \/ /\ <<Stage(d), Stage(d)'>> \in
                 {<<"absent", "received">>, <<"cleared", "reviewable">>,
                  <<"received", "blocked">>, <<"received", "manual">>,
                  <<"cleared", "manual">>}
            /\ document'[d].key = document[d].key
            /\ document'[d].duplicateOf = document[d].duplicateOf
         \/ /\ Stage(d) = "received" /\ Stage(d)' = "cleared"
            /\ document[d].key = None
            /\ document'[d].key = n
            /\ document'[d].duplicateOf = match[d]
            /\ phase[d][n] = "matched"
<1>1. /\ document[d] \in Document /\ processing[d] \in Processing
      /\ TypeOK /\ JobsInOrder /\ RowsInOrder /\ RunsInOrder /\ StorageAgrees
  BY DEF Invariant, Inductive, TypeOK
<1>2. phase[d][n] # "idle" => document[d].storage # "ABSENT"
  BY <1>1, RunHasRow
<1>3. upload[d] = "unpublished" => document[d].storage # "ABSENT"
  BY <1>1 DEF RowsInOrder
<1>. QED
  BY <1>1, <1>2, <1>3, StagesOf, Written, Allowed
     DEF WritesRow, StageOf, Row, Verdict, StorageAgrees, RowsInOrder, RunsInOrder,
         Document, Processing, ProcessingState

(* The stage of each document.                                              *)
Stages == [d \in Documents |-> Stage(d)]

(* The kept copy of each document.                                          *)
Keys == [d \in Documents |-> document[d].key]

(* The original each document names.                                        *)
Marks == [d \in Documents |-> document[d].duplicateOf]

(* A write moves one document only.                                         *)
LEMMA WriteElse ==
  ASSUME TypeOK, NEW d \in Documents, NEW n \in Runs, WritesRow(d, n)
  PROVE  /\ Stages' = [Stages EXCEPT ![d] = Stage(d)']
         /\ Keys' = [Keys EXCEPT ![d] = document'[d].key]
         /\ Marks' = [Marks EXCEPT ![d] = document'[d].duplicateOf]
<1>1. ASSUME NEW e \in Documents, e # d
      PROVE  document'[e] = document[e] /\ processing'[e] = processing[e]
  BY <1>1, Written DEF WritesRow
<1>2. ASSUME NEW e \in Documents, e # d PROVE Stage(e)' = Stage(e)
  BY <1>1, <1>2, StagesOf
<1>. QED BY <1>1, <1>2 DEF Stages, Keys, Marks

(* Every step is a step of DocumentGate, or a stutter.                      *)
LEMMA StepImplements ==
  ASSUME Invariant, [Next]_vars
  PROVE  [Gate!Next]_(Gate!vars)
<1>0. TypeOK /\ LockHolds
  BY DEF Invariant, Inductive
<1>1. content' = content
  BY StepContent
<1>2. CASE UNCHANGED rows
  <2>1. document' = document /\ processing' = processing
    BY <1>2 DEF rows
  <2>2. Stages' = Stages /\ Keys' = Keys /\ Marks' = Marks
    BY <2>1 DEF Stages, Keys, Marks, Stage
  <2>. QED BY <1>1, <2>2 DEF Gate!vars, Stages, Keys, Marks
<1>3. ASSUME NEW d \in Documents, NEW n \in Runs, WritesRow(d, n)
      PROVE  [Gate!Next]_(Gate!vars)
  <2>1. /\ Stages' = [Stages EXCEPT ![d] = Stage(d)']
        /\ Keys' = [Keys EXCEPT ![d] = document'[d].key]
        /\ Marks' = [Marks EXCEPT ![d] = document'[d].duplicateOf]
    BY <1>0, <1>3, WriteElse
  <2>2. Stages[d] = Stage(d) /\ Keys[d] = document[d].key /\ Marks[d] = document[d].duplicateOf
    BY DEF Stages, Keys, Marks
  <2>3. ASSUME document'[d].key = document[d].key,
               document'[d].duplicateOf = document[d].duplicateOf
        PROVE  Keys' = Keys /\ Marks' = Marks
    BY <2>1, <2>2, <2>3 DEF Keys, Marks
  <2>4. CASE /\ Stage(d)' = Stage(d)
             /\ document'[d].key = document[d].key
             /\ document'[d].duplicateOf = document[d].duplicateOf
    <3>1. Stages' = Stages
      BY <2>1, <2>2, <2>4 DEF Stages
    <3>. QED BY <1>1, <2>3, <2>4, <3>1 DEF Gate!vars, Stages, Keys, Marks
  <2>5. CASE /\ <<Stage(d), Stage(d)'>> \in
                 {<<"absent", "received">>, <<"cleared", "reviewable">>,
                  <<"received", "blocked">>, <<"received", "manual">>,
                  <<"cleared", "manual">>}
             /\ document'[d].key = document[d].key
             /\ document'[d].duplicateOf = document[d].duplicateOf
    <3>1. UNCHANGED <<content, Keys, Marks>>
      BY <1>1, <2>3, <2>5
    <3>2. CASE Stage(d) = "absent" /\ Stage(d)' = "received"
      <4>1. Gate!Receive(d)
        BY <2>1, <2>2, <3>1, <3>2 DEF Gate!Receive, Stages, Keys, Marks
      <4>. QED BY <4>1 DEF Gate!Next
    <3>3. CASE Stage(d) = "cleared" /\ Stage(d)' = "reviewable"
      <4>1. Gate!Offer(d)
        BY <2>1, <2>2, <3>1, <3>3 DEF Gate!Offer, Gate!Moves, Stages, Keys, Marks
      <4>. QED BY <4>1 DEF Gate!Next
    <3>4. CASE Stage(d) = "received" /\ Stage(d)' = "blocked"
      <4>1. Gate!Block(d)
        BY <2>1, <2>2, <3>1, <3>4 DEF Gate!Block, Gate!Moves, Stages, Keys, Marks
      <4>. QED BY <4>1 DEF Gate!Next
    <3>5. CASE Stage(d) \in {"received", "cleared"} /\ Stage(d)' = "manual"
      <4>1. Gate!HandOver(d)
        BY <2>1, <2>2, <3>1, <3>5 DEF Gate!HandOver, Gate!Moves, Stages, Keys, Marks
      <4>. QED BY <4>1 DEF Gate!Next
    <3>. QED BY <2>5, <3>2, <3>3, <3>4, <3>5
  <2>6. CASE /\ Stage(d) = "received" /\ Stage(d)' = "cleared"
             /\ document[d].key = None
             /\ document'[d].key = n
             /\ document'[d].duplicateOf = match[d]
             /\ phase[d][n] = "matched"
    <3>1. Gate!Earlier(d) = Twins(d)
      BY <2>6 DEF Gate!Earlier, Twins
    <3>2. IF match[d] = None THEN Twins(d) = {} ELSE match[d] \in Twins(d)
      BY <1>0, <2>6 DEF LockHolds
    <3>3. match[d] \in Documents \cup {None}
      BY <1>0 DEF TypeOK
    <3>4. PICK o \in Documents \cup {None} : o = match[d]
      BY <3>3
    <3>5. IF Gate!Earlier(d) = {} THEN o = None ELSE o \in Gate!Earlier(d)
      BY <3>1, <3>2, <3>4
    <3>6. Gate!Clear(d, n, o)
      BY <1>1, <2>1, <2>2, <2>6, <3>4, <3>5 DEF Gate!Clear, Stages, Keys, Marks
    <3>. QED BY <3>6 DEF Gate!Next
  <2>. QED BY <1>3, <2>4, <2>5, <2>6, WriteStage
<1>. QED BY <1>0, <1>2, <1>3, StepWrites

(* The two tables implement DocumentGate (KeepsGate): a document is cleared *)
(* once, with one copy and the right mark; it is reviewable only after      *)
(* that; and blocked, reviewable and manual are for good.                   *)
THEOREM ImplementsGate == Spec => KeepsGate
<1>1. Init => Gate!Init
  <2> SUFFICES ASSUME Init PROVE Gate!Init
    OBVIOUS
  <2>1. \A d \in Documents : /\ Stage(d) = "absent"
                             /\ document[d].key = None
                             /\ document[d].duplicateOf = None
    BY DEF Init, Stage
  <2>. QED BY <2>1 DEF Init, Gate!Init
<1>. QED BY <1>1, StepImplements, Invariance, PTL DEF Spec, KeepsGate, Gate!Spec
=============================================================================
