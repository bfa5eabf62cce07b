# A formal model of BlocTrust CRM

TLA+ specifications of the parts of BlocTrust CRM whose correctness depends on
the order of concurrent steps, the TLC runs that check them on small instances,
and proofs that TLAPS checks for instances of every size. Paths below are
relative to the repository.

## 1. Inventory

BlocTrust is a NestJS API (`apps/api`), an OCR worker (`apps/worker`) and a web
client (`apps/web`) over PostgreSQL (`prisma/`), Redis/BullMQ and an S3 store.
Every handler of the API runs in one interactive transaction
(`apps/api/src/database/tenant-database.service.ts:11`) at PostgreSQL's default
isolation level, READ COMMITTED. Handlers interact almost only through rows.

| component | state it keeps | operations that change it | hard behaviour | what makes it correct |
|---|---|---|---|---|
| approval workflow `approvals/` | `ApprovalRequest`, `ApprovalDecision`, `RiskAssessment`, the invoice's status and version | submit, decide (with invalidate), updatePolicy | decisions, edits and bank versions interleave between a handler's reads and writes | no approval without its quorum; a verdict is final and about the invoice as it is; no invoice left waiting |
| invoice editing `invoices/` | `Invoice`, `InvoiceLine` | update | reads the status, writes under the version only | an edit withdraws the pending request |
| vendor bank accounts `crm/vendors` | `VendorBankAccountVersion`, verifications | addBankVersion, verifyBankVersion | sweeps requests and invoices in two statements, holding row locks | a new account freezes what is pending, of that vendor only |
| ingest pipeline `worker/invoice-pipeline`, `invoices/` upload | `Document`, `DocumentProcessing`, jobs, objects in two buckets | upload, process, block, manual review, retry | crashes between storage, commit and enqueue; a job delivered twice; retries | nothing unscanned is promoted; every upload ends in a state a user can act on |
| sessions `identity/session`, `lib/api.ts` | `Session`, `SessionRefreshToken` families, a browser's cookies | create, rotate, revoke, revokeAll, apiRequest | lost responses, reuse detection, locks in two orders | one live token per family; a revoked family is dead; no false alarm |
| passkeys `identity/passkey` | challenges, credentials, counters, step-up time | register, step up | two challenges, two answers at once, lapses between check and write | a challenge is used once, by the session it was made for |
| risk engine, risk policy | policy row, assessments | evaluate, updatePolicy | row created on first use, stale thresholds | medium below high; assessments name the policy they were made with; levels monotone in the reasons |
| contracts, vendors, buildings `crm/` | links vendor-building, contract-building, grants | create, update, unlink, grant | write skew between two tables, a grant that lapses | a contract covers only its vendor's buildings; nobody changes what he may not manage |
| lists and dashboard `crm/` | none | list with a cursor, dashboard | rows move between two pages, statements of one report see different states | no row that stood still is lost; nothing is called complete that is not |
| fake bank webhook `integrations/` | deliveries | receive | duplicated, concurrent and late deliveries | an event is recorded once |
| web pages `web/app/` | the selection, lists, details and drafts of a page | load, poll, select, save, forms | answers out of order, effects that are not cancelled | what is sent is what was shown; what was created is shown |
| organizations, memberships, audit | rows | insert | none | - |
| encryption, CSRF, other guards | none | - | none | - |
| packages, scripts, seed, deployment | none of the system's | - | none | - |

`PROJECT.json` lists each of them with its status, and every hazard at its line.

## 2. Plan

1. **InvoiceApproval** - done: submit, decide, update and addBankVersion
   composed over the shared tables, with its abstract specification
   **DualControl**; **ApprovalHistory** adds what overlapped with what, and
   **InvoiceApprovalProofs** proves both. **RowLocks** has the order of the same
   handlers' row locks, without the data; **RowLocksProofs**.
2. **IngestPipeline** - done: upload, queue, worker and object store, with
   crashes, redelivery, retries and two workers, its abstract specification
   **DocumentGate**, and **IngestPipelineProofs**.
3. **Sessions** - done: rotation, revocation and reuse detection with row
   locks, composed with browsers in **SessionClient**; its abstract
   specification **TokenFamily**, and **SessionsProofs**.
4. **VendorCoverage** - done: vendors and contracts changed at once, with the
   triggers of the `crm_core` migration and building access; with it
   **VendorPassport** (accounts, verifications, the dashboard) and
   **Listings** (cursors); **VendorCoverageProofs**.
5. **FakeBank** - done: repeated and concurrent deliveries. **Organization**
   composes it with 4; **OrganizationProofs**.
6. **Passkeys**, **RiskEngine**, **RiskPolicy** - done: challenges and the
   step-up, and the policy row that a step-up protects; **RiskPolicyProofs**
   has the theorems of both.
7. **InvoicePage**, **CrmPage** - done: the two pages of the web client that
   keep state of their own. **Inbox** composes them with 2; **InboxProofs**.

Left, in this order: the approvals page; an approval under way while a late
worker still writes its invoice (the pipeline composed with the approval
tables); the building, apartment and occupancy services as more than what the CRM page
shows.

Which module composes which: `SessionClient` extends `Sessions`, `RiskPolicy`
extends `Passkeys` and `RiskEngine`, `InvoiceApproval` holds the handlers of
three services over shared tables. `MCHandlers` explores these and `RowLocks`
side by side. `Organization` and `Inbox` compose
components that share no state: in their `Spec` and `InboxSpec`, which the
theorems are about, the components take their steps in any order.
`MCOrganization` and `MCInbox` restrict these for TLC (`MCSpec`,
`MCInboxSpec`): a behaviour moves one of the components while the others rest
in their initial states, so that one run checks several small models without
the product of their states. Since every component's steps leave the other
components' variables alone, an invariant of one component has the same
reachable states either way.

## 3. InvoiceApproval

### State and actions

| variable | code |
|---|---|
| `invoice` | table `Invoice`: status, version, vendor, bank version named |
| `request` | table `ApprovalRequest`, by idempotency key |
| `approvals`, `rejections` | table `ApprovalDecision`, by request and outcome |
| `bank` | latest committed `VendorBankAccountVersion.versionNumber` of a vendor |
| `submit`, `decide`, `edit`, `bankTx` | what the open transactions of the four handlers have read, found or locked |
| `escaped`, `overtaken`, `overlapped` | history, in `ApprovalHistory`: of pending requests, which were submitted while a bank account was replaced, which of their open decisions saw a bank account come, and which had two approvals that did not see each other |

| actions | code |
|---|---|
| `SubmitRead`, `SubmitCommit`, `SubmitStale` | `ApprovalsService.submit`: the checks; the writes; `moved.count !== 1` |
| `DecideRead`, `DecideStale` | `ApprovalsService.decide` up to the step-up check; `invalidate` |
| `DecideRecord` | the insert of the decision and the count of approvals |
| `DecidePartial`, `DecideApprove`, `DecideReject`, `DecideRefused` | its ends: no completion, completion, rejection, a trigger that raises |
| `EditRead`, `EditCommit`, `EditStale` | `InvoicesService.update` |
| `BankInsert`, `BankFindRequests`, `BankTakeRequest`, `BankFindInvoices`, `BankTakeInvoice`, `BankCommit` | `VendorsService.addBankVersion`: the insert; each `updateMany` finds its rows, then locks them one by one, checking each again |
| `*Timeout` | a transaction rolled back: the process dies, the time limit passes, a refusal |

### Why these steps are enough

A transaction is cut where another transaction could tell the difference.

* *Reads.* The several SELECTs before the first write of submit, and of decide,
  are one step. Versions and bank numbers only grow and a request never returns
  to PENDING, so a set of reads that passes all checks over several moments
  passes them at the last moment or is caught by the same WHERE or trigger.
* *DecideStale.* Once a request is not current it never becomes so again, so
  the comparison and the invalidation are one step.
* *Writes up to the commit.* Handlers that update rows do so in the order
  request, invoice, commit. Between the first UPDATE and the commit the row lock
  keeps others out, and nobody sees the writes, so these statements are one
  step. addBankVersion is the exception: it updates many rows in two
  statements. Each finds its rows in one step and locks them one at a time, in
  any order; it holds some while it waits for others, and the locks are state
  (`LockedRequests`, `LockedInvoices`) for which the other handlers wait.
* *One open transaction per key, per request and member, per invoice, per
  vendor.* The unique indexes on the idempotency key, on (request, member) and
  on (vendor, version number) admit one; of two edits of one version the WHERE
  lets one commit, and an edit that read an outdated version ends in
  `EditStale`.
* *Triggers.* `MayBecome` and `InvoiceGuard` are the two status triggers of the
  approval migration; the order of the statements in decide puts the request's
  update before the invoice's.
* `updateMany` of a row that became final raises in the trigger, and the whole
  transaction is lost: this is `BankTimeout`.
* Foreign-key checks take KEY SHARE locks, which no UPDATE of a status waits for.

Left out, on purpose: the reply to a repeated idempotency key (state does not
change); `requireSeparationOfDuties`, whose only value in the code is its
default `true`; deactivated memberships (no code deactivates one); the session
and role checks, which only refuse and are the constant `Approvers`; the audit
rows; the unique index of `RiskAssessment` on the invoice's version, which
`OneRequestPerVersion` shows is never met; invoices still in the ingest
pipeline. Callers are assumed to send a version they have been shown.

### Row locks

In `InvoiceApproval` only the sweeps hold locks from one step to the next. Who
can wait for whom in a circle is a question about all statements of all four
handlers, and little else, so `RowLocks` has the locks without the data: a
transaction runs the `Statements` of its handler in their order, each finds an
arbitrary set of rows (one, or several where the code says `updateMany` over a
vendor or an invoice, or none), locks them one by one in any order, and keeps
them until it ends. An insert locks its entry in each unique index. It ends
after any step: committed, failed, timed out, or chosen by the database's
deadlock detection. Left out: KEY SHARE locks of foreign keys, which no handler's
UPDATE conflicts with; the queue in front of a row. A row that no longer matches
once its lock is had stays locked here, as in PostgreSQL; `InvoiceApproval`,
where only the values matter, lets go of it.

### Properties

| property | says |
|---|---|
| `ApprovalHasQuorum` | an APPROVED request has as many distinct approvers as its risk requires, no rejection and no voice of its initiator |
| `ApprovedInvoiceIsBacked` | an APPROVED invoice is at the version, and names the bank account, some APPROVED request was made for |
| `ApprovedForLatestAccount` | a request is approved for its vendor's latest bank account, unless its submission overlapped with a new account and its deciding approval overlapped with one, too |
| `AwaitingInvoiceIsServed` | an invoice that waits for approval has a request for its present version and account that is PENDING, not rejected and short of approvals, unless two of its approvals did not see each other |
| `OneRequestPerVersion` | no two requests speak of one version |
| `CompletedRequestIsFinal` | verdicts and evidence never change |
| `FreezeIsScoped` | a bank version disturbs only its vendor's waiting invoices |
| `KeepsDualControl` | the request table implements `DualControl` |
| `OnlySweepsDeadlock` | who is part of a circle of waiting transactions has locked another row of the table it waits in, in a statement of addBankVersion or update over several rows: submissions and decisions close no circle |

`AwaitingInvoiceIsServed` does not say that somebody is left to decide: an
organization may have fewer eligible approvers than a high risk needs, and
nothing in `submit` looks at that. What the code can lose, the approval of a
member who already decided, is the exception it names, and `lost_completion`
shows that it happens.

### Runs

| run | instance | distinct states | shows |
|---|---|---|---|
| `decisions` | 1 invoice, 1 vendor, 3 members, 2 keys, 2 bank versions, edits up to version 2, 2 decisions open | 181 552 | the safety properties of the tables and the refinement |
| `handlers` | 1 invoice, 2 vendors, 2 members, one of them approver, 1 key, 2 bank versions, edits up to version 2, 1 decision open; beside it 3 transactions, 2 requests, 1 invoice and 1 entry of each index in `RowLocks` | 251 640 | freezes of two vendors with an invoice that changes vendor; who closes a circle of locks |
| `lost_completion` | violation | | two concurrent approvals leave a request PENDING for ever |
| `rejection` | violation | | an edit takes a rejected invoice back to review |

All take the steps of `HSpec`, which adds the history to `Spec` and restricts
nothing: every behaviour of `HSpec` is one of `Spec` (`HistoryRecords`), and the
history variables are determined by the rest.

*Bounds.* Two keys are two rounds of approval of one invoice, or concurrent
submissions of it. An edit may start from versions 1 and 2, so that a draft, or
an invoice that already awaits approval, is edited, and a second round follows
with an edit of the first still under way. Three members are an initiator and
two approvers, the most a high risk needs, with one to spare when another
initiates. `MaxBank = 2` is a first version, which freezes nothing, and one that
does: both overlaps of `ApprovedForLatestAccount` fit around that one commit.
`MaxDeciding` bounds the decisions open at once; two are the largest quorum, and
the proofs cover any number. In `RowLocks` three transactions allow a circle
longer than a pair, and one that waits for a circle without being part of it; two
requests are enough for two sweeps to meet in opposite orders, and the proof
covers any number of transactions and rows. Deadlock checking is off because all
bounds may be used up, and the system may legitimately rest there.

No fairness is assumed: nothing here says that a transaction ends. Whether locks
could keep it from ending is `OnlySweepsDeadlock`. The circles it admits are not
excluded by the data either, though they need requests that escaped a sweep and
stayed PENDING while their invoices went on: two sweeps for vendors between which
two such invoices move, or a sweep and an edit of an invoice with two PENDING
requests, lock the same rows in an order that an UPDATE does not promise.
PostgreSQL ends one of them with an error that the handlers do not retry.

### Where the code departs from its documents

* `lost_completion`: `docs/milestone-0.5.md:22`, "Enough approvals move the
  current invoice version to APPROVED". The count at
  `approvals.service.ts:346` does not see the other transaction's approval.
* `rejection`: the same line, "A rejection is reasoned and terminal". A
  rejection leaves the version as it was, and `update` names only the version
  in its WHERE. The reverse order exists too: a rejection updates the invoice
  by id alone (`approvals.service.ts:341`).

A submission under way escapes the sweep of a new bank version, and its request
stays pending for the previous account. decide's own comparison
(`approvals.service.ts:280`) refuses it when it is next decided, so that an
approval for an old account needs two overlaps: the submission commits while the
new account is not yet committed, and the deciding approval has read the account
by then and commits after it. This is what `ApprovedForLatestAccount` says, and
less than line 24 of the same document, "new bank-account versions invalidate
pending requests": the double overlap is reachable in the model, and no trigger
and no WHERE of the code closes it.

## 4. IngestPipeline

### State and actions

| variable | code |
|---|---|
| `document`, `processing` | tables `Document` (storage state, approved key, duplicate) and `DocumentProcessing` (state, scan result) |
| `invoice` | `Invoice.status` while it is the pipeline's; each document has its own invoice |
| `quarantine`, `copies` | the objects in the two buckets; a run copies under a fresh random key, for which its number stands |
| `job` | the BullMQ job: state, failures (`attemptsMade`), stalls, deliveries so far |
| `upload` | how far `InvoicesService.upload` is with a document |
| `phase`, `last`, `match` | each delivery's place in `InvoicePipeline.process`, its `finalAttempt`, the duplicate it found under the lock |
| `content` | the bytes, so far as two documents have the same |

| actions | code |
|---|---|
| `UploadStore`, `UploadCommit`, `UploadRefused` | `upload`: put into quarantine; the transaction; its failure and the deletion of the object |
| `UploadPublish`, `UploadUnpublished`, `UploadMark` | `enqueue`; its failure; `markManualReview` |
| `Deliver`, `Stall`, `Report` | the queue: a delivery, the check for stalled jobs, the end of a delivery |
| `Load` | `load` and the two tests after it |
| `BeginScan`, `Scan`, `Block` | `progress` to SCANNING; download and scan; `block` |
| `Copy`, `Match`, `Promote`, `PromoteRefused`, `DeleteQuarantined` | the copy; lock and search for a duplicate; the updates and COMMIT; ROLLBACK and deletion of the copy; deletion from quarantine |
| `TakeUp`, `Extract`, `Finish` | the branch of an approved document; OCR; the last transaction |
| `Refused`, `Fails` | the trigger raises; a call fails |
| `ResetForRetry`, `ManualReview`, `MarkInvoice` | the catch block |
| `UploadDies`, `RunDies` | the process dies |

`DocumentGate` is what all this promises: a document is received, then cleared
once, with one kept copy and the name of an earlier equal document if there is
one, then reviewable; or it is blocked before it was cleared; or it is handed to
a person. Reviewable, blocked and manual are for good.

### Why these steps are enough

* *Statements and transactions.* Every statement outside a transaction is a
  step. The transactions of `upload`, `block` and `Finish` write rows they have
  not read, so each is one step at its COMMIT, with the trigger as its guard;
  the row locks keep others out between its first UPDATE and its end.
* *Promotion* is two steps, since it reads before it writes: `Match` takes the
  advisory lock and looks for a twin, `Promote` commits. The lock is the phase
  "matched"; `FingerprintFree` makes the others wait. Any way out of that phase,
  death included, ends the transaction and with it the lock.
* *A reply that is lost.* `Does` has two outcomes: the run goes on, or the
  connection breaks after the effect and the run is in its catch block although
  it happened. After a COMMIT that broke, ROLLBACK throws as well, so the
  deletion of the copy is not reached: only `PromoteRefused` deletes.
* *Overlap.* `Stall` returns an active job to the queue while its run goes on,
  as BullMQ does when the lock of a job is not renewed (the process is stuck or
  cut off). At most `Attempts + MaxStalled` runs of a job exist.
* *resetForRetry* reads `Document` in the statement that updates
  `DocumentProcessing`. If a promotion commits just then, it may use the older
  storage state and ask for PARSED -> QUARANTINED, which the trigger refuses: the
  statement fails, which is `Fails`.
* *waiting* stands for a job that waits, in the queue or for its backoff.

Left out: the text OCR finds, progress figures, the `attempts` column,
heartbeats and audit rows; temporary files; the order of `createdAt` (the twin
found is any of them). The bounds of the code's queue are three attempts and,
by BullMQ's default, one stall. Deadlock checking is off because the system
rests when every job has ended.

### Properties

| property | says |
|---|---|
| `StorageAgrees` | approved = found clean = has a key whose copy exists; blocked = found infected; however deliveries overlap |
| `InvoiceAgrees` | the invoice shows a verdict only if the document has it, and never shows a finished document as in processing |
| `DuplicatesAreMarked` | of approved documents with the same bytes just one is unmarked |
| `KeepsGate` | the two tables implement `DocumentGate` |
| `JobsEnd` | a published job ends |

`InvoiceAgrees` lets the invoice be PROCESSING while its document is in
MANUAL_REVIEW: a worker that dies, or a call that fails, between the two
statements of `manualReview` leaves it so, and no later delivery repairs it.

### Runs

| run | instance | distinct states | shows |
|---|---|---|---|
| `deliveries` | 1 document, 2 attempts, 1 stall, 2 deaths | 69 111 | tables, bucket and invoice agree, the gate is kept, the job ends |
| `duplicates` | 2 documents with the same bytes, 1 attempt, 1 death, beside the pages of section 9 | 490 290 | one original |
| `stranded` | violation | | a job given up as stalled leaves its document in SCANNING or PARSED |
| `leak` | violation | | a reviewed document is still in quarantine |

*Bounds.* Three deliveries of one job, two of which overlap, reach every pair of
phases of two workers on one document. For duplicates two documents suffice for
one promotion against another; three or more are covered by the proof. Two
deaths let both the upload and a worker, or two workers, be lost.

*Fairness.* Handlers and workers carry on (weak fairness for the steps of
`Uploading` and `Working`), the queue delivers what waits and finds jobs whose
worker is gone. Nothing forces or forbids failing calls, deaths, or stalls of a
living worker. Weak fairness of `Match` is enough: if another run holds the lock
it ends. Two things are assumed that the code does not bound: Redis comes back
(`maxRetriesPerRequest: null`), and every call ends (OCR has no time limit).

### Where the code departs from its documents

* `stranded`: `docs/milestone-0.4.md:30`, "Scanner, storage, or OCR failure:
  `MANUAL_REVIEW`". Only the catch block of `process` writes it; when the worker
  itself is lost as often as the queue tolerates, the job fails without a call
  of `process`, and the `failed` listener (`apps/worker/src/main.ts:58`) only
  logs.
* `leak`: `docs/milestone-0.4.md:17`, "The clean object is copied to the
  approved bucket and removed from quarantine". After a failing deletion the
  retry takes the approved branch, which does not delete again.

## 5. Sessions

### State and actions

| variable | code |
|---|---|
| `session`, `token` | tables `Session` and `SessionRefreshToken` |
| `lapsed` | sessions past `expiresAt`, or of a user or member no longer active |
| `phase`, `arg`, `locked`, `todo`, `outcome` | each request's transaction: its last statement, its argument, the session rows it has updated, the token rows its UPDATE has found, what it will answer |
| `jar`, `call` (SessionClient) | the cookies of a browser; what each call of `apiRequest` is doing |
| `excused` (SessionClient) | history: tokens for which a second use is no theft |

| actions | code |
|---|---|
| `Create` | `SessionService.create`, one transaction of inserts |
| `RotateRead`, `Consume`, `RotateSession`, `RotateCommit` | `rotate`: reads and checks; the UPDATE of the token under `usedAt: null`; that of the session; the insert of the successor and COMMIT |
| `Revoke`, `RevokeAll`, `RevokeSessions`, `RevokeScan`, `RevokeTokens` | `revoke`, `revokeAll` and the reuse path, through `revokeFamily` |
| `Deadlock`, `Rollback` | PostgreSQL ends a transaction that waits for another in a circle; a time limit, a failure, a crash |
| `Send`, `Serve`, `Unauthorized`, `Refresh`, `Receive`, `Lose`, `AccessExpires` (SessionClient) | `apiRequest`: the call with the cookies of the moment, `SessionAuthGuard`, the one refresh on a 401, the repetition; an answer that arrives and sets cookies, or is lost |

`TokenFamily` is the promise: a family starts with one token, a rotation
replaces it by one never seen before, a dead family is not continued.

*Steps.* Each UPDATE is a step, since it waits for row locks and evaluates its
WHERE again; `revokeFamily`'s second UPDATE is two (the rows it finds, the rows
it writes), because a rotation may insert a token in between. Reads that nothing
separates are one step.

### Properties and run

| property | says |
|---|---|
| `ChainEnds` | a session has one token that was not consumed, its newest |
| `RevokedIsDead` | no successor escapes a revocation |
| `RefusedIsDead` | a refusal of a token is answered only after its family is dead |
| `KeepsFamily` | the tables implement `TokenFamily` |
| `NoFalseAlarm` | a consumed token is presented again only if two calls held it or an answer was lost |
| `CallsEnd` | every call ends, whatever deadlocks there are |

`sessions`: 1 user, 1 session, 4 tokens (three rotations), 2 requests, 1
browser; 124 832 distinct states. Two requests are every pair of rotation,
revocation and reuse; the proofs cover more sessions and requests.

*Fairness.* What the API has begun it serves, and an answer arrives or the fetch
fails (weak); a row lock is granted to those who wait, in turn, and a deadlock is
broken (strong fairness of `Server`). Nobody has to send anything.

## 6. Passkeys, risk engine, risk policy

`Passkeys`: the challenges, credentials, step-up times and logins of one user's
sessions (`challenge`, `credential`, `stepUp`, `login`), the requests
(`Ask`/`Issue` for the options, `Verify`/`Consume`/`Register` or `StepUp` for
the answers) and the authenticators (`Sign`). `RiskEngine` is
`evaluateInvoiceRisk` as operators. `RiskPolicy` extends both: the row created by
the first transaction that needs it (`Read`, `Insert`), `UpdatePolicy` behind
`StepUpGuard`, and `Assess`, what a submission does with it.

| property | says |
|---|---|
| `ChallengesEndOnce` | a challenge is accepted once or set aside, not both |
| `VerifiedByOwnChallenge` | a session is verified from a moment its own challenge was open |
| `AddedWhileAuthorized` | a passkey is added by a session that was allowed to when it asked or answered |
| `AssessmentsReproducible` | the version an assessment names gives its level again |
| `ThresholdsOrdered` | medium below high, after two patches of owners who read the same row |
| `MoreReasonsHigherLevel` | more reasons never give a lower level |
| `PolicyChangesVerified` | the policy changes only for a session verified shortly before |

`settings`: 2 sessions, 2 authenticators, 3 challenges, 2 requests, a clock of 3
ticks with every lifetime 1, policy versions up to 3; 237 387 distinct
states. The constraint `Explored` lets the policy move only while no passkey
request is under way, with one session: the two sides share only the step-up
time, which the passkey side is explored with on its own. There a third challenge
is issued only while at most one request is under way. An owner asks for one of
two patches: the medium threshold, or both thresholds with a score.

## 7. Vendors, contracts, lists, dashboard

`VendorCoverage` has the `Vendor` and `Contract` rows with their links and
versions (`row`), the administrator's grants (`granted`), and the requests:
`CreateVendor`, `UpdateVendor`, `CreateContract`, `UpdateContract` (the reads and
checks), `Claim` (the UPDATE under the version, which waits for the row),
`Relink` (the links, with the triggers of the `crm_core` migration), `Commit`.
`VendorPassport` has the versions of a bank account, their verifications
and the dashboard's four statements. `Listings` has a list read page by page by
a cursor while rows move: `Result` is what the query finds from the place the
cursor's row has now, a page is the rows of certain ranks in it, and `listed`
counts how often the client was shown a row.

| property | says |
|---|---|
| `CoveredUnlessRaced` | a contract covers only buildings its vendor is linked to, unless its check overlapped the unlinking |
| `LinksAsAsked` | a commit leaves the links that were asked for |
| `ChangesAuthorized` | an administrator changes only what lies in the buildings granted, before and after |
| `ListingComplete` | a list read to its end has every row that stood still, once, unless the cursor's row moved |
| `CompleteIsVerified` | what the dashboard calls complete has a VERIFIED account no older than any known when it began |

`raced` is the exception of `CoveredUnlessRaced`, and the violation run
`coverage_skew` shows that it is needed: the triggers read without locks, so a
contract that adds a building and a vendor that loses it both commit. The
`crm_core` migration says (`prisma/migrations/20260828120000_crm_core/migration.sql:402`)
"A contract may cover only buildings already authorized on its vendor passport."

## 8. Fake bank webhook

`FakeBank`: notices delivered again, late, by two requests at once or with a new
timestamp; `Receive` finds no delivery, `Record` inserts under the unique index,
`Replay` answers a duplicate, `Unanswered` commits and loses the answer.
`EventsRecordedOnce`: one notice of an event is recorded, and only that one was
ever accepted.

Sections 7 and 8 share the run `coverage`: 2 vendors, 1 contract, 2 buildings, 2
requests, 3 versions; 2 events, each for an account of the organization or another, with two timestamps; 3 rows of a list, 2
of them written; 2 account versions with 2 verdicts. 486 612 distinct states.
`MaxWrites` ends the beginning of requests on vendors and contracts, not their
progress; `Explored` follows an administrator who has been granted something
no further than the creation of the second vendor. Two requests are the least that race; the skew needs one contract and
one vendor.

## 9. Web pages

`InvoicePage` is the review page: the inbox, the selected invoice, the draft in
the form, the calls of `load` and of the poll (`ListArrives`, `Arrive`, `Poll`),
and the reviewer's clicks (`Save`, `SubmitForApproval`, `UploadClick`), against a
server whose invoices others change too. A save or a submission is a transaction
of two steps there: `ReadForWrite` reads the row and checks its status,
`ServeWrite` is the UPDATE with its WHERE, and in between others write
(`Elsewhere`): new versions (`Edit`, `Submission`) and, under an unchanged version, new
statuses (`Restatus`: a worker that does a job again, a decision that goes by the
id). `CrmPage` is the page of buildings and
vendors: `load` after every form, the effects that fetch the two details
whenever a selection or the profile changes and that nobody cancels (`Sent`,
`Serve`, `Arrive`), and the six forms.

| property | says |
|---|---|
| `PageConsistent` | the buttons are disabled just as long as something of the reviewer's is under way |
| `AcceptedAsShown` | what the server accepts is for the invoice and version that the page showed at the click, with edits typed for that invoice over that version or an earlier one; a submission finds the status shown, too; a save leaves no approval standing |
| `OwnWritesShown` | a CRM page at rest shows the detail of what is selected, with everything its user was told he created there, unless the last answer to arrive was not that of the last call |

The exception of `OwnWritesShown` is what the code really does: with answers out
of order the page may show the detail of another building, or an old one, until
the next load. `AcceptedAsShown` is as strong as the code makes it, too. The
status is tested on the row read first (`invoices.service.ts:197`) and only the
version is in the WHERE (`:221`), so a save may write over a rejection or a
worker's status of the same version; it then keeps that status, or sets
NEEDS_REVIEW if it had read AWAITING_APPROVAL. And the form is keyed by the
invoice's id (`invoices/page.tsx:264`): a draft typed over one version is kept
when the page loads the next one, and saved under that version, over what others
changed in it. The property records the version a draft was typed over and allows
just this.

All are checked by `duplicates`: 2 invoices, the first with up to 3 versions, the
second uploaded and read by the worker but not changed further, 2 calls under way
and none beside a request of the invoice page that its reviewer waits for
(`Explored`); 2 buildings, 1 vendor, 1 entry, 1 load and 2 detail calls under way.
Three versions are a shown one, one that overtakes it, and what a write makes of
that; the second invoice is there to be confused with the first.

Smaller things met on the way, which no property denies: `setSelectedId` in
`load` changes the callback that runs it (`invoices/page.tsx:80`), so a first
load runs twice; a preview asked for may arrive after another invoice was
selected (`:134`); `event.currentTarget` is used after an await in
`invoices/page.tsx:111` and `approvals/page.tsx:102`, where it is null, so that
the reload after a decision does not happen; after a search the CRM page adds a
bank account to the selected vendor although the select box, which no longer
lists it, shows "Select vendor".

## 10. Proofs

### InvoiceApproval

`InvoiceApprovalProofs` and `RowLocksProofs` prove, for any sets of invoices,
vendors, members and keys and any bounds, everything in the table of properties.
Assumptions: the approvers are finitely many members
(`ApproverAssumption`), and `None` is not a row (`NoneAssumption`).

The invariant is `TypeOK /\ Inductive /\ ApprovedInvoiceIsBacked /\
AwaitingInvoiceHasRequest`, the last of which `AwaitingInvoiceIsServed` sharpens.
The properties alone are not inductive:

* `KeysInOrder`: decisions, open or committed, belong to requests that exist.
* `LocksHold`: rows locked by the sweep of an open bank transaction are PENDING
  and AWAITING_APPROVAL until it ends, no two transactions hold one, and the
  second UPDATE finds, or has locked, the invoice of every locked request that
  speaks of its present version. Without it `BankCommit` could
  overwrite a verdict or leave an invoice without its request.
* `DecisionsInOrder`: an open decision is by someone who may decide and has
  not, and a transaction about to approve still has its quorum when it commits,
  because approvals are never taken away.
* `VersionsInOrder`: one request per version, none on a version that is a
  draft or that an open edit read as one, and the invoice keeps the bank account
  of the request for its version. Without it an edit that does not invalidate
  could change an approved version.

There is one lemma per part of the invariant (`NextType`, `NextKeys`,
`NextLocks`, `NextDecisions`, `NextVersions`, `NextBacked`), with one step per
action, over lemmas that say what each commit does to the tables
(`SubmitCommitRows`, `VerdictRows`, ...). `Invariance` puts them together; the
state theorems and the two action properties follow from it. The refinement
(`ImplementsDualControl`) maps each step to one of `Open`, `Endorse`,
`EndorseAndApprove`, `Object`, `Void` or a stutter.

These theorems are about `Spec`, and `HistoryRecords` (`HSpec => Spec`) carries
them over to `ApprovalHistory`. `ApprovedForLatestAccount` and
`AwaitingInvoiceIsServed` need two parts more:

* `AccountsInOrder`: a pending request that did not escape is for the present
  version and the latest account (`Fits`), and a sweep under way has found it
  (`Swept`); and it fits, escaped or not, while a decision that was not overtaken
  is open. Without the second half an escaped request could be approved in one
  overlap.
* `CountsInOrder`: a pending request without overlapping approvals is short of
  approvals, and the one approval under way that did not complete it leaves it
  short.

`DeadlocksOfSweeps` gives each statement of each handler a rank that grows along
the handler and is the same for one table in all of them. Along a circle a
transaction waits at a rank that is at most that of what the next one waits for,
so all ranks of a circle are equal, and each has locked a row of that rank
already: that only happens inside a statement that finds several rows.

### IngestPipeline

`IngestPipelineProofs` proves, for any sets of documents and contents and any
limits of the queue, `StorageAgrees`, `InvoiceAgrees`, `DuplicatesAreMarked` and
the refinement of `DocumentGate`. Assumptions: there is an attempt
(`BoundsAssumption`), and `None` is neither a document nor a key
(`NoneAssumption`). The invariant is those three with `TypeOK` and `Inductive`:

* `JobsInOrder`: a job is published once, after its rows, and the deliveries are
  the failures and stalls so far, plus the one that is active. Without it the
  counters could pass their limits, and a run could start twice.
* `RowsInOrder`: nothing is done for a document without rows, and one that is
  still to be scanned has no key.
* `RunsInOrder`: what a run relies on without having read it just now: its copy
  is there, the document it takes up as approved is approved, no one else's
  promotion used its key, and the document is settled when it turns to the
  invoice.
* `LockHolds`: one run at a time holds the lock of a fingerprint, and the twins
  it found are the twins there are, until it lets go. Without it two promotions
  could both find none.

`WritesRow` lists the eleven ways in which the tables are written; `StepWrites`
shows that there are no others, so that the lemmas about the tables
(`NextStorage`, `NextInvoice`, `DocumentKept`) need not go through the actions
again. `PhaseStep` and `StepPhases` do the same for the phases of runs
(`NextRuns`, `NextLock`). `WriteStage` maps each write to a step of
`DocumentGate` or a stutter.

### Sessions

`SessionsProofs` proves, for any sets of users, sessions, tokens and requests,
`ChainEnds`, `RevokedIsDead`, `RefusedIsDead` and the refinement of
`TokenFamily`. Assumption: `None` is no row and no id (`NoneAssumption`). The
invariant adds `SessionsInductive` to them:

* `RotationSound`: a rotation past its checks speaks of an issued token of its
  family, and past its first UPDATE of one that is neither consumed nor revoked
  in the committed table.
* `RevocationSound`: what a revocation has locked is in its scope, and past its
  scan every token of a locked session is revoked or among those found.
* `LocksApart`: no two transactions hold one row. Without it a rotation could
  insert a successor behind the scan of a revocation.
* `TokensHaveSession`: a token belongs to a session that exists.

`StepCases` reduces a step to the statement of one request, `ActsAlone` says
that it leaves the other requests' locals alone, and one lemma per kind of
write says what happens to the two tables; the parts of the invariant follow
from those, and each write is `Start`, `Advance`, `Kill` or a stutter of
`TokenFamily`.

For any browsers, too, `BrowsersUseSessions` shows that what `apiRequest`, the
cookies and lost answers do to the service is a behaviour of `Sessions`, so that
these theorems hold behind them, and `NoAlarmWithoutCause` proves
`NoFalseAlarm`. `ClientInvariant` adds:

* `CallsSound`: the transaction of a request is the one its call waits for, about
  the token it presented. `CookiesIssued`: a cookie is a token of the table.
* `TokensPlaced`: a token is on its way to a browser, or in one browser and in
  calls of that browser (`OnePlace`); without an excuse one call at most presents
  it, and once it is spent that call is the one whose rotation spent it, whose
  answer will replace the cookie (`SpentOnce`). Without the first half, two
  browsers could hold one token; without the second, the old cookie could be
  sent again after its rotation.

### Passkeys and the risk policy

`RiskPolicyProofs` proves, for any sessions, authenticators, challenges and
requests and any limits of time, `ChallengesEndOnce`, `VerifiedByOwnChallenge`
and `AddedWhileAuthorized`, from `PasskeyAssumption`. `PasskeyInvariant` adds to
the first two:

* `RequestsInOrder`: a challenge that a request has verified or consumed is the
  answered one of its session and purpose, and the rows it has locked are still
  unused. `LocksApart`: no two transactions hold one row. Without them a
  challenge could be accepted twice, or be set aside after it was accepted.
* `EndedWereIssued`, `IssuedBefore`: what has ended was issued, and not in the
  future.
* `MarksAreVerified`: a session is marked from a time it was verified at.
* `RegistrationsAuthorized`: a challenge of registration was issued to a session
  that had logged in or stepped up recently.

The same module proves `AssessmentsReproducible`, `ThresholdsOrdered`,
`PolicyChangesVerified` and `MoreReasonsHigherLevel`, from `PolicyAssumption`: the
row is the last of those ever committed, no two committed share a version
(`RowsInOrder`); only one transaction has inserted the row while there is none
(`WorkInOrder`); an assessment was made by a committed policy
(`AssessmentsInOrder`); a change under way passed the guard
(`PatchesVerified`); a total grows with each rule that applies (`TotalGrows`) and
a level with its total (`LevelGrows`), whether the thresholds are in order or
not. The passkeys' invariant is preserved because a step of
the policy leaves their tables alone, and the other way round.

### Vendors, contracts and buildings

`VendorCoverageProofs` proves, for any vendors, contracts, buildings and
requests, `CoveredUnlessRaced`, `LinksAsAsked` and `ChangesAuthorized`, from
`CoverageAssumption`. The invariant adds:

* `JobsSound`: what a request has read is out of date only if the version it
  expects is, and what it has claimed is not; what it read and what it wants
  lie in what its actor could manage.
* `LocksApart`: no two transactions hold one row. Without it a row could change
  between the UPDATE that checked its version and the commit.
* `ContractsHaveVendor`.
* `PassedSound`: what has passed the triggers is still right, unless the
  contract is in `raced`. Without it a commit could break coverage that was
  checked before another commit.

`CrmSteps` reduces the actions to what they do to the rows and to one request;
`CommitLinks` shows that patching a vendor's links by differences gives what
was asked, because the links read are those of the version that the UPDATE
found. `ContractCommit` and `VendorCommit` are the two cases that matter: either
the overlap puts the contract in `raced`, or the building is not among those
removed.

### Organization

`OrganizationProofs` is about every interleaving of the records, the webhook,
the lists and the passports. Each of them behaves as its own
specification says (the lemma `ComponentsRun`), so that the theorems about
`VendorCoverage` carry over.
`TypesKept`, `RecordedOnce`, `ListsComplete` and `CompleteVerified` are proved
for any constants that meet `CoverageAssumption` and `OrganizationAssumption`,
from the conjunction of the components' invariants.

*The webhook.* `EventsRecordedOnce` is inductive with the types: `FirstOfEvent`
is the unique index.

*Lists.* `ListingComplete` speaks of the end of a list only. While it is read:

* `ListedSound`: as long as no cursor's row has moved, a row that nobody wrote was
  listed once if it is found and stands no later than the cursor's row did when
  that was served (`Passed`), and otherwise never.
* `CursorSound`: the row of a cursor was found when it was served. Without it the
  row that `skip: 1` passes over would not need to be the cursor's.
* `AuditSound`: of audit events the cursor's row is still as it was served.

The argument is about ranks. In a finite set of rows every row has a different
one and every number below the size is taken (`RankOrders`, `RankTaken`), the
cursor's row has rank 0 (`CursorFirst`), so that a page continues just behind it
and `HasMore` is false only when nothing is left (`PageEnds`).

*Passports.* What was known stays true (`Grows`, `KnownIsKept`), what the
dashboard has read so far is no older (`ReadingsSound`), and a verification under
way is of a version that exists (`VerifyingSound`). That the latest version is
no older than any known one (`LargestIs`) rests on the well-foundedness of the
naturals.

### Inbox

`InboxProofs` is about every interleaving of the pipeline and the two pages, for
any constants that meet `BoundsAssumption`, `NoneAssumption` and
`InboxAssumption` (finitely many invoices whose ids are numbers; `None` is
neither a row nor a request). Each part behaves as its own specification says (the
lemma `PartsRun`). `PageConsistent`, `AcceptedAsShown` and `OwnWritesShown` are
about answers that arrive late, in any order, or never.

*The invoice page.* `PageInvariant` adds to the types:

* `CopiesSound`: a copy of a row, in the page, in a call or at a click, has a
  version no greater than the row's; and if the versions are equal and the row
  awaits approval, so did the copy. Nothing more is true of statuses: the worker
  and the decisions change them without a new version. The second half is what
  keeps an accepted save from leaving an approval standing.
* `ReadSound`: the same of the status that a transaction has read, at the version
  it will ask for.
* `DraftsSound`: a draft was typed over a version that the row has had.
* `TypedShown`, `WriteShown`: edits are for the invoice that is shown, and a request
  is made of what the page showed at the click. `RowsOwned`: a row has its own id.
* `OneAwaited`, `CallsFormed`: the buttons wait for one thing, the request or the one
  load that follows it. Without it a second answer could enable them too early.

*The CRM page.* `OwnWritesShown` excepts a page whose last answer was overtaken,
so the proof follows the last call of each detail:

* `DetailFresh`: the last call that no later answer has overtaken is for what is
  selected, and its answer, like the detail once it is shown, holds everything
  the user was told he created there, unless a load he waits for will ask again.
* `MineRecorded`: what he was told he created is in the record, so that a call
  served later finds it. `FormAwaits`: one request, or the one load after it.
* `FetchesFormed`, `SelectionExists`, `RequestFormed`: calls, selections and
  requests are about records that exist.

Here, too, sequences of calls are reasoned about by position (`Without`
removes one call), not by induction.

### Only model-checked

`JobsEnd` and `CallsEnd` are liveness under fairness, out of
TLAPS's reach. All other properties of the passing runs are theorems. The types of
the organization are a theorem only (`TypesKept`). The
violated statements are refuted by TLC's counterexamples.

## 11. Not modelled

* Encryption, hashing, CSRF, validation and masking, the roles and scope guards:
  pure functions of one request.
* Audit rows: appended, never read back except as a list.
* Row-level security and grants: every run is of one organization.
* The approvals, security, login and onboarding pages; the preview of a document.
* What a late worker does to an approval under way. Its last step sets
  NEEDS_REVIEW whatever the status (`apps/worker/src/invoice-pipeline.ts:106`):
  `InvoiceAgrees` is about the pipeline's own writes, `InvoicePage` has this one
  among the writes a reviewer's click may meet, `InvoiceApproval` does not have it.
* Apartments and occupancies, beyond what a page shows of them. `buildings.list`
  does not look at the dates of an occupancy, `assertCanRead` does.
* Packages, seed, scripts, deployment.

Known limits of what is modelled: a login that overlaps `revokeAll` is not
revoked (`session.service.ts:246`), which is why `RevokedIsDead` speaks of
sessions that were found; an update may leave a contract without a building
(`crm/dto.ts:493`); two sessions may each add a first passkey while there is
none; the risk engine compares amounts without their currencies; the member who
added a bank account may verify it (`vendors.service.ts:304`).
