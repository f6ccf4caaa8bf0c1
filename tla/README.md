# RecordBench: TLA+ models and proofs

TLA+ modules of the parts of RecordBench that coordinate concurrent work: the job queue of the transcription service and
the delivery of its transcripts, the work done in a matter of the workbench, its every-source reviews with the uploads and
the ingestion of sources beside them, and the queue that compiles reports. TLC checks small instances of each
(PROJECT.json lists the runs), and TLAPS proves safety properties of the transcription queue, of the report queue and of
uploads, ingestion and reviews together, and that the report queue implements its abstract specification, for every value of
their constants. Paths below are relative to the repository; `case_intelligence` stands for `src/case_intelligence` and
`transcription_v2` for `services/transcription/src/transcription_v2`.

## 1. The system

RecordBench is a self-hosted evidence review workbench. Two programs keep durable state:

* **the workbench** (`case_intelligence`), one web process with threads and one SQLite control database. HTTP handlers,
  answer threads, research threads, review threads, ingestion threads and a maintenance thread share it. A store method
  runs under a process lock and in one transaction;
* **the transcription service** (`transcription_v2`), an API process (threads and a cleanup daemon) and worker processes
  over one SQLite job table and a directory per job.

The workbench uploads recordings to the service and polls it; otherwise the two share nothing.

### Inventory

| Component | State | Operations | Hard behaviour | What makes it correct |
|---|---|---|---|---|
| Transcription queue and retention (`store.py`, `worker.py`, `api.py`, `storage.py`, `cli.py`) | job rows, job directories, worker memory | submit, claim, stages, heartbeat, complete, fail, cancel, retry, recover, hard delete, sweeps | workers that lost their claim, crashes, deletions in three steps, batches with one deadline | only the claimant writes; a cancellation or a reserved deletion wins; nothing is stored for ever |
| Conversation work (`answer_jobs.py`, `workflow_jobs.py`, `workspace_store.py`) | answer and research rows, messages, thread memory | ask, claim, generate, finish, fail, cancel, retry, continue, recover | threads that outlive a restart, admission across two tables, archiving and team changes around a running job | one request at a time in a conversation, one result per request, results only for those with access |
| Matter lifecycle (`workspace_store.py`, `workbench.py`) | lifecycle row, source tree, quarantine | purge, recovery of purges | failure between moving, projecting, erasing and closing | nothing runs under a purge; a purge ends or can be tried again, after the next start where its failure could not be recorded, and is never undone |
| Report compilation (`report_compilation_jobs.py`, `report_compilation_flow.py`) | compilation rows with leases, reports | queue, claim, heartbeat, fingerprint, complete, fail, cancel, retry, release | leases that lapse, several processes, shutdown, edits of the selected work | one report, of current work, by the holder of the lease |
| Every-source review (`workflow_jobs.py`, `workspace_store.py`) | review runs, frozen decisions, counters | start, claim, record, change of source, finish, cancel, retry | sources that change during the check, threads that outlive their process, adjudication | verdicts are about the frozen text; counters agree with decisions; only the present attempt decides |
| Full-text review and synthesis (`full_text_*.py`, `hierarchical_synthesis.py`) | checkpoints, budgets | extract, merge, checkpoint | budgets that run out between steps, resumption | no work twice, no budget exceeded, a verdict is borne out by the ledger |
| Transcription delivery (`api.py`, `review_exports.py`, `batch_exports.py`, `delivery_tokens.py`) | edits, export bundles, one-use grants | edit, export, grant, deliver, delete after delivery | edits between delivery and deletion, two exports at once, restart | what is streamed was reviewed; a batch link deletes no edit of a recording in its archive that it did not stream |
| Uploads and ingestion (`pilot_uploads.py`, `ingestion.py`, `managed_storage.py`, `malware_scan.py`, `intake_receipts.py`) | sessions, staged files, catalog, ingestion jobs | upload, commit, replace, process, remove | crash between staging and catalog, storage reservations | every accepted file is catalogued once |
| Media (`media_evidence.py`, `media_playback.py`) | remote job state, renditions | submit, poll, render, cancel | lost answers, process-local queues | transcripts belong to the version they were made of |
| Notebook and reports (`store/notebook.py`, `store/reports.py`) | notes, sections | edit with an expected timestamp | two editors | no lost update |
| Entities, assertions, knowledge | revisions, discovery jobs | propose, review, merge | stale revisions | decisions refer to what was seen |
| Sessions, identity, accounts, groups | sessions, lockouts, memberships | sign in, revoke | expiry races | no session outlives its right |
| Retrieval, generation, extraction, pages, scripts, deployment, benchmarks, Slice-1 foundation | little or none | | | not modelled, see section 7 |

PROJECT.json lists the source files of each, its status, and the hazards of this code at their lines.

## 2. Plan

| Order | Module | Status |
|---|---|---|
| 1 | `TranscriptionQueue`, `TranscriptionQueueProofs` | modelled, checked, proved |
| 2 | `MatterWork` (implements `DurableRequest`), `MatterWorkProofs` | modelled, checked, proved |
| 3 | `DurableRequest` (abstract), `ReportCompilation` (implements it), `ReportCompilationProofs` | modelled, checked, proved |
| 4 | `SourceIntake`, `ReviewRuns` (extends it), `ReviewTypes`, `ReviewProofs` | modelled, checked, proved |
| 5 | `TranscriptDelivery`, `TranscriptDeliveryProofs` | modelled, checked, proved |
| 6 | `UploadSessions` (extends `SourceIntake`); `Workbench` composes it with `ReviewRuns`; `UploadTypes`, `WorkbenchProofs` | modelled, checked, proved. Left: storage reservations, scans, media jobs |
| 7 | `MediaPipeline`: workbench side of transcription and playback | planned |
| 8 | optimistic edits of notes and reports; session and membership expiry; discovery queue | planned, as small modules |

## 3. Modules

Each store method is one transaction and so one action. What a handler or a thread reads in one transaction and acts on
in the next is separate steps, and everything else may happen in between. Bounds are constants with names that begin
with `Max`. Messages, names, times of day, audit rows and texts are left out.

**TranscriptionQueue.** `job[j]` is the row: status, stage, attempt, `worker_id`, and abstractions of its times (a
deadline is absent, ahead or due; a heartbeat is fresh or stale; a row is younger or older than the active-job cap).
`tree[j]` is its directory, `wk[w]` what a worker process remembers, `del[p]` the hard deletion a process is in the
middle of (reserve the rows, remove the trees, remove the rows), `sub` the upload that is being stored. Actions follow
`store.py`; `Script` is the order of calls of `worker._process`, `HandleException` and `FailJob` its exception handler,
`RecoverRunningJobs` and `EndMaintenance` its maintenance, `SweepExpired` and `SweepStale` the retention sweeps of the
daemon, `CancelForDelete` and `RemoveRequested` the two calls a delete request may choose after its status read. The
retry delay (`available_at`) and the speaker names set in quality control are left out. Every live worker process is
assumed to have a `worker_id` of its own (`settings.py` reads it from the environment and falls back to one shared name).

**MatterWork.** `conv[c]` is a conversation, `job[j]` a row of either job table, `posted[j]` the attempts whose result
was saved, `wk[w]` the thread's memory, `matter` and `purger` the closure, `boot` how far the process has started (purges
are recovered first, then answers, then research, and each coordinator starts its threads once its rows are recovered).
A thread goes through `Probe`, `Open`, `Generate`, `Recheck` and then `Save`, `SaveNothing` or `SaveRefused`; what may
raise goes to `Fail`. A crash ends the process; threads of `Delayed` carry on with what they remember, as the comments on
recovery in `workspace_store.py` expect. A purge that fails is recorded as failed (`FailPurge`), unless what raised is in no
`try` block or the write of the failure raises itself (`LosePurge`): then the matter stays purging with no thread at it, and
`begin_matter_purge` refuses it until the next start. Four kinds of request differ in their checks: plain answers, answers with recorded
context, investigations, and full-text syntheses, of which the second and the last are fenced by the attempt number.
Abstracted: the claim order of the lanes (any queued job), readiness, source and mutation-guard refusals (a step may
always raise), request keys (asking again is a stutter), research checkpoints and budgets.

**ReportCompilation.** `job[j]` is the row with its lease (`token`, `live`), its fingerprint (`print`) and whether its
report is there; `basis` the version of the selected work; `wk[w]` one process with one compiling thread. A live lease
that is renewed does not change; `Lapse` is the lease that was not renewed in time, and a thread may at any time be that
slow. `Resolve`, `Record`, `Compile`, `Resnapshot` and `Complete` are the steps of `process` and `finish`; any of them may
raise, and `Fail` then writes the failure, finds the lease gone or loses the write. `Stop`, `ReleaseActive` and `Exit` are
`close()`. The order of claims is any; closing the matter appears as loss of access.

**DurableRequest** is the abstract promise of a job table: a request is open until it is answered or ends, is answered
once, never after it was asked to stop, is opened again only without an answer, and is erased only when it is over and then
for good. `ReportCompilation` and `MatterWork` implement it, each with its `Seen(j)` as the refinement mapping
(`KeepsPromise`): a report that was deleted is an answer discarded, a conversation or matter that was deleted erases the
requests made in it.

**SourceIntake.** `doc[d]` is a document in the registry of `PilotStore`, with which file of units it has and the digest of
its text; `job[d]` its ingestion row; `copies` the files in the staging directory, which are the copies of sources that are read from a
registered location (`Staged`) and what is left of copies that failed and could not be unlinked either (`Leftover`);
`iw[w]` an ingestion thread; `guard` the store's mutation guard while somebody holds it over several steps. The registry and
the rows change in separate steps, as in `_retry_document_locked` and `_process`. Saving a document also writes its catalog
row in the same hold of the lock, so one variable stands for both. Documents keep their version for life; what changes in
place is the text of a transcript (`Correct`).

**UploadSessions** extends `SourceIntake` with one resumable session and the receipt it is bound to. `item[i]` is the row of
an upload item together with the version its intake transfer names, `part[i]` the length of its staged file in chunks,
`session` and `receipt` the states of those rows, `key[d]` the item a document was made of, `up[u]` what a serving thread
remembers. A chunk is appended (`AppendChunk`) and recorded (`RecordChunk`) in one hold of the store's lock but in two
transactions, and a crash between them leaves the file ahead of the row, which the next chunk or `Reconcile` repairs.
A finalization is `Finalize`, then `StoreFile` or `RefuseFile`, then `CheckItem` (the read before the transaction of
`finish_upload_item`), then `FinishItem` or `FinishRefused`, then `DiscardFile`; a refused file goes on to `FailRefused`.
`AskCancel`, `CancelSession` and `DropFile` are a cancellation, `DiscardReceipt` the removal of a receipt nothing was received
for. Clients may repeat any of it. Left out: reservations of storage and quotas, malware scans beyond their verdict (`RefuseFile`),
pages of receipt members and their metadata, adoption of files by hard link, media jobs, and the first read of the state by
the route of a chunk, which the store's lock repeats.

**Workbench** composes the three over one registry of documents, one table of ingestion jobs and one lock (`Holders` are the
threads that may hold it). It has the initial states, the next-state relation and the specification; they start and stop together.
The documents in `Resumable` come from sessions, the other absent ones from direct uploads.

**ReviewRuns** extends `SourceIntake` with one every-source run. `run` is its row with the text budget, `dec[d]` its frozen decisions,
`led[d]` the ranges of the text ledger, `rw[w]` a coordinator thread with what each source is at in its pool, `page[r]` the
decision a reviewer has open. `Batch` hands sources to the pool, whose steps (`Begin`, `Classify` or `Inventory`, `Scan`,
`ReadRange`, `CloseSource`) interleave freely; `Record` takes results in any order; `BeginFinish`, `CheckSource` and
`FinishRun` are `_finish_review_run` under the guard. `DownRun` may leave a thread behind that goes on beside the next
process (`old`): `close()` waits two seconds only. Such a thread's lock binds nobody and its own copy of the registry is
taken to be the present one. The comparison of `worker_id` is subsumed by that of the attempt. Left out: criteria, samples,
exports and their leases, a second run beside the first, a failure of the write that records a failure, and a crash between
the removal of units and the save of the registry. The inventory of one source is one step.

**TranscriptDelivery.** `job[j]` is a recording with the revision of its reviewed text, `saved[j]` the revision its exported
files show, `archive[j]` the archive of the batch that lies in the output of `j` with the fingerprint it was built for,
`flock` and `batchLock` the locks of `review_exports.py` and `api.py`, `link` the signed links and `used` the ones this
process remembers as used, `srv[s]` a thread that serves a request, `ed[e]` one that serves a correction. `AskPackage`,
`AskArchive` and the steps up to `Issue` make a link; `Deliver`, `Before`, the rebuilding, `Consume`, `Stream`, `Purge` and
`Delete` use it. Every link is of the kind that deletes what it delivers. Links survive a restart as they do when
`api_token` is set, from which the signing secret is then derived. A request's reads of the list of recordings are one step,
and so is one `write_export_bundle`; the limits of three tries are `Fail`. `Sweep` stands for any later deletion of a
reserved recording, which `TranscriptionQueue` has in detail. Expiry of links and recordings, `Range` requests and downloads
of the source are left out.

## 4. Runs

| Run | Instance | Shows |
|---|---|---|
| `queue_fencing` | 1 job, 2 workers, 1 thread, 2 attempts, 1 fault | a worker that lost its claim writes nothing; cancellations and reserved deletions win |
| `queue_batch` | 2 jobs in a batch, 1 worker | one deadline for a batch; no deletion of a running recording |
| `queue_liveness` | 1 job, 1 worker, 1 fault, fair | reserved deletions are carried out, cancellations settle, uploads do not stay for ever |
| `queue_restart` | 2 attempts, 1 fault | violation, finding 1 |
| `queue_orphan` | 1 job | violation, finding 2 |
| `work_delayed` | 2 fenced requests, 2 threads for each, one of each outlives a crash, fair | one result per request, of its last attempt; cancellations win; requests settle; purges settle, or their failure is lost until the next start; `DurableRequest` is implemented |
| `work_matter` | 3 requests, 2 conversations, 2 people, 1 lost database write | one request per conversation, none without one, no work under a purge, no result in an archive |
| `work_archive` | 1 request, 2 conversations | violation, finding 3 |
| `compile_queue` | 1 compilation, 2 processes, 2 attempts, 1 retry, 1 edit, 1 shutdown or crash, fair | stale processes save nothing, attempts start afresh, reports are of current work, refinement, termination |
| `compile_shutdown` | 1 compilation, 1 process | violation, finding 4 |
| `workbench` | 1 run over 2 of 5 sources, 2 coordinator threads, 1 ingestion thread, 2 reviewers, 1 session with 1 item of 2 chunks, 2 serving threads, 14 allotments of events | verdicts stand on the frozen text and the ledger, counters agree, stale attempts decide nothing, adjudications are of what was seen, copies that were staged are owned, an item becomes one source, a discarded receipt takes nothing with it |
| `delivery` | 2 recordings, 2 links, 2 serving threads, 1 correcting, 6 allotments of events | a link streams nothing older than what was reviewed when it was asked for; a batch link has streamed the present revision of every recording in its archive when it deletes |

Bounds. Two workers and two attempts are enough for a claim to be lost and taken over while its first holder goes on; one
fault or crash is enough for every recovery path, and since recovery forgets what the process knew, a second crash
repeats the first. Two conversations let one be archived or deleted while the other is used, and three requests let two
compete while a third continues one of them. `MaxAttempts` bounds the retries of `MatterWork` (a retry leaves an attempt
for each crash still to come), `MaxErrors` the writes that are lost, `MaxEdits` the changes of the selected work. The
limits of the report queue (`ActorLimit`, `PendingLimit`) are modelled but exceed the one compilation of its run.
In `workbench` and `delivery` every behaviour has an allotment: how many uploads, removals, corrections, errors, restarts, cancellations,
retries, deletions, adjudications, changes of access, links and edits may happen in it. The allotments are chosen so that each
hazard has one with all it needs (an edit, a restart and a failing request; two links and a retry; a cancellation, a
restart and a retry; and so on), where all of them at once would be too many states. The sources of `workbench` are a recording of
two ranges, a document of one, one that is uploaded and read through a staged copy, and two that resumable uploads may become,
so that a finalization repeated by the second thread could make a second source. Two chunks let a file be begun without being
complete, which is what separates a receipt that may be discarded from one that may not; `MaxCalls` and `MaxControls` are such
that the ledger's budget runs out in some behaviours and not in others.
`CHECK_DEADLOCK FALSE` stands where the system really stops: a deleted matter has nothing
left to do. The other runs check deadlock.

Every property of a passing run has a mutant in PROJECT.json: a change of one definition, as a plausible bug of that code,
under which TLC finds the property violated. They are the definitions commented "Mutant" in the modules; no specification
uses them.

## 5. Fairness

* Processes restart: `compose.yaml` has `restart: unless-stopped`. Hence weak fairness of the start actions.
* A thread that can take its next step takes it: weak fairness of each thread's steps and of polling loops, which wait
  half a second between polls.
* The worker of the transcription service alternates for ever between maintenance and claiming, and the daemon sweeps every
  five minutes. Whether a job can be claimed, recovered or swept changes while they are at other jobs, so those steps are
  strongly fair: the service comes back to each. `PipelineReturns` is strongly fair because heartbeats interrupt it.
* Time passes: deadlines, heartbeats, caps and abandoned leases run out. A lease that a live process holds may lapse, but
  need not.
* `Workbench` (with `SourceIntake`, `ReviewRuns` and `UploadSessions`) and `TranscriptDelivery` have safety properties only and
  no fairness.
* Nothing is assumed of reviewers and owners: no request, cancellation, retry, edit or team change ever has to happen, and
  crashes and errors end only because their number is bounded. `RequestsSettle` is claimed while no database error struck
  where nothing recovers from it. `PurgeSettles` assumes that a purge which has not failed takes its next step; one whose
  failure was not recorded is excepted until the process starts again, which need not happen.

## 6. Proofs

`TranscriptionQueueProofs` proves, for any jobs, workers, threads, batches, attempts and faults: type correctness,
`Fenced`, `PublishedByLastAttempt`, `QueueCoherent`, `DeletionCoversReserved`, and the action properties
`ReservationIsFinal`, `CancelWins` and `DeletionSparesActive`. The assumptions are those the module states of its constants
(TLC evaluates them in every run of it).

None of the invariants is inductive alone. `IInv == TypeOK /\ RowsInv /\ ClaimInv /\ DeletionCoversReserved`:

* `RowsInv` is what each row satisfies by itself: a row is active exactly when it names a worker; a queued row has an
  attempt left and no deadline; a reserved row is canceled; a succeeded row has the segments of its attempt;
* `ClaimInv` ties rows to memories: a worker that a row still names remembers that row's attempt, and once it has replaced
  the segments they are those of its attempt. This is what makes the check of `worker_id` sufficient although the attempt
  number is never compared: recovery clears `worker_id`, and a worker that claims again forgets its earlier claim;
* `DeletionCoversReserved` says that a deletion in progress covers only rows that are reserved or gone, so that its last
  step, which does not look at the status again, is safe.

Each transaction writes one row and then shares the deadline inside its batch, which touches deadlines only; the first
lemmas separate the two, then one lemma per action shows `IInv'` and `RowStep` (what no step does to a row, from which the
action properties follow), and `InvStep` puts them together.

`BatchSharesDeadline` is about several rows at once and has an invariant of its own beside `IInv`. `BatchInv` says that a row is
in the batch it was submitted in or in none, and that in a batch of which nothing was reserved or deleted, one deadline means
that all have ended; it speaks of the batch, where the property speaks of the rows that are members now, because a row that
leaves its batch must not take the reason for a deadline with it. `CoordinateShares` shows what sharing does to the batch of one
row and that it leaves every other batch alone. After that a step does one of four things to batches: it writes one row and
shares its batch (`Writes`), gives nobody a deadline and takes no ended row up again (`Keeps`), reserves a group (`Reserves`), or
recovers the rows of dead workers and shares all their batches afterwards (`Recovers`); one lemma for each shows `BatchInv'`.

`ReportCompilationProofs` proves, for any requests, reviewers, processes and bounds: `ReportMatchesJob`, `LeaseProtects`,
`CancelWins`, and the refinement `KeepsPromise`. It proves one fact of every action: how it moves a row and its reports
(`Move`: a row goes on, is asked to stop, ends, succeeds with one more report, is opened again, or forgets its report). What
follows is about moves alone. `ReportMatchesJob` is not inductive: that a row without success has no report is needed when it
succeeds, so that the report it gains is its first. `IInv == Shape /\ ReportInv` adds the shapes of the rows and memories
(without the bounds on their numbers) and that a row nobody asked for is not cancelled, which the refinement needs. Under `IInv` each move is a step of `DurableRequest` or a stutter (`MovePromised`), and the initial
rows map to its initial requests.

`AttemptsStartFresh` says that whoever still owns a compilation and has recorded nothing finds no fingerprint. One process alone
cannot see that: another that owns the same compilation may record between two of its steps. `LeaseInv` therefore says that two
processes at work on one compilation hold different leases, which follows from every lease being numbered and older than the
next (`Given`), that what waits has no lease, no fingerprint and an attempt left (`Ready`), and what the property says of early
steps. `RowsHold` and `MemoryKept` are what every step but a claim and a recording does to rows and memories. `SaveInv`, for
`SavedReportIsCurrent`, is that a process about to save has the fingerprint of the work as it is or the work was last changed by
another process: its own edits wait for the guard it holds since its second snapshot.

`TypeOK` bounds the leases of a compilation, and a shutdown gives an attempt back but not the number of its lease. `BudgetInv`
counts: the leases given, and the processes that are stopping and may still give an attempt back, are together no more than
`MaxAttempts` for every retry, the attempts on record and the shutdowns there were. A claim pays with the attempt it counts, a
release with the process that drops out of the count, a retry with the attempts it sets to 0. `Fits` adds that rows and memories
hold only leases and fingerprints that were given; with `Shape` that is `TypeOK`, which the runs leave to the proof.

`MatterWorkProofs` proves every safety property of `MatterWork` and its refinement of `DurableRequest`, for any requests,
conversations, reviewers, threads and bounds, and `TypeOK`, which its runs leave to the proof. Assumed are the bounds (fewer
crashes than attempts) and that answer and research threads are not the same. The argument is again by moves of rows:
`NextStep` shows that every step moves each row in one of nine ways (`RowsMove`, which also says who may do it: only a thread
that lets go of a job ends or saves it in a pool that is started), takes the jobs of a conversation that goes along with it
(`ConvsMove`), and lets a thread go on with the job it holds or claim one (`ThreadsMove`). The invariant adds to the
properties: what a row without success looks like (`RowsInv`); that the bound leaves a claim for every queued row and for the
recovery that is due (`BudgetInv`); that a thread at work remembers an attempt of its row that is not newer than the row
(`WorkerInv`), from which a thread whose attempt is the row's has held the row ever since it looked at the conversation, so
that the conversation could not be archived (`OpenInv`); and that without delayed answer threads a thread at work holds the
running attempt alone (`OwnInv`). The last two give `ResultsLandInTheOpen` although an answer is saved without a look at its
conversation. The theorem has a hypothesis: a plain answer is not fenced by its attempt, so a thread that outlived its
process could save it into a conversation that was archived between a cancellation and a retry; TLC finds that behaviour
when such a thread is allowed.

The proofs of `Workbench` are about the whole composition, so that every property of its run holds in any interleaving of
uploads, ingestion, reviews, requests, crashes and restarts, for any documents, threads, items, ranges and budgets and any
allotments of events. Assumed are what the modules say of their constants: finitely many documents (the counters are
cardinalities), and threads of requests, of ingestion and of reviews that are not each other. `UploadTypes` and `ReviewTypes`
show that every action keeps the types; `PoolStep` also says once what any step in the pool of a run may do (`PoolMove`), so that
the nine of them are one case afterwards. The invariant is built up in two modules:

* `WorkbenchProofs`: `JobInv` adds to `StagedCopyIsOwned`, which is about copies that were staged, that an ingestion thread
  at work holds a running job and that no two hold the same one. Without it a second thread could end the job of a copy the
  first has just staged. `Forward` is what everybody does to a document and its job. `KeysFit` ties documents to items (only
  the commit of an item queues the job of its document; a thread between the check and the commit names the document that has
  the item's key), and `ReceiptFits` says what a receipt that is held knows of its session: a source with a job has its
  version in the item, which `Received` sees, and a thread that is about to commit is about an item with recorded bytes.
  `OneSource` and `DiscardIsSafe` follow;
* `ReviewProofs`: `ThreadInv` says that attempts are numbered apart and that, of the threads with sources in hand, only the one of
  the running attempt has any that are still open, from which a verdict is counted once and `AttemptsFenced` follows; `LedgerInv`
  that the ledger bears out what was decided and what the running attempt is about to decide; `PageInv` that a page that is
  current shows the decision as it is; `FinishInv` that a thread which finishes its run holds the guard, so that what it has
  looked at is still as it was (`GuardBinds`: nobody else moves a source meanwhile). `CountersHold` counts with the library's
  facts about finite sets.

`TranscriptDeliveryProofs` proves `StreamsWhatWasReviewed` and `PurgeKeepsEdits` for any recordings, correcting and serving
threads, links, attempts, revisions and allotments of events, and `TypeOK`, which the run leaves to the proof. Assumed are that a
recording may have one attempt and one revision at least (`max_attempts` is checked to be positive in `store.py`, a result is
revision 1), that threads that correct and threads that serve are not each other, and what `None` is not.

That a link streams nothing old depends on files written by whoever came last, by threads that read the rows earlier, on an
archive somebody else packed, and on what is still in the memory of others. So the invariant does not follow the revisions
themselves, but two sets that only grow while the files are there (`Grows`):

* `Kept[j]`, the revisions that the files of `j` can never fall behind: they are in the row, in the files unless those are gone,
  and every thread that is about to write has read them. It is the lock of the recording that lets `WriteFiles` add the revision
  it read (`LocksOK`: who writes holds the lock, so nobody else is about to write an older one; this is what `MayReadEarly`
  breaks);
* `Vouched[j]`, the histories of the whole batch that are kept everywhere and that the archive in the output of `j` is not
  behind. An archive may be replaced by a request that was asked for earlier, so it is not enough to look at what it holds:
  whatever is packed from now on must be no older either.

A request brings the files up to its `Aim`: the history of the moment the link was asked for or, at a delivery, of the snapshot
before. `BuildOK` says what of the aim is kept at each step, until it is vouched for when the archive is built; `LinksOK` that a signed
link has the history it promises kept or vouched for, which outlives the thread and the process; `FilesOK` that a cached archive
is not behind what its tag says, so that it may be used again, and not ahead of the rows. At a deletion the snapshot is the
present rows, the archive is no older than the snapshot and no newer than the rows, so it is what the rows hold: `PurgeKeepsEdits`.
`RowsOK` is needed for the recordings outside the archive: one without a result has revision 0, and the recordings of a batch are deleted as one.
Files that are removed drop out of the conditions of both sets, so that a deletion takes nothing from them. One
lemma per action shows the invariant; what a step leaves alone is stated once (`GoodStays`, `OthersStay`, `Quiet`, `FilesStay`,
`Settles`). The first recording of a set is a minimum, for which the proof cites that `<` on the naturals is well founded.

Every invariant above was checked by TLC on the instance of its run before it was proved.

Only model-checked: all liveness and the four violations. Liveness under fairness is out of the prover's reach.

## 7. Not modelled

Speech models, extraction, retrieval, ranking and generation are numerical work or text processing whose control is a call
that returns or raises. Routes and pages parse requests and call the operations above. Scripts, deployment and benchmarks are
operations around the system. The Slice-1 foundation is kept for its tests and evaluation. The other components of section 1
are in the plan; of uploads, what section 3 names under `UploadSessions` is left.

## 8. Findings

1. **A requeued transcription cannot start** (`queue_restart`). The stage of the dead attempt stays in the row, and the first
   stage change of the next attempt, which would move back to the probe stage, is refused; the job ends as failed.
2. **A directory without a row** (`queue_orphan`). A recording deleted while it is being uploaded leaves a directory that no
   sweep finds, although the architecture document says nothing is stored indefinitely.
3. **Work in an archived conversation** (`work_archive`). A retry does not ask whether the conversation was archived, which
   a request does.
4. **Shutdown fails a compilation** (`compile_shutdown`). The stop flag makes the thread give up and write the failure before
   `close` has released its lease, so the compilation is failed instead of queued again.

What the models do not forbid but a reader should know:

* The guards of a compilation's second snapshot are locks of one process, so `SavedReportIsCurrent` excepts edits that
  another process serves.
* Ordinary investigations are finished without regard to their attempt, which is why the run with delayed threads has the
  fenced kinds; no property covers what a delayed thread does to an ordinary one.
* A purge whose failure cannot be recorded stays purging in a live process: `playback.cancel_matter` and `media.cancel_matter`
  (`workbench.py:1881` and `1891`) are outside every `try`, and `fail_matter_purge`, called in the exception handlers of lines
  1920 to 1964, is itself a write that may raise. `begin_matter_purge` refuses a matter that is purging
  (`workspace_store.py:2134`), so nobody can try again before the next start, where `recover_interrupted_matter_purges` makes
  it `purge_failed`. `PurgeSettles` excepts it until then.
* When a copy of a source fails, `stage` unlinks its part file (`source_locations.py:354`). If that raises too, `_process` was
  told of no file, takes its cleanup for complete and ends the job as failed, while the file stays in the staging directory
  until `_reconcile_staging` of the next start. The comment at `ingestion.py:176` ("Keep the durable job active so matter
  deletion cannot overtake an owned staging copy") does not hold of such a file: a matter may be deleted while it is there.
  `StagedCopyIsOwned` speaks of copies that `stage` returned.
* After a database error that `RequestsSettle` excepts (a failure that could not be written, a claim that raised), a request stays
  as it is until the next start; no property covers that time.
* `NoIndefiniteStorage` is checked for one recording, so that a batch with a stuck sibling goes in the end is not.
* `batch_delivery_package` lists the finished recordings before it waits for `batch_export_lock`. With two links and a retry,
  a request with an old list can replace the archive after another link has passed its check and before the response opens
  the file. What is streamed then lacks the recording that finished meanwhile, the snapshot is unchanged, and the deletion
  takes that recording along. `PurgeKeepsEdits` therefore speaks of the recordings the archive holds.
* A link for a single recording deletes its whole batch and compares no snapshot, so a correction that arrives between the
  response and the deletion is lost.
* A thread that outlived its process can finish a selected-passages run of its own attempt while the new process reads sources
  in again, because its lock is one of the old process. `VerdictsStand` excepts it. `mark_review_decision_source_changed` does not compare the
  attempt, which is why `AttemptsAreFenced` speaks of open decisions.
* Stopping the process makes `cancelled()` true, so a running every-source check is recorded as cancelled though nobody
  asked. It can be retried; no document promises otherwise.
* `finalize_uploaded_source` looks at the staged file and not at the item, so a complete file of a cancelled or failed item still
  becomes a document. `finish_upload_item` reads the item before its transaction and does not look at how many rows its update of
  the state changed: an item cancelled between the two keeps its state, and its source is queued for ingestion all the same.
  `OneSourcePerItem` therefore speaks of items that are queued.
* With a file of a single chunk, a document can be made of an item that is cancelled before it is committed; the cancellation
  removes the staged file, and the receipt can then be discarded while that document stays in the registry without a job
  (`docs/ARCHITECTURE.md:91`: "Received source data and saved partial bytes prevent discard"). `DiscardedIsEmpty` says what does
  hold: such a document is never ingested.
* `fail_upload_item` sets the session to partial even when every item of it is queued.
