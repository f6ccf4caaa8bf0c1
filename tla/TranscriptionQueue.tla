------------------------- MODULE TranscriptionQueue -------------------------
(***************************************************************************)
(* The transcription service: one SQLite table of jobs driven by a worker  *)
(* process, API request threads and a cleanup daemon (store.py, worker.py, *)
(* api.py and cli.py of services/transcription).                           *)
(*                                                                         *)
(* Every store method is one BEGIN IMMEDIATE transaction, so it is one     *)
(* action here.  What lies between two transactions of the same handler    *)
(* (a status read and the call that acts on it, the reservation of a       *)
(* deletion, the removal of its file trees and the removal of its rows)    *)
(* is a separate step and interleaves with every other process.            *)
(*                                                                         *)
(* Time is abstract: a deadline is absent, ahead or due; a heartbeat is    *)
(* fresh or stale; a row is older or younger than the active-job cap.      *)
(***************************************************************************)
EXTENDS Integers, FiniteSets

CONSTANTS
    Jobs,          \* identifiers a submission may create
    Workers,       \* worker processes, named by their worker_id
    Threads,       \* API request threads and the cleanup daemon
    Submitter,     \* the request holding upload_admission_lock
    MaxAttempts,   \* max_attempts of every job
    BatchOf,       \* the batch a job is submitted in, or None
    MaxFaults,     \* bound on process crashes and failed file deletions
    None

Deleters == Workers \cup Threads \cup {Submitter}
Batches  == {BatchOf[j] : j \in Jobs} \ {None}

ASSUME AttemptsAssumption == MaxAttempts \in Nat \ {0}
ASSUME FaultsAssumption   == MaxFaults \in Nat
ASSUME BatchAssumption    == BatchOf \in [Jobs -> Batches \cup {None}]
ASSUME NamesAssumption    == /\ None \notin Jobs \cup Workers \cup Batches
                             /\ Submitter \notin Workers \cup Threads
                             /\ Workers \cap Threads = {}

VARIABLES
    job,     \* the jobs table, one row per identifier
    tree,    \* tree[j]: the job's directory exists under jobs/
    wk,      \* what each worker process holds in memory
    del,     \* the hard deletion each process is in the middle of
    sub,     \* the child upload the submitting request is storing
    faults   \* crashes and failed file deletions so far

vars == <<job, tree, wk, del, sub, faults>>

-----------------------------------------------------------------------------
(* Rows                                                                    *)

Terminal        == {"canceled", "succeeded", "failed"}
Active          == {"running", "cancel_requested"}
Unstarted       == {"created", "queued"}
DeletionReasons == {"owner_deleted", "retention_expired", "active_lifetime_expired"}

Stages == {"ingest", "probe", "transcribe", "quality_control", "export"}
Order  == [ingest |-> 0, probe |-> 1, transcribe |-> 2,
           quality_control |-> 3, export |-> 4]

Row == [status      : Terminal \cup Active \cup Unstarted \cup {"absent", "deleted"},
        stage       : Stages,
        stageStatus : {"pending", "running", "succeeded", "failed", "canceled"},
        attempt     : 0..MaxAttempts,
        worker      : Workers \cup {None},
        fresh       : BOOLEAN,      \* heartbeat younger than stale_job_minutes
        reason      : DeletionReasons \cup {"none", "failure"},     \* error_code
        expiry      : {"none", "later", "due"},                     \* expires_at
        batch       : Batches \cup {None},
        asked       : {"no", "last", "before"},   \* the newest owner_delete event
        old         : BOOLEAN,      \* created before the active-job cutoff
        hasFile     : BOOLEAN,      \* a row of job_files names the recording
        draft       : 0..MaxAttempts]   \* attempt that wrote the stored segments

BlankRow == [status |-> "absent", stage |-> "ingest", stageStatus |-> "pending",
             attempt |-> 0, worker |-> None, fresh |-> FALSE, reason |-> "none",
             expiry |-> "none", batch |-> None, asked |-> "no", old |-> FALSE,
             hasFile |-> FALSE, draft |-> 0]

Exists(j)   == job[j].status \notin {"absent", "deleted"}
Reserved(r) == r.reason \in DeletionReasons

\* One or more events were appended to the job's log.
Logged(r) == [r EXCEPT !.asked = IF @ = "no" THEN "no" ELSE "before"]

\* _batch_rows_locked
Members(rows, j) ==
    IF rows[j].batch = None THEN {j} ELSE {k \in Jobs : rows[k].batch = rows[j].batch}

\* Mutant: every recording keeps the deadline of its own result.
CoordinateNothing(rows, j) == rows

\* _coordinate_batch_retention_locked: no deadline until every member is
\* terminal, then one deadline for all; a reserved batch is left alone.
Coordinate(rows, j) ==
    LET M == Members(rows, j)
        deadline == IF \E m \in M : rows[m].status \notin Terminal THEN "none"
                    ELSE IF \A m \in M : rows[m].expiry = "due" THEN "due"
                    ELSE "later"
    IN  IF rows[j].batch = None \/ (\E m \in M : Reserved(rows[m])) THEN rows
        ELSE [k \in Jobs |-> IF k \in M THEN [rows[k] EXCEPT !.expiry = deadline]
                             ELSE rows[k]]

\* The same for the batch of every job of S.
CoordinateBatches(rows, S) ==
    [k \in Jobs |-> IF \E s \in S : k \in Members(rows, s)
                    THEN Coordinate(rows, k)[k] ELSE rows[k]]

\* A transaction that writes row r and then coordinates its batch.
Put(j, r) == job' = Coordinate([job EXCEPT ![j] = r], j)

-----------------------------------------------------------------------------
(* Process states                                                          *)

WorkerStates == {"down", "starting", "idle", "maintain", "claimed", "probing", "probed",
                 "pipeline", "check", "quality", "replace", "qualified", "export",
                 "writing", "complete", "finishing", "delete", "deleting", "handler",
                 "failing"}

IdleWorker == [pc |-> "idle", job |-> None, attempt |-> 0, retryable |-> FALSE,
               inHandler |-> FALSE, seen |-> FALSE, ack |-> FALSE]
DownWorker == [IdleWorker EXCEPT !.pc = "down"]

NoDeletion == [pc |-> "none", group |-> {}, reason |-> "none", alone |-> FALSE]
NoUpload   == [pc |-> "idle", job |-> None]

Free(p) == /\ del[p].pc = "none"
           /\ p \in Workers => wk[p].pc = "maintain"

Init ==
    /\ job    = [j \in Jobs |-> BlankRow]
    /\ tree   = [j \in Jobs |-> FALSE]
    /\ wk     = [w \in Workers |-> [IdleWorker EXCEPT !.pc = "starting"]]
    /\ del    = [p \in Deleters |-> NoDeletion]
    /\ sub    = NoUpload
    /\ faults = 0

-----------------------------------------------------------------------------
(* Submission: one child upload at a time under upload_admission_lock      *)

CreateJob(j) ==
    /\ sub.pc = "idle" /\ del[Submitter].pc = "none"
    /\ job[j].status = "absent"
    /\ Put(j, [BlankRow EXCEPT !.status = "created", !.batch = BatchOf[j]])
    /\ sub' = [pc |-> "ingest", job |-> j]
    /\ UNCHANGED <<tree, wk, del, faults>>

\* The stream is stored, or raises a storage error with or without leaving
\* the directory behind.
IngestStream(stored) ==
    /\ sub.pc = "ingest"
    /\ \/ stored /\ tree' = [tree EXCEPT ![sub.job] = TRUE]
       \/ ~stored /\ \E b \in BOOLEAN : tree' = [tree EXCEPT ![sub.job] = @ \/ b]
    /\ sub' = [sub EXCEPT !.pc = IF stored THEN "register" ELSE "discard"]
    /\ UNCHANGED <<job, wk, del, faults>>

\* A row that is gone or no longer CREATED raises out of the request.
RegisterFile ==
    /\ sub.pc = "register"
    /\ IF job[sub.job].status = "created"
       THEN /\ job' = [job EXCEPT ![sub.job] = [Logged(@) EXCEPT !.hasFile = TRUE]]
            /\ sub' = [sub EXCEPT !.pc = "enqueue"]
       ELSE UNCHANGED job /\ sub' = NoUpload
    /\ UNCHANGED <<tree, wk, del, faults>>

EnqueueJob ==
    /\ sub.pc = "enqueue"
    /\ IF job[sub.job].status = "created"
       THEN Put(sub.job, [Logged(job[sub.job]) EXCEPT
                              !.status = "queued", !.stage = "probe", !.stageStatus = "pending"])
       ELSE UNCHANGED job
    /\ sub' = NoUpload
    /\ UNCHANGED <<tree, wk, del, faults>>

SubmitterCrash ==
    /\ faults < MaxFaults /\ faults' = faults + 1
    /\ sub.pc # "idle" \/ del[Submitter].pc # "none"
    /\ sub' = NoUpload
    /\ del' = [del EXCEPT ![Submitter] = NoDeletion]
    /\ UNCHANGED <<job, tree, wk>>

-----------------------------------------------------------------------------
(* Owner requests                                                          *)

\* request_cancel; a finished or already canceling job only has its batch
\* coordinated, and no event is written.
CancelEffect(j, why) ==
    LET r == job[j]
        noted == [Logged(r) EXCEPT !.asked = IF why = "owner_delete" THEN "last" ELSE @]
    IN  \/ r.status \in Unstarted
           /\ Put(j, [noted EXCEPT !.status = "canceled", !.stageStatus = "canceled",
                                   !.expiry = "later"])
        \/ r.status = "running" /\ Put(j, [noted EXCEPT !.status = "cancel_requested"])
        \/ r.status \in Terminal \cup {"cancel_requested"} /\ Put(j, r)
        \/ ~Exists(j) /\ UNCHANGED job

RequestCancel(j) ==
    /\ Exists(j)
    /\ CancelEffect(j, "owner_requested")
    /\ UNCHANGED <<tree, wk, del, sub, faults>>

\* Mutant: a reserved row can be retried.
RetryableReserved(r) == r.status \in {"failed", "canceled"} /\ r.attempt < MaxAttempts

Retryable(r) ==
    /\ r.status \in {"failed", "canceled"}
    /\ ~Reserved(r)
    /\ r.attempt < MaxAttempts

RetryJob(j) ==
    /\ Retryable(job[j])
    /\ Put(j, [Logged(job[j]) EXCEPT
                   !.status = "queued", !.stage = "probe", !.stageStatus = "pending",
                   !.worker = None, !.fresh = FALSE, !.reason = "none", !.expiry = "none"])
    /\ UNCHANGED <<tree, wk, del, sub, faults>>

-----------------------------------------------------------------------------
(* Hard deletion: reserve the rows, remove the trees, remove the rows      *)

\* Mutant: the reservation leaves expires_at as it was.
MarkedUndated(rows, M, reason) ==
    [k \in Jobs |-> IF k \in M
                    THEN [rows[k] EXCEPT !.status = "canceled", !.stageStatus = "canceled",
                                         !.worker = None, !.fresh = FALSE, !.reason = reason]
                    ELSE rows[k]]

\* _mark_deletion_group_locked
Marked(rows, M, reason) ==
    [k \in Jobs |-> IF k \in M
                    THEN [rows[k] EXCEPT !.status = "canceled", !.stageStatus = "canceled",
                                         !.worker = None, !.fresh = FALSE,
                                         !.expiry = "due", !.reason = reason]
                    ELSE rows[k]]

Reserve(p, rows, M, reason, alone) ==
    /\ job' = Marked(rows, M, reason)
    /\ del' = [del EXCEPT ![p] = [pc |-> "files", group |-> M, reason |-> reason,
                                  alone |-> alone]]

\* Mutant: a worker that stops still remembers its job.
AfterRaiseRemembering(state, exists) ==
    IF ~state.inHandler THEN [state EXCEPT !.pc = "handler", !.retryable = FALSE]
    ELSE [state EXCEPT !.pc = IF exists THEN "down" ELSE "idle"]

\* _finish_cancellation raises: within _process the handler runs; within the
\* handler only a missing row is tolerated and anything else ends the process.
AfterRaise(state, exists) ==
    IF ~state.inHandler THEN [state EXCEPT !.pc = "handler", !.retryable = FALSE]
    ELSE IF exists THEN DownWorker
    ELSE IdleWorker

\* What a worker does when the deletion it called returns or raises.
AfterDeletion(p, ok) ==
    IF p \notin Workers THEN UNCHANGED wk
    ELSE wk' = [wk EXCEPT ![p] =
                  IF wk[p].pc = "deleting"
                  THEN IF ok THEN IdleWorker ELSE AfterRaise(@, TRUE)
                  ELSE IF ok THEN @ ELSE DownWorker]

EndDeletion(p, ok) ==
    /\ del' = [del EXCEPT ![p] = IF del[p].alone THEN [NoDeletion EXCEPT !.pc = "reconcile"]
                                 ELSE NoDeletion]
    /\ AfterDeletion(p, ok)

DeleteFiles(p) ==
    /\ del[p].pc = "files"
    /\ tree' = [j \in Jobs |-> tree[j] /\ j \notin del[p].group]
    /\ del' = [del EXCEPT ![p].pc = "rows"]
    /\ UNCHANGED <<job, wk, sub, faults>>

\* Some tree cannot be removed: every row of the group stays reserved.
DeleteFilesFails(p) ==
    /\ del[p].pc = "files"
    /\ faults < MaxFaults /\ faults' = faults + 1
    /\ \E S \in SUBSET del[p].group :
          /\ \E j \in del[p].group \ S : tree[j]
          /\ tree' = [j \in Jobs |-> tree[j] /\ j \notin S]
    /\ EndDeletion(p, FALSE)
    /\ UNCHANGED <<job, sub>>

DeleteRows(p) ==
    LET left == {j \in del[p].group : Exists(j)}
        kept == \A j \in left : /\ job[j].status = "canceled"
                                /\ job[j].reason = del[p].reason
    IN  /\ del[p].pc = "rows"
        /\ job' = IF kept THEN [j \in Jobs |-> IF j \in left
                                               THEN [BlankRow EXCEPT !.status = "deleted"]
                                               ELSE job[j]]
                  ELSE job
        /\ EndDeletion(p, kept)
        /\ UNCHANGED <<tree, sub, faults>>

\* The finally clause of delete_job(include_batch=False).
ReconcileAfterDiscard ==
    /\ del[Submitter].pc = "reconcile"
    /\ job' = CoordinateBatches(job, Jobs)
    /\ del' = [del EXCEPT ![Submitter] = NoDeletion]
    /\ UNCHANGED <<tree, wk, sub, faults>>

\* delete_job(include_batch=False) for a child whose upload failed: a child of
\* a batch leaves it before it is reserved, and must still be CREATED.
DiscardUpload ==
    LET j == sub.job
        alone == [job EXCEPT ![j].batch = None]
    IN  /\ sub.pc = "discard"
        /\ IF /\ Exists(j) /\ job[j].status \notin Active
              /\ job[j].batch # None => job[j].status = "created"
           THEN Reserve(Submitter, alone, {j}, "owner_deleted", TRUE)
           ELSE UNCHANGED <<job, del>>
        /\ sub' = NoUpload
        /\ UNCHANGED <<tree, wk, faults>>

\* DELETE /v1/jobs/{id}, and the deadline check of every other route: the
\* batch is coordinated, then the status read decides what is called next.
DeleteRequest(p, j) ==
    /\ p \in Threads /\ del[p].pc = "none"
    /\ Exists(j)
    /\ job' = Coordinate(job, j)
    /\ del' = [del EXCEPT ![p] = [NoDeletion EXCEPT !.group = {j},
                 !.pc = IF job'[j].status \in Active /\ job'[j].expiry # "due"
                        THEN "cancel" ELSE "remove"]]
    /\ UNCHANGED <<tree, wk, sub, faults>>

CancelForDelete(p) ==
    /\ del[p].pc = "cancel"
    /\ \E j \in del[p].group : CancelEffect(j, "owner_delete")
    /\ del' = [del EXCEPT ![p] = NoDeletion]
    /\ UNCHANGED <<tree, wk, sub, faults>>

\* Mutant: only the named job is looked at.
RemovableAlone(j) == Exists(j) /\ job[j].status \notin Active

\* delete_job is refused while any member of the batch is active.
Removable(j) == Exists(j) /\ \A m \in Members(job, j) : job[m].status \notin Active

\* The delete_job call of an owner or of the cleanup daemon.  Also the background
\* task of a download-and-delete response for a single job.
RemoveRequested(p) ==
    /\ del[p].pc = "remove"
    /\ \E j \in del[p].group :
         IF Removable(j) THEN Reserve(p, job, Members(job, j), "owner_deleted", FALSE)
         ELSE del' = [del EXCEPT ![p] = NoDeletion] /\ UNCHANGED job
    /\ UNCHANGED <<tree, wk, sub, faults>>

\* list_expired_job_ids repairs the deadlines of every batch first.
ListExpired(p) ==
    /\ Free(p) /\ p # Submitter
    /\ job' = CoordinateBatches(job, Jobs)
    /\ UNCHANGED <<tree, wk, del, sub, faults>>

\* One candidate of purge_expired.
SweepExpired(p, j) ==
    LET rows == Coordinate(job, j)
        M    == Members(rows, j)
    IN  /\ Free(p) /\ p # Submitter
        /\ Exists(j) /\ job[j].expiry = "due" /\ job[j].status \notin Active
        /\ IF \A m \in M : rows[m].status \in Terminal /\ rows[m].expiry = "due"
           THEN Reserve(p, rows, M, "retention_expired", FALSE)
           ELSE job' = rows /\ UNCHANGED del
        /\ UNCHANGED <<tree, wk, sub, faults>>

\* Mutant: an upload that was never queued is not swept.
UnfinishedQueuedOnly(j) == job[j].status = "queued" /\ job[j].old

\* Older than the active-job cap, as are the unstarted siblings, with nothing
\* of the batch running.
StaleUnfinished(j) ==
    /\ job[j].status \in Unstarted /\ job[j].old
    /\ \A m \in Members(job, j) : /\ job[m].status \notin Active
                                  /\ job[m].status \in Unstarted => job[m].old

\* One candidate of purge_stale_unfinished.
SweepStale(p, j) ==
    LET M == Members(job, j)
    IN  /\ Free(p) /\ p # Submitter
        /\ StaleUnfinished(j)
        /\ Reserve(p, job, M, "active_lifetime_expired", FALSE)
        /\ UNCHANGED <<tree, wk, sub, faults>>

\* A request thread or the daemon dies; its reservation stays in the table.
ThreadCrash(p) ==
    /\ p \in Threads /\ del[p].pc # "none"
    /\ faults < MaxFaults /\ faults' = faults + 1
    /\ del' = [del EXCEPT ![p] = NoDeletion]
    /\ UNCHANGED <<job, tree, wk, sub>>

-----------------------------------------------------------------------------
(* The worker                                                              *)

\* Mutants: the recovery requeues a canceled job, or one with its attempts
\* used up, or leaves a cancellation alone, or restarts the row in place.
RecoveredAlways(r) ==
    [Logged(r) EXCEPT !.status = "queued", !.stageStatus = "pending", !.worker = None,
                      !.fresh = FALSE, !.reason = "none", !.expiry = "none"]
RecoveredInPlace(r) ==
    IF r.attempt < MaxAttempts THEN [Logged(r) EXCEPT !.attempt = @ + 1, !.fresh = TRUE] ELSE r
RecoveredUnlessCanceling(r) ==
    IF r.status = "cancel_requested" THEN r
    ELSE [Logged(r) EXCEPT !.status = "failed", !.stageStatus = "failed", !.worker = None,
                           !.fresh = FALSE, !.reason = "failure", !.expiry = "later"]

\* recover_running_jobs on one stale row.
Recovered(r) ==
    LET n == [Logged(r) EXCEPT !.worker = None, !.fresh = FALSE, !.reason = "none"]
    IN  IF r.status = "cancel_requested"
        THEN [n EXCEPT !.status = "canceled", !.stageStatus = "canceled", !.expiry = "later"]
        ELSE IF r.attempt < MaxAttempts
        THEN [n EXCEPT !.status = "queued", !.stageStatus = "pending", !.expiry = "none"]
        ELSE [n EXCEPT !.status = "failed", !.stageStatus = "failed", !.expiry = "later",
                       !.reason = "failure"]

RecoverRunningJobs(w) ==
    LET stale == {j \in Jobs : job[j].status \in Active /\ ~job[j].fresh}
    IN  /\ wk[w].pc \in {"starting", "idle"}
        /\ job' = CoordinateBatches(
                     [j \in Jobs |-> IF j \in stale THEN Recovered(job[j]) ELSE job[j]], stale)
        /\ wk' = [wk EXCEPT ![w].pc = "maintain"]
        /\ UNCHANGED <<tree, del, sub, faults>>

EndMaintenance(w) ==
    /\ wk[w].pc = "maintain" /\ del[w].pc = "none"
    /\ wk' = [wk EXCEPT ![w] = IdleWorker]
    /\ UNCHANGED <<job, tree, del, sub, faults>>

ClaimNext(w, j) ==
    /\ wk[w].pc = "idle"
    /\ job[j].status = "queued" /\ job[j].expiry # "due" /\ job[j].attempt < MaxAttempts
    /\ Put(j, [Logged(job[j]) EXCEPT
                   !.status = "running", !.stageStatus = "running", !.attempt = @ + 1,
                   !.worker = w, !.fresh = TRUE, !.reason = "none"])
    /\ wk' = [wk EXCEPT ![w] = [IdleWorker EXCEPT !.pc = "claimed", !.job = j,
                                                  !.attempt = job[j].attempt + 1]]
    /\ UNCHANGED <<tree, del, sub, faults>>

\* Mutant: a worker transaction does not ask who holds the job.
HoldsAny(w, j) == Exists(j)

\* _require_worker compares the worker_id only, never the attempt.
Holds(w, j) == job[j].worker = w

\* An exception leaves _process for the handler of run_once.
Raised(w, retryable) ==
    wk' = [wk EXCEPT ![w].pc = "handler", ![w].retryable = retryable, ![w].seen = FALSE]

\* The set_stage calls of _process in order, with what follows each.
Script == [claimed   |-> [stage |-> "probe",           as |-> "running",   next |-> "probing"],
           probing   |-> [stage |-> "probe",           as |-> "succeeded", next |-> "probed"],
           quality   |-> [stage |-> "quality_control", as |-> "running",   next |-> "replace"],
           qualified |-> [stage |-> "quality_control", as |-> "succeeded", next |-> "export"],
           export    |-> [stage |-> "export",          as |-> "running",   next |-> "writing"],
           writing   |-> [stage |-> "export",          as |-> "succeeded", next |-> "complete"]]

StageAllowed(w, j, stage) ==
    Holds(w, j) /\ job[j].status = "running" /\ Order[stage] >= Order[job[j].stage]

Staged(r, stage, as) ==
    [Logged(r) EXCEPT !.stage = stage, !.stageStatus = as, !.fresh = TRUE]

\* The probe report and the export bundle are written just before the second
\* call of their stage, and create the job directory when it is missing.  A
\* job without exactly one registered file is refused before the first call.
SetStage(w) ==
    LET j == wk[w].job
        s == Script[wk[w].pc]
    IN  /\ wk[w].pc \in DOMAIN Script
        /\ tree' = [tree EXCEPT ![j] = @ \/ wk[w].pc \in {"probing", "writing"}]
        /\ IF StageAllowed(w, j, s.stage) /\ (wk[w].pc = "claimed" => job[j].hasFile)
           THEN /\ Put(j, Staged(job[j], s.stage, s.as))
                /\ wk' = [wk EXCEPT ![w].pc = s.next]
           ELSE UNCHANGED job /\ Raised(w, FALSE)
        /\ UNCHANGED <<del, sub, faults>>

\* ffprobe, the models, the exporters or the GPU check raise.
ProcessRaises(w, retryable) ==
    /\ wk[w].pc \in {"claimed", "probing", "probed", "pipeline", "writing"}
    /\ Raised(w, retryable)
    /\ UNCHANGED <<job, tree, del, sub, faults>>

\* get_job after the probe and after the pipeline.
CheckCancel(w) ==
    LET j == wk[w].job
        stop == job[j].status = "cancel_requested" \/ wk[w].seen
    IN  /\ wk[w].pc \in {"probed", "check"}
        /\ IF ~Exists(j) THEN Raised(w, FALSE)
           ELSE wk' = [wk EXCEPT
                         ![w].pc = IF stop THEN "finishing"
                                   ELSE IF wk[w].pc = "probed" THEN "pipeline" ELSE "quality",
                         ![w].ack = job[j].status = "cancel_requested",
                         ![w].seen = FALSE]
        /\ UNCHANGED <<job, tree, del, sub, faults>>

\* A pipeline callback: a refused stage is ignored, a lost claim is not.
Progress(w) ==
    LET j == wk[w].job
    IN  /\ wk[w].pc = "pipeline"
        /\ \/ /\ job[j].status = "cancel_requested"
              /\ UNCHANGED job /\ wk' = [wk EXCEPT ![w].seen = TRUE]
           \/ /\ job[j].status # "cancel_requested" /\ ~Holds(w, j)
              /\ UNCHANGED job /\ Raised(w, FALSE)
           \/ /\ StageAllowed(w, j, "transcribe")
              /\ Put(j, Staged(job[j], "transcribe", "running")) /\ UNCHANGED wk
        /\ UNCHANGED <<tree, del, sub, faults>>

\* The heartbeat thread, alive only while the pipeline runs.
Heartbeat(w) ==
    LET j == wk[w].job
    IN  /\ wk[w].pc = "pipeline"
        /\ Holds(w, j) /\ job[j].status \in Active
        /\ job' = [job EXCEPT ![j].fresh = TRUE]
        /\ wk' = [wk EXCEPT ![w].seen = @ \/ job[j].status = "cancel_requested"]
        /\ UNCHANGED <<tree, del, sub, faults>>

PipelineReturns(w) ==
    /\ wk[w].pc = "pipeline"
    /\ wk' = [wk EXCEPT ![w].pc = "check"]
    /\ UNCHANGED <<job, tree, del, sub, faults>>

ReplaceSegments(w) ==
    LET j == wk[w].job
    IN  /\ wk[w].pc = "replace"
        /\ IF Holds(w, j) /\ job[j].status = "running"
           THEN /\ job' = [job EXCEPT ![j] = [Logged(@) EXCEPT !.draft = wk[w].attempt]]
                /\ wk' = [wk EXCEPT ![w].pc = "qualified"]
           ELSE UNCHANGED job /\ Raised(w, FALSE)
        /\ UNCHANGED <<tree, del, sub, faults>>

CompleteJob(w) ==
    LET j == wk[w].job
    IN  /\ wk[w].pc = "complete"
        /\ IF /\ Holds(w, j) /\ job[j].status = "running"
              /\ job[j].stage = "export" /\ job[j].stageStatus = "succeeded"
           THEN /\ Put(j, [Logged(job[j]) EXCEPT
                               !.status = "succeeded", !.worker = None, !.fresh = FALSE,
                               !.expiry = "later", !.reason = "none"])
                /\ wk' = [wk EXCEPT ![w] = IdleWorker]
           ELSE UNCHANGED job /\ Raised(w, FALSE)
        /\ UNCHANGED <<tree, del, sub, faults>>

\* Whether one of the last five events is an owner_delete: yes when it is the
\* last one, either answer when other events followed it.
DeleteWanted == [no |-> {FALSE}, last |-> {TRUE}, before |-> BOOLEAN]

\* _finish_cancellation up to acknowledge_cancel.
FinishCancellation(w, wanted) ==
    LET j == wk[w].job
        done == IF wanted THEN [wk[w] EXCEPT !.pc = "delete"] ELSE IdleWorker
        acknowledges == wk[w].ack /\ Holds(w, j) /\ job[j].status = "cancel_requested"
    IN  /\ wk[w].pc = "finishing"
        /\ wanted \in DeleteWanted[job[j].asked]
        /\ \/ /\ acknowledges
              /\ Put(j, [Logged(job[j]) EXCEPT
                            !.status = "canceled", !.stageStatus = "canceled",
                            !.worker = None, !.fresh = FALSE, !.expiry = "later"])
              /\ wk' = [wk EXCEPT ![w] = done]
           \/ /\ ~wk[w].ack /\ Exists(j)
              /\ UNCHANGED job
              /\ wk' = [wk EXCEPT ![w] = done]
           \/ /\ IF wk[w].ack THEN ~acknowledges ELSE ~Exists(j)
              /\ UNCHANGED job
              /\ wk' = [wk EXCEPT ![w] = AfterRaise(@, Exists(j))]
        /\ UNCHANGED <<tree, del, sub, faults>>

\* delete_job called by _finish_cancellation: the whole batch goes.
DeleteCanceled(w) ==
    LET j == wk[w].job
    IN  /\ wk[w].pc = "delete"
        /\ IF Removable(j)
           THEN /\ Reserve(w, job, Members(job, j), "owner_deleted", FALSE)
                /\ wk' = [wk EXCEPT ![w].pc = "deleting"]
           ELSE /\ UNCHANGED <<job, del>>
                /\ wk' = [wk EXCEPT ![w] = AfterRaise(@, Exists(j))]
        /\ UNCHANGED <<tree, sub, faults>>

\* run_once after an exception: the status read decides.
HandleException(w) ==
    LET j == wk[w].job
    IN  /\ wk[w].pc = "handler"
        /\ \/ /\ job[j].status = "cancel_requested"
              /\ wk' = [wk EXCEPT ![w].pc = "finishing", ![w].inHandler = TRUE,
                                  ![w].ack = TRUE, ![w].retryable = FALSE]
           \/ /\ job[j].status = "running"
              /\ wk' = [wk EXCEPT ![w].pc = "failing"]
           \/ /\ job[j].status \notin Active
              /\ wk' = [wk EXCEPT ![w] = IdleWorker]
        /\ UNCHANGED <<job, tree, del, sub, faults>>

\* fail_job: a cancellation wins, then an automatic retry, then failure.  A
\* lost claim raises out of run_once and ends the process.
FailJob(w) ==
    LET j == wk[w].job
        r == job[j]
        n == [Logged(r) EXCEPT !.worker = None, !.fresh = FALSE, !.reason = "failure"]
    IN  /\ wk[w].pc = "failing"
        /\ \/ /\ Holds(w, j) /\ r.status = "cancel_requested"
              /\ Put(j, [n EXCEPT !.status = "canceled", !.stageStatus = "canceled",
                                  !.expiry = "later"])
           \/ /\ Holds(w, j) /\ r.status = "running"
              /\ wk[w].retryable /\ r.attempt < MaxAttempts
              /\ Put(j, [Logged(n) EXCEPT !.status = "queued", !.stageStatus = "pending",
                                             !.expiry = "none"])
           \/ /\ Holds(w, j) /\ r.status = "running"
              /\ ~(wk[w].retryable /\ r.attempt < MaxAttempts)
              /\ Put(j, [n EXCEPT !.status = "failed", !.stageStatus = "failed",
                                  !.expiry = "later"])
           \/ ~(Holds(w, j) /\ r.status \in Active) /\ UNCHANGED job
        /\ wk' = [wk EXCEPT ![w] = IF Exists(j) /\ ~(Holds(w, j) /\ r.status \in Active)
                                   THEN DownWorker ELSE IdleWorker]
        /\ UNCHANGED <<tree, del, sub, faults>>

WorkerCrash(w) ==
    /\ wk[w].pc # "down"
    /\ faults < MaxFaults /\ faults' = faults + 1
    /\ wk' = [wk EXCEPT ![w] = DownWorker]
    /\ del' = [del EXCEPT ![w] = NoDeletion]
    /\ UNCHANGED <<job, tree, sub>>

WorkerRestart(w) ==
    /\ wk[w].pc = "down"
    /\ wk' = [wk EXCEPT ![w].pc = "starting"]
    /\ UNCHANGED <<job, tree, del, sub, faults>>

-----------------------------------------------------------------------------
(* Time                                                                    *)

\* Members of a batch share one deadline, so they come due together.
DeadlinePasses(j) ==
    /\ job[j].expiry = "later"
    /\ job' = [k \in Jobs |-> IF k \in Members(job, j) /\ job[k].expiry = "later"
                              THEN [job[k] EXCEPT !.expiry = "due"] ELSE job[k]]
    /\ UNCHANGED <<tree, wk, del, sub, faults>>

HeartbeatLapses(j) ==
    /\ job[j].status \in Active /\ job[j].fresh
    /\ job' = [job EXCEPT ![j].fresh = FALSE]
    /\ UNCHANGED <<tree, wk, del, sub, faults>>

\* The cap is two days: no upload is still being stored when it passes.
ActiveCapPasses(j) ==
    /\ Exists(j) /\ ~job[j].old /\ sub.job # j
    /\ job' = [job EXCEPT ![j].old = TRUE]
    /\ UNCHANGED <<tree, wk, del, sub, faults>>

-----------------------------------------------------------------------------
SubmissionStep ==
    \/ \E j \in Jobs : CreateJob(j)
    \/ \E stored \in BOOLEAN : IngestStream(stored)
    \/ RegisterFile \/ EnqueueJob \/ DiscardUpload \/ ReconcileAfterDiscard

DeletionStep(p) ==
    \/ DeleteFiles(p) \/ DeleteFilesFails(p) \/ DeleteRows(p)
    \/ ListExpired(p)
    \/ \E j \in Jobs : SweepExpired(p, j) \/ SweepStale(p, j)

ThreadStep(p) ==
    \/ \E j \in Jobs : DeleteRequest(p, j)
    \/ CancelForDelete(p) \/ RemoveRequested(p) \/ ThreadCrash(p)

\* The steps that move a worker through its program.
WorkerAdvances(w) ==
    \/ EndMaintenance(w) \/ SetStage(w) \/ CheckCancel(w) \/ PipelineReturns(w)
    \/ ReplaceSegments(w) \/ CompleteJob(w)
    \/ \E wanted \in BOOLEAN : FinishCancellation(w, wanted)
    \/ DeleteCanceled(w) \/ HandleException(w) \/ FailJob(w) \/ WorkerRestart(w)

WorkerStep(w) ==
    \/ WorkerAdvances(w)
    \/ RecoverRunningJobs(w) \/ Progress(w) \/ Heartbeat(w) \/ WorkerCrash(w)
    \/ \E j \in Jobs : ClaimNext(w, j)
    \/ \E retryable \in BOOLEAN : ProcessRaises(w, retryable)

OwnerStep == \E j \in Jobs : RequestCancel(j) \/ RetryJob(j)

TimeStep == \E j \in Jobs : DeadlinePasses(j) \/ HeartbeatLapses(j) \/ ActiveCapPasses(j)

Next ==
    \/ SubmissionStep \/ SubmitterCrash \/ OwnerStep \/ TimeStep
    \/ \E p \in Deleters : DeletionStep(p)
    \/ \E p \in Threads : ThreadStep(p)
    \/ \E w \in Workers : WorkerStep(w)

Spec == Init /\ [][Next]_vars

(***************************************************************************)
(* Fairness.  Processes are restarted (restart: unless-stopped) and keep   *)
(* taking their next step; run_forever alternates claiming and maintenance *)
(* for ever, the cleanup daemon sweeps every five minutes, and time goes   *)
(* on.  Owners owe nothing, and crashes and failed file deletions stop     *)
(* after MaxFaults of them.                                                *)
(***************************************************************************)
Fairness ==
    /\ WF_vars(SubmissionStep)
    /\ \A w \in Workers :
          /\ WF_vars(WorkerAdvances(w))
          /\ SF_vars(PipelineReturns(w))
          /\ SF_vars(RecoverRunningJobs(w))
    /\ \A p \in Deleters :
          /\ WF_vars(DeleteFiles(p)) /\ WF_vars(DeleteRows(p))
    /\ \A p \in Threads : WF_vars(CancelForDelete(p)) /\ WF_vars(RemoveRequested(p))
    /\ \A j \in Jobs :
          /\ SF_vars(\E w \in Workers : ClaimNext(w, j))
          /\ SF_vars(\E p \in Threads : SweepExpired(p, j))
          /\ SF_vars(\E p \in Threads : SweepStale(p, j))
          /\ WF_vars(DeadlinePasses(j)) /\ WF_vars(HeartbeatLapses(j))
          /\ WF_vars(ActiveCapPasses(j))
    /\ SF_vars(\E p \in Threads : ListExpired(p))

FairSpec == Spec /\ Fairness

-----------------------------------------------------------------------------
(* Properties                                                              *)

WorkerRecord == [pc : WorkerStates, job : Jobs \cup {None}, attempt : 0..MaxAttempts,
                 retryable : BOOLEAN, inHandler : BOOLEAN, seen : BOOLEAN, ack : BOOLEAN]

DeletionRecord == [pc : {"none", "files", "rows", "reconcile", "cancel", "remove"},
                   group : SUBSET Jobs, reason : DeletionReasons \cup {"none"},
                   alone : BOOLEAN]

\* Every variable stays in its domain, and a worker that is busy knows which
\* job it claimed.
TypeOK ==
    /\ job \in [Jobs -> Row]
    /\ tree \in [Jobs -> BOOLEAN]
    /\ wk \in [Workers -> WorkerRecord]
    /\ \A w \in Workers :
          wk[w].job = None <=> wk[w].pc \in {"down", "starting", "idle", "maintain"}
    /\ del \in [Deleters -> DeletionRecord]
    /\ sub \in [pc : {"idle", "ingest", "register", "enqueue", "discard"},
                job : Jobs \cup {None}]
    /\ sub.job = None <=> sub.pc = "idle"
    /\ faults \in 0..MaxFaults

\* The worker_id check of every worker transaction is enough to keep a worker
\* that lost its claim out: the row never names a worker whose memory is of an
\* older attempt (store.py _require_worker compares no attempt number).
Fenced ==
    \A w \in Workers, j \in Jobs :
        wk[w].job = j /\ job[j].worker = w => wk[w].attempt = job[j].attempt

\* A succeeded job holds the segments of the attempt that succeeded, whatever
\* crashes, recoveries and second workers came in between (complete_job after
\* replace_segments).
PublishedByLastAttempt ==
    \A j \in Jobs : job[j].status = "succeeded" => job[j].draft = job[j].attempt

\* An active row names its worker, and a queued row can still be claimed, so
\* no requeue strands a job with its attempts used up (claim_next skips it).
QueueCoherent ==
    \A j \in Jobs :
        /\ job[j].status \in Active <=> job[j].worker # None
        /\ job[j].status = "queued" => job[j].attempt < MaxAttempts /\ job[j].expiry = "none"

\* Nothing brings back a row once its deletion is reserved: neither a retry,
\* nor a worker that still runs it, nor a recovery (_mark_deletion_group_locked).
ReservationIsFinal ==
    [][\A j \in Jobs : Reserved(job[j]) =>
          \/ job'[j].status = "deleted"
          \/ job'[j].status = "canceled" /\ Reserved(job'[j])]_vars

\* A job an owner asked to cancel can only become canceled: a completion, a
\* retryable failure and a crash recovery that race the request all lose.
CancelWins ==
    [][\A j \in Jobs : job[j].status = "cancel_requested" =>
          job'[j].status \in {"cancel_requested", "canceled"}]_vars

\* A hard deletion never takes a job from the worker that runs it, and never
\* takes a batch while one of its recordings is running: an active row is
\* neither reserved nor removed (delete_job, purge_expired and
\* purge_stale_unfinished each test the whole batch).
DeletionSparesActive ==
    [][\A j \in Jobs : job[j].status \in Active =>
          job'[j].status # "deleted" /\ ~Reserved(job'[j])]_vars

\* From its reservation to its end a deletion covers reserved or already
\* deleted rows only, whoever else retries, recovers or deletes meanwhile, so
\* no file tree is removed under a row that can run again.
DeletionCoversReserved ==
    \A p \in Deleters : del[p].pc \in {"files", "rows"} =>
        \A j \in del[p].group : Reserved(job[j]) \/ job[j].status = "deleted"

\* While one recording of a batch is unfinished no sibling has a deadline, so
\* none can expire early, unless part of the batch was deleted meanwhile
\* (_coordinate_batch_retention_locked).
BatchSharesDeadline ==
    \A j \in Jobs : Exists(j) /\ job[j].batch # None /\ job[j].expiry # "none" =>
        \/ \A m \in Members(job, j) : job[m].status \in Terminal
        \/ \E k \in Jobs : /\ BatchOf[k] = job[j].batch
                          /\ (Reserved(job[k]) \/ job[k].status = "deleted")

\* A retried or recovered attempt can make the first call of _process:
\* set_stage(PROBE, RUNNING) is refused from a later stage.
RequeuedAttemptCanStart ==
    \A w \in Workers : LET j == wk[w].job IN
        wk[w].pc = "claimed" /\ Holds(w, j) /\ job[j].status = "running" =>
            StageAllowed(w, j, "probe")

\* Files outlive their row only while some process is still at work on them.
NoOrphanTree ==
    \A j \in Jobs : tree[j] /\ job[j].status = "deleted" =>
        sub.job = j \/ \E w \in Workers : wk[w].job = j

\* A reservation is always carried out, even when the process that made it
\* crashes or cannot remove the files at first.
ReservationIsCarriedOut == \A j \in Jobs : Reserved(job[j]) ~> ~Exists(j)

\* A requested cancellation settles, even when the worker that should
\* acknowledge it dies first.
CancelSettles ==
    \A j \in Jobs : job[j].status = "cancel_requested" ~> job[j].status # "cancel_requested"

\* Every accepted upload is eventually hard-deleted, delivered or not.
NoIndefiniteStorage == \A j \in Jobs : Exists(j) ~> ~Exists(j)
=============================================================================
