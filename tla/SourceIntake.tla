---------------------------- MODULE SourceIntake ----------------------------
(***************************************************************************)
(* The sources of one matter and their ingestion (ingestion.py,            *)
(* pilot_uploads.py, workbench.py and workspace_store.py of                *)
(* src/case_intelligence).                                                 *)
(*                                                                         *)
(* The matter's registry of documents is guarded by the lock of its store  *)
(* in this process; the rows of ingestion jobs are in the shared database. *)
(* Nothing makes the two change together: what a handler or a worker does  *)
(* to the one and to the other are separate steps.  Saving a document also *)
(* writes its row of the source catalog, in the same hold of the lock, so  *)
(* one variable stands for both.                                           *)
(*                                                                         *)
(* A document keeps its identifier and its version for life: a replacement *)
(* is another document.  What changes in place is its extracted text.      *)
(***************************************************************************)
EXTENDS Integers, FiniteSets

CONSTANTS
    Docs,
    Present,         \* documents that are searchable at the beginning
    Registered,      \* documents read from a source location, by a staged copy
    Resumable,       \* documents that arrive in chunks, by an upload session
    Recordings,      \* documents whose text is a transcript
    Bases,           \* digests of extracted text, _document_content_basis
    IngestWorkers,
    Holders,         \* who else may hold the store's mutation guard
    Events,          \* kinds of events of which only so many happen
    Allotments,      \* how many of each: the choices of one behaviour
    None

ASSUME DocsAssumption   == /\ IsFiniteSet(Docs)
                           /\ Present \subseteq Docs /\ Registered \subseteq Docs
                           /\ Resumable \subseteq Docs \ (Present \cup Registered)
                           /\ Recordings \subseteq Present
ASSUME EventsAssumption == /\ {"uploads", "removals", "corrections", "errors", "downs"}
                                \subseteq Events
                           /\ Allotments \subseteq [Events -> Nat]
ASSUME NoneAssumption   == /\ None \notin Docs \cup Bases \cup Holders
                           /\ Docs \cap Holders = {}

VARIABLES
    boot,     \* how far the process has started or stopped
    doc,      \* the registry, and with it the catalog
    job,      \* state of the row of workbench_ingest_job of each document
    copies,   \* files in the staging directory
    iw,       \* what each ingestion thread holds in memory
    guard,    \* who holds the store's mutation guard across steps
    left      \* how much is left of the allotment

sourceVars == <<boot, doc, job, copies, iw, guard>>
intakeVars == <<boot, doc, job, copies, iw, guard, left>>

-----------------------------------------------------------------------------
(* Documents, jobs and threads                                             *)

Doc == [state : {"none", "queued", "processing", "ready", "failed", "needs_ocr",
                 "removed"},
        units : Nat,                  \* which file of units it has
        basis : Bases \cup {None}]    \* None while no units are held

JobStates == {"none", "queued", "running", "succeeded", "failed", "cancelled"}

Thread == [pc  : {"idle", "claimed", "staged", "extracting", "indexing", "ending",
                  "finishing"},
           doc : Docs \cup {None},
           ok  : BOOLEAN]             \* succeeded, of the pair terminal

Resting == [pc |-> "idle", doc |-> None, ok |-> FALSE]

Exists(d) == doc[d].state \notin {"none", "removed"}

\* Files in the staging directory: a copy that _process was told of, and what is
\* left of one that failed and could not be unlinked.
Staged(d)   == <<d, "staged">>
Leftover(d) == <<d, "leftover">>

\* The text is dropped: _drop_units
Bare(d, s) == [doc[d] EXCEPT !.state = s, !.basis = None]

Spend(e) == left[e] > 0 /\ left' = [left EXCEPT ![e] = @ - 1]

IntakeInit ==
    /\ boot = "up"
    /\ doc \in {f \in [Docs -> [state : {"none", "ready"}, units : {0},
                                basis : Bases \cup {None}]] :
                  \A d \in Docs :
                     IF d \in Present THEN f[d].state = "ready" /\ f[d].basis # None
                                      ELSE f[d].state = "none" /\ f[d].basis = None}
    /\ job = [d \in Docs |-> IF d \in Present \ Recordings THEN "succeeded" ELSE "none"]
    /\ copies = {}
    /\ iw = [w \in IngestWorkers |-> Resting]
    /\ guard = None
    /\ left \in Allotments

-----------------------------------------------------------------------------
(* Requests                                                                *)

\* store_stream, register_linked_sources
Upload(d) ==
    /\ boot = "up" /\ guard = None
    /\ d \notin Resumable /\ doc[d].state = "none"
    /\ Spend("uploads")
    /\ doc' = [doc EXCEPT ![d].state = "queued"]
    /\ UNCHANGED <<boot, job, copies, iw, guard>>

\* queue_upload, confirm_ingest_plan
QueueUpload(d) ==
    /\ boot = "up" /\ d \notin Resumable
    /\ doc[d].state = "queued" /\ job[d] = "none"
    /\ job' = [job EXCEPT ![d] = "queued"]
    /\ UNCHANGED <<boot, doc, copies, iw, guard, left>>

\* _retry_document_locked: the registry first, then the job, under the guard
RetryDocument(d) ==
    /\ boot = "up" /\ guard = None
    /\ Exists(d) /\ job[d] = "failed"
    /\ doc'   = [doc EXCEPT ![d].state = "queued"]
    /\ guard' = d
    /\ UNCHANGED <<boot, job, copies, iw, left>>

\* retry_ingest_job
RetryJob(d) ==
    /\ guard = d
    /\ job'   = [job EXCEPT ![d] = "queued"]
    /\ guard' = None
    /\ UNCHANGED <<boot, doc, copies, iw, left>>

\* Whether a claim of d may have come after the handler looked at its job.
ClaimedMeanwhile(d) ==
    \E w \in IngestWorkers : iw[w].doc = d /\ iw[w].pc \in {"claimed", "staged"}

\* _remove_document_locked, cancel_document_ingest_job, remove
Remove(d) ==
    /\ boot = "up" /\ guard = None
    /\ Exists(d)
    /\ job[d] # "running" \/ ClaimedMeanwhile(d)
    /\ Spend("removals")
    /\ doc' = [doc EXCEPT ![d] = Bare(d, "removed")]
    /\ job' = [job EXCEPT ![d] = IF @ \in {"queued", "failed"} THEN "cancelled" ELSE @]
    /\ UNCHANGED <<boot, copies, iw, guard>>

\* refresh_media_projection: a corrected transcript is projected in place
Correct(d) ==
    /\ boot = "up" /\ guard = None
    /\ d \in Recordings /\ doc[d].state = "ready"
    /\ Spend("corrections")
    /\ \E b \in Bases : doc' = [doc EXCEPT ![d].units = @ + 1, ![d].basis = b]
    /\ UNCHANGED <<boot, job, copies, iw, guard>>

-----------------------------------------------------------------------------
(* Ingestion threads                                                       *)

Goto(w, pc)  == iw' = [iw EXCEPT ![w].pc = pc]
EndWith(w, ok) == iw' = [iw EXCEPT ![w].pc = "ending", ![w].ok = ok]

\* claim_ingest_job
Claim(w, d) ==
    /\ boot \in {"ingesting", "up"}
    /\ iw[w].pc = "idle" /\ job[d] = "queued"
    /\ job' = [job EXCEPT ![d] = "running"]
    /\ iw'  = [iw EXCEPT ![w] = [pc |-> "claimed", doc |-> d, ok |-> FALSE]]
    /\ UNCHANGED <<boot, doc, copies, guard, left>>

\* SourceLocationRegistry.stage, when the copy is made
Stage(w) ==
    LET d == iw[w].doc
    IN  /\ iw[w].pc = "claimed" /\ d \in Registered /\ Exists(d)
        /\ copies' = copies \cup {Staged(d)}
        /\ Goto(w, "staged")
        /\ UNCHANGED <<boot, doc, job, guard, left>>

\* PilotStore.process, up to the extraction
Process(w) ==
    LET d == iw[w].doc
    IN  /\ iw[w].pc = (IF d \in Registered THEN "staged" ELSE "claimed")
        /\ guard = None /\ Exists(d)
        /\ doc' = [doc EXCEPT ![d] = Bare(d, "processing")]
        /\ Goto(w, "extracting")
        /\ UNCHANGED <<boot, job, copies, guard, left>>

\* stage, when the copy fails: its part file is unlinked, and if that raises too it
\* stays although _process was told of no file.
Copying(w) == iw[w].pc = "claimed" /\ iw[w].doc \in Registered

FailedCopies(w) ==
    {copies} \cup IF Copying(w) THEN {copies \cup {Leftover(iw[w].doc)}} ELSE {}

\* _process: the document is gone, or its file cannot be staged or has changed
Refuse(w) ==
    LET d == iw[w].doc
    IN  /\ iw[w].pc \in {"claimed", "staged"} /\ guard = None
        /\ copies' \in FailedCopies(w)
        /\ IF Exists(d) THEN Spend("errors") /\ doc' = [doc EXCEPT ![d] = Bare(d, "failed")]
                        ELSE UNCHANGED <<left, doc>>
        /\ EndWith(w, FALSE)
        /\ UNCHANGED <<boot, job, guard>>

\* PilotStore.process, what the extraction found
Extract(w) ==
    LET d == iw[w].doc
    IN  /\ iw[w].pc = "extracting" /\ guard = None
        /\ \/ /\ \E b \in Bases :
                   doc' = [doc EXCEPT ![d].state = "ready", ![d].units = @ + 1,
                                      ![d].basis = b]
              /\ Goto(w, "indexing")
              /\ UNCHANGED left
           \/ /\ Spend("errors")
              /\ \E s \in {"needs_ocr", "failed"} : doc' = [doc EXCEPT ![d] = Bare(d, s)]
              /\ EndWith(w, FALSE)
        /\ UNCHANGED <<boot, job, copies, guard>>

\* index_document of _process, and _mark_failed when it raises
Index(w) ==
    LET d == iw[w].doc
    IN  /\ iw[w].pc = "indexing" /\ guard = None
        /\ \/ EndWith(w, TRUE) /\ UNCHANGED <<left, doc>>
           \/ /\ Spend("errors")
              /\ doc' = [doc EXCEPT ![d] = Bare(d, "failed")]
              /\ EndWith(w, FALSE)
        /\ UNCHANGED <<boot, job, copies, guard>>

\* Mutant: the job is finished although the copy could not be removed.
AfterFailedCleanupFinish(w) == [iw[w] EXCEPT !.pc = "finishing"]

\* cleanup_complete is false: the job stays active
AfterFailedCleanup(w) == Resting

\* _remove_staged_source, which may raise before it unlinks or after
Cleanup(w) ==
    LET file == Staged(iw[w].doc)
    IN  /\ iw[w].pc = "ending"
        /\ \/ copies' = copies \ {file} /\ Goto(w, "finishing") /\ UNCHANGED left
           \/ /\ file \in copies /\ Spend("errors")
              /\ iw' = [iw EXCEPT ![w] = AfterFailedCleanup(w)]
              /\ copies' \in {copies, copies \ {file}}
        /\ UNCHANGED <<boot, doc, job, guard>>

\* finish_ingest_job; what it raises is dropped and leaves the job running
Finish(w) ==
    LET d == iw[w].doc
    IN  /\ iw[w].pc = "finishing"
        /\ \/ /\ job[d] = "running"
              /\ job' = [job EXCEPT ![d] = IF iw[w].ok THEN "succeeded" ELSE "failed"]
              /\ UNCHANGED left
           \/ Spend("errors") /\ UNCHANGED job
        /\ iw' = [iw EXCEPT ![w] = Resting]
        /\ UNCHANGED <<boot, doc, copies, guard>>

-----------------------------------------------------------------------------
(* The process                                                             *)

\* The coordinators are told to stop.
Stop ==
    /\ boot = "up" /\ left["downs"] > 0
    /\ boot' = "stopping"
    /\ UNCHANGED <<doc, job, copies, iw, guard, left>>

\* The process ends, in order or not.
Down ==
    /\ boot # "down" /\ Spend("downs")
    /\ boot'  = "down"
    /\ iw'    = [w \in IngestWorkers |-> Resting]
    /\ guard' = None
    /\ UNCHANGED <<doc, job, copies>>

\* _reconcile_staging
ReconcileStaging ==
    /\ boot = "down"
    /\ boot'   = "reconciled"
    /\ copies' = {}
    /\ UNCHANGED <<doc, job, iw, guard, left>>

\* recover_running_ingest_jobs; then the ingestion threads start
RecoverJobs ==
    /\ boot = "reconciled"
    /\ boot' = "ingesting"
    /\ job'  = [d \in Docs |-> IF job[d] = "running" THEN "queued" ELSE job[d]]
    /\ UNCHANGED <<doc, copies, iw, guard, left>>

Ingest(w) == \/ \E d \in Docs : Claim(w, d)
             \/ Stage(w) \/ Process(w) \/ Refuse(w) \/ Extract(w) \/ Index(w)
             \/ Cleanup(w) \/ Finish(w)

IntakeStep ==
    \/ \E d \in Docs : \/ Upload(d) \/ QueueUpload(d) \/ RetryDocument(d)
                       \/ RetryJob(d) \/ Remove(d) \/ Correct(d)
    \/ \E w \in IngestWorkers : Ingest(w)
    \/ ReconcileStaging \/ RecoverJobs

-----------------------------------------------------------------------------
(* Properties                                                              *)

IntakeTypeOK ==
    /\ boot   \in {"down", "reconciled", "ingesting", "up", "stopping"}
    /\ doc    \in [Docs -> Doc]
    /\ job    \in [Docs -> JobStates]
    /\ copies \subseteq Registered \X {"staged", "leftover"}
    /\ iw     \in [IngestWorkers -> Thread]
    /\ guard  \in Docs \cup Holders \cup {None}
    /\ left   \in [Events -> Nat]

\* The copy of a source that was staged belongs to a running job, whichever later
\* step failed or crashed, and whatever was removed or retried meanwhile: the
\* purge of the matter waits for the job and so cannot overtake the copy
\* (_process, _reconcile_staging).  What is left of a failed copy is not owned.
StagedCopyIsOwned == \A d \in Docs : Staged(d) \in copies => job[d] = "running"
=============================================================================
