----------------------------- MODULE Workbench -----------------------------
(***************************************************************************)
(* The process of the workbench: resumable uploads, ingestion and an       *)
(* every-source review run over the sources of one matter.  The three meet *)
(* in the registry of documents, in the jobs and at the lock of the        *)
(* matter's store, and all start and stop with the process.                *)
(***************************************************************************)
EXTENDS ReviewRuns, UploadSessions

\* Requests and the coordinator's runs are served by threads of their own.
ASSUME ThreadsAssumption == Uploaders \cap ReviewWorkers = {}

vars == <<boot, doc, job, copies, iw, guard, left, run, dec, led, rw, page, access,
          item, session, receipt, part, key, up>>

Init == IntakeInit /\ ReviewInit /\ UploadInit

\* main, close and __init__ of the coordinators
Next == \/ IntakeStep /\ UNCHANGED <<reviewVars, uploadVars>>
        \/ UploadStep /\ UNCHANGED reviewVars
        \/ ReviewStep /\ UNCHANGED uploadVars
        \/ (StopRun \/ RecoverRuns) /\ UNCHANGED uploadVars
        \/ DownRun /\ UploadDown

Spec == Init /\ [][Next]_vars

TypeOK == IntakeTypeOK /\ ReviewTypeOK /\ UploadTypeOK
=============================================================================
