-------------------------- MODULE WorkbenchProofs --------------------------
(***************************************************************************)
(* Theorems of Workbench, for any sources, items, threads, reviewers and   *)
(* allotments: its types, what becomes of staged copies, and what          *)
(* resumable uploads promise in any interleaving with ingestion, reviews,  *)
(* crashes and restarts.                                                   *)
(***************************************************************************)
EXTENDS Workbench, UploadTypes, ReviewTypes

Typed == IntakeTyped /\ ReviewTyped /\ UploadTyped

LEMMA InitTyped == ASSUME Init PROVE Typed
BY IntakeInitTyped, ReviewInitTyped, UploadInitTyped DEF Init, Typed

LEMMA NextTyped == ASSUME Typed, [Next]_vars PROVE Typed'
<1> USE DEF Typed
<1>1. CASE IntakeStep /\ UNCHANGED <<reviewVars, uploadVars>>
  BY <1>1, IntakeStepTyped
DEF ReviewTyped, ReviewTypeOK, UploadTyped, UploadTypeOK, reviewVars, uploadVars, Source
<1>2. CASE UploadStep /\ UNCHANGED reviewVars
  BY <1>2, UploadStepTyped, UploadLeavesTyped
DEF ReviewTyped, ReviewTypeOK, reviewVars, Source
<1>3. CASE ReviewStep /\ UNCHANGED uploadVars
  BY <1>3, ReviewStepTyped, ReviewLeaves, ReviewAssumption
DEF IntakeTyped, IntakeTypeOK, UploadTyped, UploadTypeOK, uploadVars
<1>4. CASE (StopRun \/ RecoverRuns) /\ UNCHANGED uploadVars
  <2>1. IntakeTyped'
    BY <1>4, BootTyped DEF StopRun, RecoverRuns, IntakeTyped, IntakeTypeOK
  <2>2. QED BY <1>4, <2>1, ProcessTyped DEF UploadTyped, UploadTypeOK, uploadVars
<1>5. CASE DownRun /\ UploadDown
  BY <1>5, BootTyped, ProcessTyped, UploadDownTyped DEF DownRun
<1>6. CASE UNCHANGED vars
  BY <1>6
DEF vars, IntakeTyped, IntakeTypeOK, ReviewTyped, ReviewTypeOK, UploadTyped, UploadTypeOK, Source
<1>7. QED BY <1>1, <1>2, <1>3, <1>4, <1>5, <1>6 DEF Next

LEMMA TypesHold == Spec => []Typed
<1>1. Init => Typed
  BY InitTyped
<1>2. Typed /\ [Next]_vars => Typed'
  BY NextTyped
<1>3. QED BY <1>1, <1>2, PTL DEF Spec

\* Every variable has its type, in every instance.
THEOREM TypeCorrect == Spec => []TypeOK
<1>1. Typed => TypeOK
  BY DEF Typed, TypeOK, IntakeTyped, ReviewTyped, UploadTyped
<1>2. QED BY <1>1, TypesHold, PTL

-----------------------------------------------------------------------------
(* Ingestion: one thread for each running job, and who owns a staged copy. *)

Busy(w) == iw[w].pc # "idle"

JobInv ==
    /\ \A w \in IngestWorkers : Busy(w) => job[iw[w].doc] = "running"
    /\ \A v, w \in IngestWorkers : Busy(v) /\ Busy(w) /\ iw[v].doc = iw[w].doc => v = w
    /\ StagedCopyIsOwned
    /\ \A w \in IngestWorkers : iw[w].pc = "finishing" => Staged(iw[w].doc) \notin copies
    /\ \A w \in IngestWorkers : iw[w].pc \in {"extracting", "indexing"} => Exists(iw[w].doc)
    /\ \A d \in Docs : guard = d => job[d] = "failed"
    /\ boot \in {"down", "reconciled"} => \A w \in IngestWorkers : ~Busy(w)
    /\ boot = "reconciled" => copies = {}

\* How a step of ingestion may move a document and its job.
Forward(d) ==
    /\ Exists(d)' => Exists(d) \/ (d \notin Resumable /\ doc[d].state = "none")
    /\ doc[d].state # "none" => doc'[d].state # "none"
    /\ job[d] # "none" => job'[d] # "none"
    /\ job[d] = "none" /\ job'[d] # "none" => d \notin Resumable

GuardKept == guard' = guard \/ guard \in Docs \cup {None}

LEMMA InitJobInv == ASSUME Init PROVE JobInv
BY NoneAssumption DEF Init, IntakeInit, JobInv, StagedCopyIsOwned, Busy, Resting

LEMMA RequestsKeepJobs ==
  ASSUME IntakeTyped, JobInv, NEW d \in Docs,
         Upload(d) \/ QueueUpload(d) \/ RetryDocument(d) \/ RetryJob(d) \/ Remove(d)
           \/ Correct(d)
  PROVE  JobInv' /\ GuardKept /\ \A e \in Docs : Forward(e)
<1> USE DEF IntakeTyped, IntakeTypeOK
<1>1. CASE Upload(d)
  BY <1>1, NoneAssumption DEF Upload, JobInv, StagedCopyIsOwned, Busy, Exists, Forward, GuardKept
<1>2. CASE QueueUpload(d)
  BY <1>2, NoneAssumption DEF QueueUpload, JobInv, StagedCopyIsOwned, Busy, Exists, Forward, GuardKept
<1>3. CASE RetryDocument(d)
  BY <1>3, NoneAssumption DEF RetryDocument, JobInv, StagedCopyIsOwned, Busy, Exists, Forward, GuardKept
<1>4. CASE RetryJob(d)
  BY <1>4, NoneAssumption DEF RetryJob, JobInv, StagedCopyIsOwned, Busy, Exists, Forward, GuardKept
<1>5. CASE Remove(d)
  BY <1>5, NoneAssumption DEF Remove, JobInv, StagedCopyIsOwned, Busy, Exists, Forward, GuardKept,
     Bare, ClaimedMeanwhile
<1>6. CASE Correct(d)
  <2>1. PICK b \in Bases : doc' = [doc EXCEPT ![d].units = @ + 1, ![d].basis = b]
    BY <1>6 DEF Correct
  <2>2. \A e \in Docs : doc'[e].state = doc[e].state
    BY <2>1 DEF Doc
  <2>3. UNCHANGED <<boot, job, copies, iw, guard>>
    BY <1>6 DEF Correct
  <2>4. QED BY <2>2, <2>3 DEF JobInv, StagedCopyIsOwned, Busy, Exists, Forward, GuardKept
<1>7. QED BY <1>1, <1>2, <1>3, <1>4, <1>5, <1>6

\* The registry knows the same documents as before.
SameDocs == \A e \in Docs : /\ doc'[e].state = "none" <=> doc[e].state = "none"
                            /\ doc'[e].state = "removed" <=> doc[e].state = "removed"

\* A write to a document that exists, which leaves it in the registry.
LEMMA WriteKeepsDocs ==
  ASSUME doc \in [Docs -> Doc], NEW d \in Docs, Exists(d),
         NEW s \in {"processing", "ready", "needs_ocr", "failed"},
         NEW r, r.state = s, doc' = [doc EXCEPT ![d] = r]
  PROVE  SameDocs
<1>1. ASSUME NEW e \in Docs
      PROVE  /\ doc'[e].state = "none" <=> doc[e].state = "none"
             /\ doc'[e].state = "removed" <=> doc[e].state = "removed"
  <2>1. CASE e = d
    BY <2>1 DEF Exists
  <2>2. CASE e # d
    BY <2>2
  <2>3. QED BY <2>1, <2>2
<1>2. QED BY <1>1 DEF SameDocs

LEMMA BareState ==
  ASSUME doc \in [Docs -> Doc], NEW d \in Docs, NEW s
  PROVE  Bare(d, s).state = s
<1>1. doc[d] \in Doc
  OBVIOUS
<1>2. QED BY <1>1 DEF Bare, Doc

\* A busy thread goes on with its document, which stays in the registry.
LEMMA GoesOnWithDocument ==
  ASSUME IntakeTyped, JobInv, NEW w \in IngestWorkers, Busy(w),
         iw[w].pc \notin {"ending", "finishing"},
         NEW r \in Thread, iw' = [iw EXCEPT ![w] = r], r.doc = iw[w].doc,
         r.pc \in {"staged", "extracting", "indexing", "ending"},
         r.pc \in {"extracting", "indexing"} => Exists(iw[w].doc),
         SameDocs, \A e \in Docs : Staged(e) \in copies' => Staged(e) \in copies \/ e = iw[w].doc,
         UNCHANGED <<boot, job, guard>>
  PROVE  JobInv' /\ GuardKept /\ \A e \in Docs : Forward(e)
<1> USE DEF IntakeTyped, IntakeTypeOK
<1> DEFINE d == iw[w].doc
<1>1. d \in Docs /\ job[d] = "running" /\ r.pc # "idle" /\ r.pc # "finishing"
  BY DEF Busy, JobInv
<1>2. \A v \in IngestWorkers : iw'[v].doc = iw[v].doc /\ (iw'[v].pc # "idle" <=> iw[v].pc # "idle")
  BY <1>1 DEF Busy
<1>3. \A v \in IngestWorkers \ {w} : iw'[v] = iw[v]
  OBVIOUS
<1>4. \A e \in Docs : (doc'[e].state \notin {"none", "removed"}) <=> (doc[e].state \notin {"none", "removed"})
  BY DEF SameDocs
<1>5. iw'[w] = r
  OBVIOUS
<1> HIDE DEF d
<1>6. /\ \A v \in IngestWorkers : Busy(v)' => job'[iw'[v].doc] = "running"
      /\ \A v, x \in IngestWorkers : Busy(v)' /\ Busy(x)' /\ iw'[v].doc = iw'[x].doc => v = x
  BY <1>2 DEF JobInv, Busy
<1>7. StagedCopyIsOwned'
  BY <1>1 DEF JobInv, StagedCopyIsOwned, d
<1>8. ASSUME NEW v \in IngestWorkers, iw'[v].pc = "finishing" PROVE Staged(iw'[v].doc) \notin copies'
  <2>1. v # w /\ iw[v].pc = "finishing" /\ iw'[v].doc = iw[v].doc
    BY <1>1, <1>3, <1>5, <1>8
  <2>2. iw[v].doc # d /\ iw[v].doc \in Docs /\ Staged(iw[v].doc) \notin copies
    BY <2>1 DEF JobInv, Busy, d
  <2>3. QED BY <2>1, <2>2 DEF d
<1>9. ASSUME NEW v \in IngestWorkers, iw'[v].pc \in {"extracting", "indexing"}
      PROVE  doc'[iw'[v].doc].state \notin {"none", "removed"}
  <2>1. Exists(iw[v].doc) /\ iw[v].doc \in Docs
    BY <1>1, <1>3, <1>5, <1>9 DEF JobInv, d
  <2>2. iw'[v].doc = iw[v].doc
    BY <1>2
  <2>3. QED BY <2>1, <2>2, <1>4 DEF Exists
<1>10. /\ \A e \in Docs : guard' = e => job'[e] = "failed"
       /\ boot' \in {"down", "reconciled"} => \A v \in IngestWorkers : ~Busy(v)'
       /\ boot' # "reconciled"
  BY DEF JobInv, Busy
<1>11. JobInv'
  BY <1>6, <1>7, <1>8, <1>9, <1>10 DEF JobInv, Busy, Exists
<1>12. \A e \in Docs : Forward(e)
  BY <1>4 DEF Forward, SameDocs, Exists
<1>13. QED BY <1>11, <1>12 DEF GuardKept

LEMMA ThreadFields ==
  ASSUME NEW r \in Thread
  PROVE  /\ \A pc \in {"staged", "extracting", "indexing", "finishing"} :
              /\ [r EXCEPT !.pc = pc] \in Thread
              /\ [r EXCEPT !.pc = pc].pc = pc /\ [r EXCEPT !.pc = pc].doc = r.doc
         /\ \A ok \in BOOLEAN :
              /\ [r EXCEPT !.pc = "ending", !.ok = ok] \in Thread
              /\ [r EXCEPT !.pc = "ending", !.ok = ok].pc = "ending"
              /\ [r EXCEPT !.pc = "ending", !.ok = ok].doc = r.doc
<1>1. \A pc \in {"staged", "extracting", "indexing", "finishing"} :
        /\ [r EXCEPT !.pc = pc] \in Thread
        /\ [r EXCEPT !.pc = pc].pc = pc /\ [r EXCEPT !.pc = pc].doc = r.doc
  BY DEF Thread
<1>2. \A ok \in BOOLEAN :
        /\ [r EXCEPT !.pc = "ending", !.ok = ok] \in Thread
        /\ [r EXCEPT !.pc = "ending", !.ok = ok].pc = "ending"
        /\ [r EXCEPT !.pc = "ending", !.ok = ok].doc = r.doc
  BY DEF Thread
<1>3. QED BY <1>1, <1>2

\* Goto and EndWith, as one record that replaces another.
LEMMA ThreadGoesOn ==
  ASSUME IntakeTyped, JobInv, NEW w \in IngestWorkers, Busy(w),
         iw[w].pc \notin {"ending", "finishing"},
         \/ \E pc \in {"staged", "extracting", "indexing"} :
              Goto(w, pc) /\ (pc # "staged" => Exists(iw[w].doc))
         \/ \E ok \in BOOLEAN : EndWith(w, ok),
         SameDocs, \A e \in Docs : Staged(e) \in copies' => Staged(e) \in copies \/ e = iw[w].doc,
         UNCHANGED <<boot, job, guard>>
  PROVE  JobInv' /\ GuardKept /\ \A e \in Docs : Forward(e)
<1>1. iw[w] \in Thread
  BY DEF IntakeTyped, IntakeTypeOK
<1>2. ASSUME NEW pc \in {"staged", "extracting", "indexing"},
             Goto(w, pc) /\ (pc # "staged" => Exists(iw[w].doc))
      PROVE  JobInv' /\ GuardKept /\ \A e \in Docs : Forward(e)
  <2> DEFINE r == [iw[w] EXCEPT !.pc = pc]
  <2>1. r \in Thread /\ r.pc = pc /\ r.doc = iw[w].doc
    BY <1>1 DEF Thread
  <2>2. iw' = [iw EXCEPT ![w] = r]
    BY <1>2 DEF Goto
  <2> HIDE DEF r
  <2>3. QED BY <1>2, <2>1, <2>2, GoesOnWithDocument
<1>3. ASSUME NEW ok \in BOOLEAN, EndWith(w, ok)
      PROVE  JobInv' /\ GuardKept /\ \A e \in Docs : Forward(e)
  <2> DEFINE r == [iw[w] EXCEPT !.pc = "ending", !.ok = ok]
  <2>1. r \in Thread /\ r.pc = "ending" /\ r.doc = iw[w].doc
    BY <1>1, ThreadFields
  <2>2. iw' = [iw EXCEPT ![w] = r]
    BY <1>3 DEF EndWith
  <2> HIDE DEF r
  <2>3. QED BY <2>1, <2>2, GoesOnWithDocument
<1>4. QED BY <1>2, <1>3

LEMMA IngestKeepsJobs ==
  ASSUME IntakeTyped, JobInv, NEW w \in IngestWorkers, Ingest(w)
  PROVE  JobInv' /\ GuardKept /\ \A e \in Docs : Forward(e)
<1> USE DEF IntakeTyped, IntakeTypeOK
<1> DEFINE d == iw[w].doc
<1>1. ASSUME NEW e \in Docs, Claim(w, e) PROVE JobInv' /\ GuardKept /\ \A x \in Docs : Forward(x)
  BY <1>1 DEF Claim, JobInv, StagedCopyIsOwned, Busy, Exists, Forward, GuardKept, Thread
<1>2. CASE Stage(w)
  <2>1. \A e \in Docs : Staged(e) \in copies' => Staged(e) \in copies \/ e = d
    BY <1>2 DEF Stage, Staged
  <2>2. QED BY <1>2, <2>1, ThreadGoesOn DEF Stage, Busy, SameDocs
<1>3. CASE Process(w)
  <2>1. d \in Docs /\ Exists(d) /\ Busy(w) /\ iw[w].pc \in {"claimed", "staged"}
    BY <1>3 DEF Process, Busy
  <2>2. Bare(d, "processing").state = "processing" /\ doc' = [doc EXCEPT ![d] = Bare(d, "processing")]
    BY <1>3, <2>1, BareState DEF Process
  <2>3. SameDocs
    BY <2>1, <2>2, WriteKeepsDocs
  <2>4. QED BY <1>3, <2>1, <2>3, ThreadGoesOn DEF Process
<1>4. CASE Refuse(w)
  <2>1. EndWith(w, FALSE) /\ iw[w].pc \in {"claimed", "staged"} /\ Busy(w) /\ d \in Docs
    BY <1>4 DEF Refuse, Busy
  <2>2. SameDocs
    <3>1. CASE Exists(d)
      <4>1. doc' = [doc EXCEPT ![d] = Bare(d, "failed")] /\ Bare(d, "failed").state = "failed"
        BY <1>4, <2>1, <3>1, BareState DEF Refuse
      <4>2. QED BY <2>1, <3>1, <4>1, WriteKeepsDocs
    <3>2. CASE ~Exists(d)
      BY <1>4, <3>2 DEF Refuse, SameDocs
    <3>3. QED BY <3>1, <3>2
  <2>3. /\ UNCHANGED <<boot, job, guard>>
        /\ \A e \in Docs : Staged(e) \in copies' => Staged(e) \in copies
    BY <1>4 DEF Refuse, FailedCopies, Staged, Leftover
  <2>4. QED BY <2>1, <2>2, <2>3, ThreadGoesOn
<1>5. CASE Extract(w)
  <2>1. d \in Docs /\ Exists(d) /\ iw[w].pc = "extracting" /\ Busy(w)
    BY <1>5 DEF Extract, JobInv, Busy
  <2>2. SameDocs
    <3>1. ASSUME NEW b \in Bases,
                 doc' = [doc EXCEPT ![d].state = "ready", ![d].units = @ + 1, ![d].basis = b]
          PROVE  SameDocs
      <4> DEFINE r == [doc[d] EXCEPT !.state = "ready", !.units = doc[d].units + 1, !.basis = b]
      <4>1. doc' = [doc EXCEPT ![d] = r]
        BY <2>1, <3>1
      <4>2. r.state = "ready"
        <5>1. doc[d] \in Doc
          BY <2>1
        <5>2. QED BY <5>1 DEF Doc
      <4> HIDE DEF r
      <4>3. QED BY <2>1, <4>1, <4>2, WriteKeepsDocs
    <3>2. ASSUME NEW s \in {"needs_ocr", "failed"}, doc' = [doc EXCEPT ![d] = Bare(d, s)]
          PROVE  SameDocs
      <4>1. Bare(d, s).state = s
        BY <2>1, BareState
      <4>2. QED BY <2>1, <3>2, <4>1, WriteKeepsDocs
    <3>3. QED BY <1>5, <3>1, <3>2 DEF Extract
  <2>3. UNCHANGED <<boot, job, copies, guard>> /\ (Goto(w, "indexing") \/ EndWith(w, FALSE))
    BY <1>5 DEF Extract
  <2>4. QED BY <2>1, <2>2, <2>3, ThreadGoesOn
<1>6. CASE Index(w)
  <2>1. d \in Docs /\ Exists(d) /\ iw[w].pc = "indexing" /\ Busy(w)
    BY <1>6 DEF Index, JobInv, Busy
  <2>2. UNCHANGED doc \/ doc' = [doc EXCEPT ![d] = Bare(d, "failed")]
    BY <1>6 DEF Index
  <2>3. SameDocs
    <3>1. CASE UNCHANGED doc
      BY <3>1 DEF SameDocs
    <3>2. CASE doc' = [doc EXCEPT ![d] = Bare(d, "failed")]
      <4>1. Bare(d, "failed").state = "failed"
        BY <2>1, BareState
      <4>2. QED BY <2>1, <3>2, <4>1, WriteKeepsDocs
    <3>3. QED BY <2>2, <3>1, <3>2
  <2>4. UNCHANGED <<boot, job, copies, guard>> /\ (EndWith(w, TRUE) \/ EndWith(w, FALSE))
    BY <1>6 DEF Index
  <2>5. QED BY <2>1, <2>3, <2>4, ThreadGoesOn
<1>7. CASE Cleanup(w)
  <2>1. copies' \subseteq copies /\ (iw'[w].pc = "finishing" => Staged(d) \notin copies')
    BY <1>7 DEF Cleanup, Goto, AfterFailedCleanup, Resting, Thread
  <2>2. UNCHANGED <<boot, doc, job, guard>> /\ Busy(w)
    BY <1>7 DEF Cleanup, Busy
  <2>3. /\ \A v \in IngestWorkers \ {w} : iw'[v] = iw[v]
        /\ \/ iw'[w].pc = "idle"
           \/ iw'[w].pc = "finishing" /\ iw'[w].doc = d
    <3>1. iw[w] \in Thread
      OBVIOUS
    <3>2. CASE Goto(w, "finishing")
      BY <3>1, <3>2, ThreadFields DEF Goto
    <3>3. CASE iw' = [iw EXCEPT ![w] = AfterFailedCleanup(w)]
      BY <3>3 DEF AfterFailedCleanup, Resting
    <3>4. QED BY <1>7, <3>2, <3>3 DEF Cleanup
  <2> HIDE DEF d
  <2>4. \A v \in IngestWorkers : Busy(v)' => Busy(v) /\ iw'[v].doc = iw[v].doc
    BY <2>2, <2>3 DEF Busy, d
  <2>5. /\ \A v \in IngestWorkers : iw'[v].pc = "finishing" => Staged(iw'[v].doc) \notin copies'
        /\ \A v \in IngestWorkers : iw'[v].pc \in {"extracting", "indexing"} => iw'[v] = iw[v]
    BY <2>1, <2>3 DEF JobInv
  <2>6. JobInv'
    BY <2>1, <2>2, <2>4, <2>5 DEF JobInv, StagedCopyIsOwned, Exists, Busy
  <2>7. QED BY <2>2, <2>6 DEF Forward, GuardKept, Exists
<1>8. CASE Finish(w)
  <2>1. /\ d \in Docs /\ Busy(w) /\ iw[w].pc = "finishing" /\ Staged(d) \notin copies
        /\ job[d] = "running"
    BY <1>8 DEF Finish, JobInv, Busy
  <2>2. iw'[w].pc = "idle" /\ \A v \in IngestWorkers \ {w} : iw'[v] = iw[v]
    BY <1>8 DEF Finish, Resting
  <2>3. job' = job \/ \E s \in {"succeeded", "failed"} : job' = [job EXCEPT ![d] = s]
    BY <1>8 DEF Finish
  <2>4. UNCHANGED <<boot, doc, copies, guard>>
    BY <1>8 DEF Finish
  <2> HIDE DEF d
  <2>5. \A v \in IngestWorkers : Busy(v)' => Busy(v) /\ v # w /\ iw'[v] = iw[v] /\ iw[v].doc # d
    BY <2>1, <2>2 DEF JobInv, Busy, d
  <2>6. /\ job'[d] # "none" /\ job[d] # "none"
        /\ \A e \in Docs \ {d} : job'[e] = job[e]
    BY <2>1, <2>3
  <2>7. \A v \in IngestWorkers : Busy(v)' => job'[iw'[v].doc] = "running"
    BY <2>5, <2>6 DEF JobInv, Busy
  <2>8. ASSUME NEW e \in Docs, Staged(e) \in copies' PROVE job'[e] = "running"
    <3>1. Staged(e) \in copies /\ e # d
      BY <2>1, <2>4, <2>8
    <3>2. QED BY <2>6, <3>1 DEF JobInv, StagedCopyIsOwned
  <2>9. \A e \in Docs : guard' = e => job'[e] = "failed"
    BY <2>1, <2>4, <2>6 DEF JobInv
  <2>10. /\ \A v, x \in IngestWorkers : Busy(v)' /\ Busy(x)' /\ iw'[v].doc = iw'[x].doc => v = x
         /\ \A v \in IngestWorkers : iw'[v].pc = "finishing" => Staged(iw'[v].doc) \notin copies'
         /\ boot' \in {"down", "reconciled"} => \A v \in IngestWorkers : ~Busy(v)'
         /\ boot' = "reconciled" => copies' = {}
    BY <2>4, <2>5 DEF JobInv, Busy
  <2>11. ASSUME NEW v \in IngestWorkers, iw'[v].pc \in {"extracting", "indexing"}
         PROVE  doc'[iw'[v].doc].state \notin {"none", "removed"}
    <3>1. iw'[v] = iw[v]
      BY <2>5, <2>11 DEF Busy
    <3>2. QED BY <2>4, <2>11, <3>1 DEF JobInv, Exists
  <2>12. JobInv'
    BY <2>7, <2>8, <2>9, <2>10, <2>11 DEF JobInv, Busy, Exists, StagedCopyIsOwned
  <2>13. \A e \in Docs : Forward(e)
    BY <2>4, <2>6 DEF Forward, Exists
  <2>14. QED BY <2>4, <2>12, <2>13 DEF GuardKept
<1>9. QED BY <1>1, <1>2, <1>3, <1>4, <1>5, <1>6, <1>7, <1>8 DEF Ingest

LEMMA BootKeepsJobs ==
  ASSUME IntakeTyped, JobInv, Stop \/ Down \/ ReconcileStaging \/ RecoverJobs
  PROVE  JobInv' /\ \A e \in Docs : Forward(e)
<1> USE DEF IntakeTyped, IntakeTypeOK
<1>1. CASE Stop
  BY <1>1 DEF Stop, JobInv, StagedCopyIsOwned, Busy, Exists, Forward
<1>2. CASE Down
  <2>1. \A w \in IngestWorkers : iw'[w].pc = "idle"
    BY <1>2 DEF Down, Resting
  <2>2. guard' = None /\ boot' = "down" /\ UNCHANGED <<doc, job, copies>>
    BY <1>2 DEF Down
  <2>3. QED BY <2>1, <2>2, NoneAssumption DEF JobInv, StagedCopyIsOwned, Busy, Exists, Forward
<1>3. CASE ReconcileStaging
  BY <1>3 DEF ReconcileStaging, JobInv, StagedCopyIsOwned, Busy, Exists, Forward
<1>4. CASE RecoverJobs
  <2>1. /\ copies' = {} /\ boot' = "ingesting" /\ UNCHANGED <<doc, iw, guard>>
        /\ \A w \in IngestWorkers : iw'[w].pc = "idle"
    BY <1>4 DEF RecoverJobs, JobInv, Busy
  <2>2. \A d \in Docs : /\ job[d] = "failed" => job'[d] = "failed"
                        /\ job[d] = "none" <=> job'[d] = "none"
    BY <1>4 DEF RecoverJobs
  <2>3. QED BY <2>1, <2>2 DEF JobInv, StagedCopyIsOwned, Busy, Exists, Forward
<1>5. QED BY <1>1, <1>2, <1>3, <1>4

\* What uploads do to the sources.
LEMMA UploadsAdd ==
  ASSUME IntakeTyped, UploadTyped, UploadStep
  PROVE  /\ UNCHANGED <<boot, copies, iw>>
         /\ \/ UNCHANGED doc
            \/ \E d \in Resumable : doc[d].state = "none" /\ doc' = [doc EXCEPT ![d].state = "queued"]
         /\ \/ UNCHANGED job
            \/ \E d \in Docs : job' = [job EXCEPT ![d] = IF @ = "none" THEN "queued" ELSE @]
         /\ guard' \in {guard, None} \cup Uploaders
<1> USE DEF UploadTyped, UploadTypeOK
<1>1. CASE CreateSession \/ DiscardReceipt
  BY <1>1 DEF CreateSession, DiscardReceipt, sourceVars, intakeVars
<1>2. ASSUME NEW i \in Items, Reconcile(i) PROVE UNCHANGED intakeVars
  BY <1>2 DEF Reconcile
<1>3. ASSUME NEW u \in Uploaders, NEW i \in Items, AppendChunk(u, i) \/ Finalize(u, i)
      PROVE  UNCHANGED <<boot, doc, job, copies, iw>> /\ guard' \in {guard, u}
  BY <1>3 DEF AppendChunk, Finalize, intakeVars
<1>4. ASSUME NEW u \in Uploaders, StoreFile(u)
      PROVE  /\ UNCHANGED <<boot, job, copies, iw, guard>>
             /\ \/ UNCHANGED doc
                \/ \E d \in Resumable : doc[d].state = "none"
                                        /\ doc' = [doc EXCEPT ![d].state = "queued"]
  BY <1>4 DEF StoreFile
<1>5. ASSUME NEW u \in Uploaders, FinishItem(u)
      PROVE  /\ UNCHANGED <<boot, doc, copies, iw, guard>>
             /\ \E d \in Docs : job' = [job EXCEPT ![d] = IF @ = "none" THEN "queued" ELSE @]
  <2>1. up[u].doc \in Docs
    BY <1>5 DEF FinishItem, Fits
  <2>2. QED BY <1>5, <2>1 DEF FinishItem
<1>6. ASSUME NEW u \in Uploaders,
             RecordChunk(u) \/ RefuseFile(u) \/ CheckItem(u) \/ FinishRefused(u)
               \/ DiscardFile(u) \/ FailRefused(u) \/ AskCancel(u) \/ CancelSession(u)
               \/ DropFile(u)
      PROVE  UNCHANGED <<boot, doc, job, copies, iw>> /\ guard' \in {guard, None}
  BY <1>6 DEF RecordChunk, RefuseFile, CheckItem, FinishRefused, DiscardFile, FailRefused,
     AskCancel, CancelSession, DropFile, intakeVars, sourceVars
<1>7. QED BY <1>1, <1>2, <1>3, <1>4, <1>5, <1>6 DEF UploadStep, Transfer, intakeVars

LEMMA UploadsKeepJobs ==
  ASSUME IntakeTyped, UploadTyped, JobInv, UploadStep
  PROVE  JobInv'
<1> USE DEF IntakeTyped, IntakeTypeOK
<1>1. UNCHANGED <<boot, copies, iw>>
  BY UploadsAdd
<1>2. \A d \in Docs : /\ doc[d].state \notin {"none", "removed"} =>
                           doc'[d].state \notin {"none", "removed"}
                      /\ job[d] # "none" => job'[d] = job[d]
  <2>1. \A d \in Docs : doc[d].state \notin {"none", "removed"} =>
                           doc'[d].state \notin {"none", "removed"}
    <3>1. CASE UNCHANGED doc
      BY <3>1
    <3>2. ASSUME NEW e \in Resumable, doc[e].state = "none", doc' = [doc EXCEPT ![e].state = "queued"]
          PROVE  \A d \in Docs : doc[d].state \notin {"none", "removed"} =>
                           doc'[d].state \notin {"none", "removed"}
      BY <3>2, DocsAssumption
    <3>3. QED BY <3>1, <3>2, UploadsAdd
  <2>2. \A d \in Docs : job[d] # "none" => job'[d] = job[d]
    BY UploadsAdd
  <2>3. QED BY <2>1, <2>2
<1>3. \A d \in Docs : guard' = d => guard = d
  BY UploadsAdd, NoneAssumption, UploadAssumption
<1>4. QED BY <1>1, <1>2, <1>3, DocsAssumption DEF JobInv, StagedCopyIsOwned, Busy, Exists

LEMMA ReviewKeepsJobs ==
  ASSUME IntakeTyped, JobInv, ReviewStep
  PROVE  JobInv'
<1>1. UNCHANGED <<boot, doc, job, copies, iw>>
  BY ReviewLeaves DEF IntakeTyped
<1>2. \A d \in Docs : guard' = d => guard = d
  BY ReviewLeaves, NoneAssumption, ReviewAssumption DEF IntakeTyped
<1>3. QED BY <1>1, <1>2 DEF JobInv, StagedCopyIsOwned, Busy, Exists

LEMMA IntakeKeepsJobs ==
  ASSUME IntakeTyped, JobInv, IntakeStep
  PROVE  JobInv' /\ GuardKept /\ \A e \in Docs : Forward(e)
<1>1. ASSUME ReconcileStaging \/ RecoverJobs PROVE GuardKept
  BY <1>1 DEF ReconcileStaging, RecoverJobs, GuardKept
<1>2. QED BY <1>1, RequestsKeepJobs, IngestKeepsJobs, BootKeepsJobs DEF IntakeStep

LEMMA RunProcessKeepsJobs ==
  ASSUME IntakeTyped, JobInv, StopRun \/ RecoverRuns \/ DownRun
  PROVE  JobInv' /\ \A e \in Docs : Forward(e)
<1>1. CASE StopRun \/ DownRun
  BY <1>1, BootKeepsJobs DEF StopRun, DownRun
<1>2. CASE RecoverRuns
  BY <1>2 DEF RecoverRuns, JobInv, StagedCopyIsOwned, Busy, Exists, Forward
<1>3. QED BY <1>1, <1>2

LEMMA NextKeepsJobs == ASSUME Typed, JobInv, [Next]_vars PROVE JobInv'
<1>1. CASE UNCHANGED vars
  BY <1>1 DEF vars, JobInv, StagedCopyIsOwned, Busy, Exists
<1>2. QED BY <1>1, IntakeKeepsJobs, UploadsKeepJobs, ReviewKeepsJobs, RunProcessKeepsJobs DEF Next, Typed

\* The copy of a source that was staged belongs to a running job, whichever later
\* step failed or crashed, so that a purge of the matter waits for it (_process).
THEOREM CopiesOwned == Spec => []StagedCopyIsOwned
<1>1. Init => Typed /\ JobInv
  BY InitTyped, InitJobInv
<1>2. Typed /\ JobInv /\ [Next]_vars => (Typed /\ JobInv)'
  BY NextTyped, NextKeepsJobs
<1>3. Typed /\ JobInv => StagedCopyIsOwned
  BY DEF JobInv
<1>4. QED BY <1>1, <1>2, <1>3, PTL DEF Spec

-----------------------------------------------------------------------------
(* Uploads                                                                 *)

\* A document that has a name_key arrived by an upload.  Its job is queued by
\* the commit of its item only.
KeysFit ==
    /\ \A d \in Docs : key[d] # None => d \in Resumable /\ doc[d].state # "none"
    /\ \A d \in Resumable : key[d] = None => job[d] = "none"
    /\ \A i \in Items : \A d, e \in Made(i) : d = e
    /\ \A u \in Uploaders : up[u].pc \in {"check", "finish"} => key[up[u].doc] = up[u].item
    /\ \A i \in Items : item[i].state = "queued" =>
          /\ item[i].doc # None /\ key[item[i].doc] = i /\ job[item[i].doc] # "none"

NothingYet == /\ receipt = "none"
              /\ \A i \in Items : item[i].state = "none"
              /\ \A u \in Uploaders : up[u].pc = "idle"
              /\ \A d \in Docs : key[d] = None

\* What a receipt that is held knows of its session, and what is left of one
\* that was discarded.
ReceiptFits ==
    /\ session = "none" => NothingYet
    /\ \A u \in Uploaders : up[u].pc = "record" => guard = u
    /\ \A u \in Uploaders : up[u].pc = "finish" => item[up[u].item].received # 0
    /\ receipt = "held" => \A i \in Items, d \in Docs :
          key[d] = i /\ job[d] # "none" => item[i].version # None
    /\ receipt = "discarded" => \A i \in Items :
          /\ part[i] = 0 /\ item[i].received = 0 /\ item[i].state = "cancelled"
          /\ \A d \in Docs : key[d] = i => job[d] = "none"

UploadInv == KeysFit /\ ReceiptFits

-----------------------------------------------------------------------------
(* Ingestion, reviews and the process                                      *)

\* Whoever else moves documents and jobs moves them forward, and leaves the
\* guard to the thread that appends a chunk.
LEMMA OthersKeepUploads ==
  ASSUME Typed, UploadInv, UNCHANGED <<item, session, receipt, part, key>>,
         up' = up \/ \A u \in Uploaders : up'[u].pc = "idle",
         \A d \in Docs : Forward(d),
         \A u \in Uploaders : up'[u].pc = "record" /\ guard = u => guard' = u
  PROVE  UploadInv'
<1> USE DEF UploadInv
<1>1. \A u \in Uploaders : up'[u].pc # "idle" => up'[u] = up[u]
  OBVIOUS
<1>2. \A d \in Docs : /\ doc[d].state # "none" => doc'[d].state # "none"
                      /\ job[d] # "none" => job'[d] # "none"
                      /\ d \in Resumable /\ job'[d] # "none" => job[d] # "none"
                      /\ d \in Resumable /\ doc'[d].state \notin {"none", "removed"} =>
                           doc[d].state \notin {"none", "removed"}
  BY DEF Forward, Exists
<1>3. ASSUME NEW d \in Docs, key'[d] # None
      PROVE  d \in Resumable /\ doc'[d].state # "none"
  BY <1>2, <1>3 DEF KeysFit
<1>4. ASSUME NEW d \in Resumable, key'[d] = None PROVE job'[d] = "none"
  BY <1>2, <1>4, DocsAssumption DEF KeysFit
<1>5. ASSUME NEW i \in Items, NEW d \in Docs, NEW e \in Docs,
             doc'[d].state \notin {"none", "removed"}, key'[d] = i,
             doc'[e].state \notin {"none", "removed"}, key'[e] = i
      PROVE  d = e
  <2>1. d \in Resumable /\ e \in Resumable
    BY <1>5, UploadAssumption DEF KeysFit
  <2>2. d \in Made(i) /\ e \in Made(i)
    BY <1>2, <1>5, <2>1 DEF Made, Exists
  <2>3. QED BY <2>2 DEF KeysFit
<1>6. \A u \in Uploaders : up'[u].pc \in {"check", "finish"} => key'[up'[u].doc] = up'[u].item
  BY <1>1 DEF KeysFit
<1>7. ASSUME NEW i \in Items, item'[i].state = "queued"
      PROVE  item'[i].doc # None /\ key'[item'[i].doc] = i /\ job'[item'[i].doc] # "none"
  <2>1. item[i].doc \in Docs
    BY <1>7 DEF KeysFit, Typed, UploadTyped, UploadTypeOK, Item
  <2>2. QED BY <1>2, <1>7, <2>1 DEF KeysFit
<1>8. KeysFit'
  BY <1>3, <1>4, <1>5, <1>6, <1>7 DEF KeysFit, Made, Exists
<1>9. session' = "none" => NothingYet'
  BY <1>1 DEF ReceiptFits, NothingYet
<1>10. \A u \in Uploaders : up'[u].pc = "record" => guard' = u
  BY <1>1 DEF ReceiptFits
<1>11. \A u \in Uploaders : up'[u].pc = "finish" => item'[up'[u].item].received # 0
  BY <1>1 DEF ReceiptFits
<1>12. ASSUME NEW i \in Items, NEW d \in Docs, key'[d] = i
       PROVE  d \in Resumable /\ (job'[d] # "none" <=> job[d] # "none")
  BY <1>2, <1>12, UploadAssumption DEF KeysFit
<1>13. ReceiptFits'
  BY <1>9, <1>10, <1>11, <1>12 DEF ReceiptFits
<1>14. QED BY <1>8, <1>13

-----------------------------------------------------------------------------
(* The rows of items and the threads                                       *)

LEMMA ThreadSteps ==
  ASSUME UploadTyped, NEW u \in Uploaders
  PROVE  /\ \A r : Serve(u, r) => up'[u] = r /\ \A v \in Uploaders \ {u} : up'[v] = up[v]
         /\ \A pc : UpGoto(u, pc) => /\ up'[u].pc = pc /\ up'[u].item = up[u].item
                                     /\ up'[u].doc = up[u].doc
                                     /\ \A v \in Uploaders \ {u} : up'[v] = up[v]
<1>1. \A r : Serve(u, r) => up'[u] = r /\ \A v \in Uploaders \ {u} : up'[v] = up[v]
  BY DEF UploadTyped, UploadTypeOK, Serve
<1>2. ASSUME NEW pc, UpGoto(u, pc)
      PROVE  /\ up'[u].pc = pc /\ up'[u].item = up[u].item /\ up'[u].doc = up[u].doc
             /\ \A v \in Uploaders \ {u} : up'[v] = up[v]
  <2>1. up[u] \in Uploader
    BY DEF UploadTyped, UploadTypeOK
  <2>2. /\ [up[u] EXCEPT !.pc = pc].pc = pc /\ [up[u] EXCEPT !.pc = pc].item = up[u].item
        /\ [up[u] EXCEPT !.pc = pc].doc = up[u].doc
    BY <2>1 DEF Uploader
  <2>3. QED BY <1>1, <1>2, <2>2 DEF UpGoto
<1>3. QED BY <1>1, <1>2

LEMMA GrownRow ==
  ASSUME UploadTyped, NEW i \in Items,
         item' = [item EXCEPT ![i].received = part[i], ![i].state = Grown(part[i])]
  PROVE  /\ \A j \in Items : /\ item'[j].doc = item[j].doc
                             /\ item'[j].version = item[j].version
         /\ \A j \in Items \ {i} : item'[j] = item[j]
         /\ item'[i].received = part[i] /\ item'[i].state \in {"uploaded", "uploading"}
<1>1. item[i] \in Item
  BY DEF UploadTyped, UploadTypeOK
<1> DEFINE g == Grown(part[i])
           r == [item[i] EXCEPT !.received = part[i], !.state = g]
<1>2. item' = [item EXCEPT ![i] = r]
  OBVIOUS
<1>3. g \in {"uploaded", "uploading"}
  BY DEF Grown
<1> HIDE DEF g
<1>4. /\ r.doc = item[i].doc /\ r.version = item[i].version /\ r.received = part[i]
      /\ r.state = g
  BY <1>1 DEF Item
<1> HIDE DEF r
<1>5. QED BY <1>2, <1>3, <1>4 DEF UploadTyped, UploadTypeOK

LEMMA FailedRow ==
  ASSUME UploadTyped, NEW i \in Items, FailItem(i)
  PROVE  /\ \A j \in Items : /\ item'[j].doc = item[j].doc
                             /\ item'[j].version = item[j].version
                             /\ item'[j].received = item[j].received
         /\ \A j \in Items \ {i} : item'[j] = item[j]
         /\ item'[i].state = item[i].state \/ (item[i].state # "cancelled" /\ item'[i].state = "failed")
         /\ session' \in {"open", "partial"}
<1>1. item[i] \in Item
  BY DEF UploadTyped, UploadTypeOK
<1> DEFINE r == FailedItem(item[i])
<1>2. item' = [item EXCEPT ![i] = r]
  BY DEF FailItem
<1>3. /\ r.doc = item[i].doc /\ r.version = item[i].version /\ r.received = item[i].received
      /\ r.state = item[i].state \/ (item[i].state # "cancelled" /\ r.state = "failed")
  BY <1>1 DEF FailedItem, Item
<1>4. session' \in {"open", "partial"}
  BY DEF FailItem, SessionOf
<1> HIDE DEF r
<1>5. QED BY <1>2, <1>3, <1>4 DEF UploadTyped, UploadTypeOK

LEMMA SessionRows ==
  ASSUME UploadTyped, NEW j \in Items
  PROVE  /\ CreateSession => /\ item'[j].doc = item[j].doc /\ item'[j].version = item[j].version
                             /\ item'[j].received = item[j].received
                             /\ item'[j].state = "pending"
         /\ DiscardReceipt => /\ item'[j].doc = item[j].doc
                              /\ item'[j].received = item[j].received
                              /\ item'[j].state = "cancelled"
         /\ \A u \in Uploaders : CancelSession(u) =>
              /\ item'[j].doc = item[j].doc /\ item'[j].version = item[j].version
              /\ item'[j].received = item[j].received
              /\ item'[j].state = "cancelled" \/ (item[j].state = "queued" /\ item'[j] = item[j])
<1>1. item[j] \in Item
  BY DEF UploadTyped, UploadTypeOK
<1>2. \A s \in {"pending", "cancelled"} :
        LET r == [item[j] EXCEPT !.state = s]
        IN  /\ r.state = s /\ r.doc = item[j].doc /\ r.version = item[j].version
            /\ r.received = item[j].received
  BY <1>1 DEF Item
<1>3. LET r == [item[j] EXCEPT !.state = "cancelled", !.version = None]
      IN  r.state = "cancelled" /\ r.doc = item[j].doc /\ r.received = item[j].received
  BY <1>1 DEF Item
<1>4. CreateSession => item'[j] = [item[j] EXCEPT !.state = "pending"]
  BY DEF CreateSession
<1>5. DiscardReceipt => item'[j] = [item[j] EXCEPT !.state = "cancelled", !.version = None]
  BY DEF DiscardReceipt
<1>6. ASSUME NEW u \in Uploaders, CancelSession(u)
      PROVE  \/ item'[j] = [item[j] EXCEPT !.state = "cancelled"]
             \/ item[j].state = "queued" /\ item'[j] = item[j]
  BY <1>6 DEF CancelSession
<1>7. CreateSession => /\ item'[j].doc = item[j].doc /\ item'[j].version = item[j].version
                       /\ item'[j].received = item[j].received
                       /\ item'[j].state = "pending"
  BY <1>2, <1>4
<1>8. DiscardReceipt => /\ item'[j].doc = item[j].doc
                        /\ item'[j].received = item[j].received
                        /\ item'[j].state = "cancelled"
  BY <1>3, <1>5
<1>9. ASSUME NEW u \in Uploaders, CancelSession(u)
      PROVE  /\ item'[j].doc = item[j].doc /\ item'[j].version = item[j].version
             /\ item'[j].received = item[j].received
             /\ item'[j].state = "cancelled" \/ (item[j].state = "queued" /\ item'[j] = item[j])
  BY <1>2, <1>6, <1>9
<1>10. QED BY <1>7, <1>8, <1>9

LEMMA CommittedRow ==
  ASSUME UploadTyped, NEW u \in Uploaders, FinishItem(u)
  PROVE  LET i == up[u].item
             d == up[u].doc
         IN  /\ i \in Items /\ d \in Docs
             /\ \A j \in Items : item'[j].received = item[j].received
             /\ \A j \in Items \ {i} : item'[j] = item[j]
             /\ receipt = "held" => item'[i].version = d
             /\ \/ item[i].state = "uploaded" /\ item'[i].state = "queued" /\ item'[i].doc = d
                \/ item'[i].state = item[i].state /\ item'[i].doc = item[i].doc
             /\ session' \in {"open", "partial", "complete"}
<1> DEFINE i == up[u].item
           d == up[u].doc
           v == IF receipt = "held" THEN d ELSE None
           s == IF item[i].state = "uploaded" THEN "queued" ELSE item[i].state
           e == IF item[i].state = "uploaded" THEN d ELSE item[i].doc
           r == [item[i] EXCEPT !.version = v, !.state = s, !.doc = e]
<1>1. i \in Items /\ d \in Docs
  BY DEF FinishItem, UploadTyped, Fits
<1>2. item[i] \in Item
  BY <1>1 DEF UploadTyped, UploadTypeOK
<1>3. item' = [item EXCEPT ![i] = r]
  BY <1>1 DEF FinishItem
<1> HIDE DEF v, s, e
<1>4. r.received = item[i].received /\ r.version = v /\ r.state = s /\ r.doc = e
  BY <1>2 DEF Item
<1> HIDE DEF r, i, d
<1>5. /\ \A j \in Items : item'[j].received = item[j].received
      /\ \A j \in Items \ {i} : item'[j] = item[j]
      /\ item'[i] = r
  BY <1>1, <1>3, <1>4 DEF UploadTyped, UploadTypeOK
<1>6. session' \in {"open", "partial", "complete"}
  BY SessionTyped DEF FinishItem
<1>7. QED BY <1>1, <1>4, <1>5, <1>6 DEF v, s, e, i, d

\* The steps that lead a thread to an append, to a commit and before a commit.
LEMMA NextPc ==
  ASSUME UploadTyped, NEW u \in Uploaders, Transfer(u)
  PROVE  /\ \A v \in Uploaders \ {u} : up'[v] = up[v]
         /\ up'[u].pc = "record" => \E i \in Items : AppendChunk(u, i)
         /\ up'[u].pc = "check" => StoreFile(u)
         /\ up'[u].pc = "finish" =>
              CheckItem(u) /\ up'[u].doc = up[u].doc /\ up'[u].item = up[u].item
<1>1. up[u] \in Uploader
  BY DEF UploadTyped, UploadTypeOK
<1>2. ASSUME NEW i \in Items, AppendChunk(u, i)
      PROVE  up'[u].pc = "record" /\ \A v \in Uploaders \ {u} : up'[v] = up[v]
  <2>1. Serve(u, [Serving EXCEPT !.pc = "record", !.item = i])
    BY <1>2 DEF AppendChunk
  <2>2. [Serving EXCEPT !.pc = "record", !.item = i].pc = "record"
    BY DEF Serving
  <2>3. QED BY <2>1, <2>2, ThreadSteps
<1>3. ASSUME NEW i \in Items, Finalize(u, i)
      PROVE  up'[u].pc = "store" /\ \A v \in Uploaders \ {u} : up'[v] = up[v]
  <2>1. Serve(u, [Serving EXCEPT !.pc = "store", !.item = i])
    BY <1>3 DEF Finalize
  <2>2. [Serving EXCEPT !.pc = "store", !.item = i].pc = "store"
    BY DEF Serving
  <2>3. QED BY <2>1, <2>2, ThreadSteps
<1>4. ASSUME RecordChunk(u) \/ RefuseFile(u) \/ FinishItem(u) \/ FinishRefused(u)
               \/ DiscardFile(u) \/ FailRefused(u) \/ AskCancel(u)
      PROVE  /\ up'[u].pc \in {"idle", "refused", "discard", "fail", "cancel"}
             /\ \A v \in Uploaders \ {u} : up'[v] = up[v]
  <2>1. \/ Serve(u, Serving) \/ Serve(u, [Serving EXCEPT !.pc = "cancel"])
        \/ \E pc \in {"refused", "discard", "fail"} : UpGoto(u, pc)
    BY <1>4 DEF RecordChunk, RefuseFile, FinishItem, FinishRefused, DiscardFile, FailRefused,
       AskCancel
  <2>2. Serving.pc = "idle" /\ [Serving EXCEPT !.pc = "cancel"].pc = "cancel"
    BY DEF Serving
  <2>3. QED BY <2>1, <2>2, ThreadSteps
<1>5. ASSUME CheckItem(u)
      PROVE  /\ \/ up'[u].pc \in {"idle", "discard"}
                \/ up'[u].pc = "finish" /\ up'[u].doc = up[u].doc /\ up'[u].item = up[u].item
             /\ \A v \in Uploaders \ {u} : up'[v] = up[v]
  BY <1>5, ThreadSteps DEF CheckItem, Serving
<1>6. ASSUME StoreFile(u)
      PROVE  up'[u].pc = "check" /\ \A v \in Uploaders \ {u} : up'[v] = up[v]
  <2>1. PICK d \in Resumable : Serve(u, [up[u] EXCEPT !.pc = "check", !.doc = d])
    BY <1>6 DEF StoreFile
  <2>2. [up[u] EXCEPT !.pc = "check", !.doc = d].pc = "check"
    BY <1>1 DEF Uploader
  <2>3. QED BY <2>1, <2>2, ThreadSteps
<1>7. ASSUME CancelSession(u)
      PROVE  up'[u].pc = "drop" /\ \A v \in Uploaders \ {u} : up'[v] = up[v]
  <2> DEFINE T == {i \in Items : item'[i].state = "cancelled"}
  <2>1. Serve(u, [up[u] EXCEPT !.pc = "drop", !.todo = T])
    BY <1>7 DEF CancelSession
  <2> HIDE DEF T
  <2>2. [up[u] EXCEPT !.pc = "drop", !.todo = T].pc = "drop"
    BY <1>1 DEF Uploader
  <2>3. QED BY <2>1, <2>2, ThreadSteps
<1>8. ASSUME DropFile(u)
      PROVE  up'[u].pc \in {"drop", "idle"} /\ \A v \in Uploaders \ {u} : up'[v] = up[v]
  <2>1. CASE Serve(u, Serving)
    BY <2>1, ThreadSteps DEF Serving
  <2>2. ASSUME NEW i \in up[u].todo, Serve(u, [up[u] EXCEPT !.todo = @ \ {i}])
        PROVE  up'[u].pc \in {"drop", "idle"} /\ \A v \in Uploaders \ {u} : up'[v] = up[v]
    <3> DEFINE T == up[u].todo \ {i}
    <3>1. Serve(u, [up[u] EXCEPT !.todo = T])
      BY <2>2
    <3> HIDE DEF T
    <3>2. [up[u] EXCEPT !.todo = T].pc = up[u].pc
      BY <1>1 DEF Uploader
    <3>3. QED BY <1>8, <3>1, <3>2, ThreadSteps DEF DropFile
  <2>3. QED BY <1>8, <2>1, <2>2 DEF DropFile
<1>9. QED BY <1>2, <1>3, <1>4, <1>5, <1>6, <1>7, <1>8 DEF Transfer

LEMMA ThreadsAdvance ==
  ASSUME UploadTyped, UploadStep, NEW v \in Uploaders
  PROVE  /\ up'[v].pc = "record" => up'[v] = up[v] \/ \E i \in Items : AppendChunk(v, i)
         /\ up'[v].pc = "check" => up'[v] = up[v] \/ StoreFile(v)
         /\ up'[v].pc = "finish" =>
              \/ up'[v] = up[v]
              \/ CheckItem(v) /\ up'[v].doc = up[v].doc /\ up'[v].item = up[v].item
<1>1. CASE CreateSession \/ DiscardReceipt \/ \E i \in Items : Reconcile(i)
  BY <1>1 DEF CreateSession, DiscardReceipt, Reconcile
<1>2. ASSUME NEW u \in Uploaders, Transfer(u)
      PROVE  /\ up'[v].pc = "record" => up'[v] = up[v] \/ \E i \in Items : AppendChunk(v, i)
             /\ up'[v].pc = "check" => up'[v] = up[v] \/ StoreFile(v)
             /\ up'[v].pc = "finish" =>
                  \/ up'[v] = up[v]
                  \/ CheckItem(v) /\ up'[v].doc = up[v].doc /\ up'[v].item = up[v].item
  BY <1>2, NextPc
<1>3. QED BY <1>1, <1>2 DEF UploadStep

\* What a step may do to the rows of items.
Grows(i) == /\ item' = [item EXCEPT ![i].received = part[i], ![i].state = Grown(part[i])]
            /\ part[i] # 0 /\ item[i].state \in Open

LEMMA RowSteps ==
  ASSUME UploadTyped, UploadStep
  PROVE  \/ UNCHANGED item
         \/ \E i \in Items : Grows(i) \/ FailItem(i)
         \/ CreateSession \/ DiscardReceipt
         \/ \E u \in Uploaders : CancelSession(u) \/ FinishItem(u)
<1>1. ASSUME NEW i \in Items PROVE item[i].received \in Nat /\ part[i] \in Nat
  BY UploadAssumption DEF UploadTyped, UploadTypeOK, Item
<1>2. ASSUME NEW i \in Items, Reconcile(i) PROVE Grows(i) \/ FailItem(i)
  BY <1>1, <1>2 DEF Reconcile, Grows
<1>3. ASSUME NEW u \in Uploaders, NEW i \in Items, AppendChunk(u, i)
      PROVE  UNCHANGED item \/ Grows(i)
  BY <1>1, <1>3 DEF AppendChunk, Grows, Open
<1>4. ASSUME NEW u \in Uploaders, RecordChunk(u)
      PROVE  UNCHANGED item \/ \E i \in Items : Grows(i)
  <2>1. up[u].item \in Items
    BY <1>4 DEF RecordChunk, UploadTyped, Fits
  <2>2. UNCHANGED item \/ Grows(up[u].item)
    BY <1>1, <1>4, <2>1 DEF RecordChunk, Grows
  <2>3. QED BY <2>1, <2>2
<1>5. ASSUME NEW u \in Uploaders, FailRefused(u) PROVE \E i \in Items : FailItem(i)
  BY <1>5 DEF FailRefused, UploadTyped, Fits
<1>6. ASSUME NEW u \in Uploaders,
             (\E i \in Items : Finalize(u, i)) \/ RefuseFile(u) \/ StoreFile(u) \/ CheckItem(u)
               \/ FinishRefused(u) \/ DiscardFile(u) \/ AskCancel(u) \/ DropFile(u)
      PROVE  UNCHANGED item
  BY <1>6 DEF Finalize, RefuseFile, StoreFile, CheckItem, FinishRefused, DiscardFile, AskCancel,
     DropFile
<1>7. QED BY <1>2, <1>3, <1>4, <1>5, <1>6 DEF UploadStep, Transfer

LEMMA RowsAdvance ==
  ASSUME UploadTyped, UploadStep, NEW j \in Items
  PROVE  /\ item[j].received # 0 => item'[j].received # 0
         /\ (\A u \in Uploaders : ~FinishItem(u)) =>
              /\ item'[j].state = "queued" => item[j].state = "queued"
              /\ item'[j].doc = item[j].doc
              /\ ~DiscardReceipt => item'[j].version = item[j].version
<1>1. CASE UNCHANGED item
  BY <1>1
<1>2. ASSUME NEW i \in Items, Grows(i)
      PROVE  /\ item[j].received # 0 => item'[j].received # 0
             /\ item'[j].state = "queued" => item[j].state = "queued"
             /\ item'[j].doc = item[j].doc /\ item'[j].version = item[j].version
  BY <1>2, GrownRow DEF Grows
<1>3. ASSUME NEW i \in Items, FailItem(i)
      PROVE  /\ item[j].received # 0 => item'[j].received # 0
             /\ item'[j].state = "queued" => item[j].state = "queued"
             /\ item'[j].doc = item[j].doc /\ item'[j].version = item[j].version
  BY <1>3, FailedRow
<1>4. CASE CreateSession \/ DiscardReceipt \/ \E u \in Uploaders : CancelSession(u)
  BY <1>4, SessionRows
<1>5. ASSUME NEW u \in Uploaders, FinishItem(u) PROVE item'[j].received = item[j].received
  BY <1>5, CommittedRow
<1>6. QED BY <1>1, <1>2, <1>3, <1>4, <1>5, RowSteps

-----------------------------------------------------------------------------
(* One source for each item                                                *)

\* A step that neither makes a document nor commits an item.
Plain == /\ UNCHANGED <<doc, job, key>>
         /\ \A i \in Items : item'[i].state = "queued" =>
              item[i].state = "queued" /\ item'[i].doc = item[i].doc
         /\ \A v \in Uploaders : up'[v].pc \in {"check", "finish"} =>
              /\ up[v].pc \in {"check", "finish"}
              /\ up'[v].doc = up[v].doc /\ up'[v].item = up[v].item

LEMMA PlainKeepsKeys == ASSUME UploadTyped, KeysFit, Plain PROVE KeysFit'
<1>1. /\ \A d \in Docs : key'[d] # None => d \in Resumable /\ doc'[d].state # "none"
      /\ \A d \in Resumable : key'[d] = None => job'[d] = "none"
      /\ \A i \in Items : Made(i)' = Made(i)
  BY DEF Plain, KeysFit, Made, Exists
<1>2. \A u \in Uploaders : up'[u].pc \in {"check", "finish"} => key'[up'[u].doc] = up'[u].item
  BY DEF Plain, KeysFit
<1>3. \A i \in Items : item'[i].state = "queued" =>
          /\ item'[i].doc # None /\ key'[item'[i].doc] = i /\ job'[item'[i].doc] # "none"
  BY DEF Plain, KeysFit
<1>4. \A i \in Items : \A d, e \in Made(i)' : d = e
  BY <1>1 DEF KeysFit
<1>5. QED BY <1>1, <1>2, <1>3, <1>4 DEF KeysFit

LEMMA StepsArePlain ==
  ASSUME UploadTyped, UploadStep,
         \A u \in Uploaders : ~StoreFile(u) /\ ~FinishItem(u)
  PROVE  Plain
<1>1. UNCHANGED <<doc, job, key>>
  BY DEF UploadStep, Transfer, CreateSession, DiscardReceipt, Reconcile, AppendChunk, Finalize,
     RecordChunk, RefuseFile, CheckItem, FinishRefused, DiscardFile, FailRefused, AskCancel,
     CancelSession, DropFile, sourceVars, intakeVars
<1>2. \A i \in Items : item'[i].state = "queued" =>
        item[i].state = "queued" /\ item'[i].doc = item[i].doc
  BY RowsAdvance
<1>3. \A v \in Uploaders : up'[v].pc \in {"check", "finish"} =>
        /\ up[v].pc \in {"check", "finish"}
        /\ up'[v].doc = up[v].doc /\ up'[v].item = up[v].item
  BY ThreadsAdvance DEF CheckItem
<1>4. QED BY <1>1, <1>2, <1>3 DEF Plain

LEMMA StoreKeepsKeys ==
  ASSUME Typed, KeysFit, NEW u \in Uploaders, StoreFile(u)
  PROVE  KeysFit'
<1> DEFINE i == up[u].item
<1>1. i \in Items /\ i # None /\ up[u] \in Uploader
  BY UploadAssumption DEF StoreFile, Typed, UploadTyped, UploadTypeOK, Fits
<1>2. UNCHANGED <<job, item>>
  BY DEF StoreFile
<1>3. PICK d \in Resumable :
        /\ \/ d \in Found(i) /\ UNCHANGED <<doc, key>>
           \/ /\ Found(i) = {} /\ doc[d].state = "none"
              /\ doc' = [doc EXCEPT ![d].state = "queued"] /\ key' = [key EXCEPT ![d] = i]
        /\ Serve(u, [up[u] EXCEPT !.pc = "check", !.doc = d])
  BY DEF StoreFile
<1>4. d \in Docs
  BY DocsAssumption
<1>5. /\ up'[u].doc = d /\ up'[u].item = i
      /\ \A v \in Uploaders \ {u} : up'[v] = up[v]
  <2>1. /\ up'[u] = [up[u] EXCEPT !.pc = "check", !.doc = d]
        /\ \A v \in Uploaders \ {u} : up'[v] = up[v]
    BY <1>3, ThreadSteps DEF Typed
  <2>2. QED BY <1>1, <2>1 DEF Uploader
<1>6. CASE d \in Found(i) /\ UNCHANGED <<doc, key>>
  <2>1. key[d] = i
    BY <1>6 DEF Found, Made
  <2>2. \A v \in Uploaders : up'[v].pc \in {"check", "finish"} => key'[up'[v].doc] = up'[v].item
    BY <1>5, <1>6, <2>1 DEF KeysFit
  <2>3. \A j \in Items : Made(j)' = Made(j)
    BY <1>6 DEF Made, Exists
  <2>4. QED BY <1>2, <1>6, <2>2, <2>3 DEF KeysFit
<1>7. CASE /\ Found(i) = {} /\ doc[d].state = "none"
           /\ doc' = [doc EXCEPT ![d].state = "queued"] /\ key' = [key EXCEPT ![d] = i]
  <2>1. key[d] = None /\ job[d] = "none"
    BY <1>4, <1>7 DEF KeysFit
  <2>2. key'[d] = i /\ \A e \in Docs \ {d} : key'[e] = key[e] /\ doc'[e] = doc[e]
    BY <1>4, <1>7 DEF Typed, IntakeTyped, IntakeTypeOK, UploadTyped, UploadTypeOK
  <2>3. doc'[d].state = "queued"
    <3>1. doc[d] \in Doc
      BY <1>4 DEF Typed, IntakeTyped, IntakeTypeOK
    <3>2. QED BY <1>4, <1>7, <3>1 DEF Typed, IntakeTyped, IntakeTypeOK, Doc
  <2>4. \A e \in Docs : key'[e] # None => e \in Resumable /\ doc'[e].state # "none"
    BY <2>2, <2>3 DEF KeysFit
  <2>5. \A e \in Resumable : key'[e] = None => job'[e] = "none"
    BY <1>1, <1>2, <2>2, DocsAssumption DEF KeysFit
  <2>6. ASSUME NEW j \in Items, NEW e \in Docs, NEW f \in Docs,
               doc'[e].state \notin {"none", "removed"}, key'[e] = j,
               doc'[f].state \notin {"none", "removed"}, key'[f] = j
        PROVE  e = f
    <3>1. CASE j = i
      <4>1. \A x \in Docs \ {d} : ~(doc[x].state \notin {"none", "removed"} /\ key[x] = i)
        BY <1>7 DEF Found, Made, Exists
      <4>2. QED BY <2>2, <2>6, <3>1, <4>1
    <3>2. CASE j # i
      <4>1. e # d /\ f # d
        BY <2>2, <2>6, <3>2
      <4>2. e \in Made(j) /\ f \in Made(j)
        BY <2>2, <2>6, <4>1 DEF Made, Exists
      <4>3. QED BY <4>2 DEF KeysFit
    <3>3. QED BY <3>1, <3>2
  <2>7. ASSUME NEW v \in Uploaders, up'[v].pc \in {"check", "finish"}
        PROVE  key'[up'[v].doc] = up'[v].item
    <3>1. CASE v = u
      BY <1>5, <2>2, <3>1
    <3>2. CASE v # u
      <4>1. /\ up'[v] = up[v] /\ key[up[v].doc] = up[v].item
            /\ up[v].doc \in Docs /\ up[v].item \in Items
        BY <1>5, <2>7, <3>2 DEF KeysFit, Typed, UploadTyped, Fits
      <4>2. up[v].doc # d
        BY <2>1, <4>1, UploadAssumption
      <4>3. QED BY <2>2, <4>1, <4>2
    <3>3. QED BY <3>1, <3>2
  <2>8. ASSUME NEW j \in Items, item'[j].state = "queued"
        PROVE  item'[j].doc # None /\ key'[item'[j].doc] = j /\ job'[item'[j].doc] # "none"
    <3>1. /\ item[j].doc # None /\ key[item[j].doc] = j /\ job[item[j].doc] # "none"
          /\ item[j].doc \in Docs
      BY <1>2, <2>8 DEF KeysFit, Typed, UploadTyped, UploadTypeOK, Item
    <3>2. item[j].doc # d
      BY <2>1, <3>1
    <3>3. QED BY <1>2, <2>2, <3>1, <3>2
  <2>9. QED BY <2>4, <2>5, <2>6, <2>7, <2>8 DEF KeysFit, Made, Exists
<1>8. QED BY <1>3, <1>6, <1>7

LEMMA CommitKeepsKeys ==
  ASSUME Typed, KeysFit, NEW u \in Uploaders, FinishItem(u)
  PROVE  KeysFit'
<1> DEFINE i == up[u].item
           d == up[u].doc
<1>1. /\ i \in Items /\ d \in Docs /\ key[d] = i /\ i # None
  BY CommittedRow, UploadAssumption DEF Typed, KeysFit, FinishItem
<1>2. UNCHANGED <<doc, key>>
  BY DEF FinishItem
<1>3. /\ job'[d] # "none"
      /\ \A e \in Docs : job[e] # "none" => job'[e] # "none"
      /\ \A e \in Docs \ {d} : job'[e] = job[e]
  BY <1>1 DEF FinishItem, Typed, IntakeTyped, IntakeTypeOK
<1>4. \A v \in Uploaders : up'[v].pc \in {"check", "finish"} => v # u /\ up'[v] = up[v]
  BY ThreadSteps DEF FinishItem, Typed
<1>5. /\ \A j \in Items \ {i} : item'[j] = item[j]
      /\ \/ item'[i].doc = d
         \/ item'[i].state = item[i].state /\ item'[i].doc = item[i].doc
  BY CommittedRow DEF Typed
<1>6. ASSUME NEW j \in Items, item'[j].state = "queued"
      PROVE  item'[j].doc # None /\ key'[item'[j].doc] = j /\ job'[item'[j].doc] # "none"
  <2>1. CASE j = i /\ item'[j].doc = d
    BY <1>1, <1>2, <1>3, <2>1, NoneAssumption
  <2>2. CASE item'[j].state = item[j].state /\ item'[j].doc = item[j].doc
    <3>1. /\ item[j].doc # None /\ key[item[j].doc] = j /\ job[item[j].doc] # "none"
          /\ item[j].doc \in Docs
      BY <1>6, <2>2 DEF KeysFit, Typed, UploadTyped, UploadTypeOK, Item
    <3>2. QED BY <1>2, <1>3, <2>2, <3>1
  <2>3. QED BY <1>5, <2>1, <2>2
<1>7. /\ \A e \in Docs : key'[e] # None => e \in Resumable /\ doc'[e].state # "none"
      /\ \A j \in Items : Made(j)' = Made(j)
  BY <1>2 DEF KeysFit, Made, Exists
<1>8. \A e \in Resumable : key'[e] = None => job'[e] = "none"
  BY <1>1, <1>2, <1>3, DocsAssumption DEF KeysFit
<1>9. \A v \in Uploaders : up'[v].pc \in {"check", "finish"} => key'[up'[v].doc] = up'[v].item
  BY <1>2, <1>4 DEF KeysFit
<1>10. QED BY <1>6, <1>7, <1>8, <1>9 DEF KeysFit

LEMMA UploadsKeepKeys == ASSUME Typed, KeysFit, UploadStep PROVE KeysFit'
<1>1. CASE \E u \in Uploaders : StoreFile(u) \/ FinishItem(u)
  BY <1>1, StoreKeepsKeys, CommitKeepsKeys
<1>2. CASE ~\E u \in Uploaders : StoreFile(u) \/ FinishItem(u)
  BY <1>2, StepsArePlain, PlainKeepsKeys DEF Typed
<1>3. QED BY <1>1, <1>2

-----------------------------------------------------------------------------
(* The receipt                                                             *)

LEMMA SessionGoesOn ==
  ASSUME UploadTyped, ReceiptFits, UploadStep
  PROVE  /\ session' # "none"
         /\ receipt' = receipt \/ CreateSession \/ DiscardReceipt
         /\ \A j \in Items : part'[j] \in {part[j], 0} \/ \E u \in Uploaders : AppendChunk(u, j)
<1>1. CASE CreateSession \/ DiscardReceipt
  BY <1>1 DEF CreateSession, DiscardReceipt
<1>2. ASSUME NEW i \in Items, Reconcile(i) PROVE session # "none" /\ UNCHANGED <<receipt, part>>
  BY <1>2 DEF Reconcile, ReceiptFits, NothingYet, Open
<1>3. ASSUME NEW i \in Items, Reconcile(i) PROVE session' # "none"
  BY <1>2, <1>3, FailedRow DEF Reconcile
<1>4. ASSUME NEW u \in Uploaders, Transfer(u) PROVE session # "none"
  <2>1. up[u].pc # "idle" \/ Arrives(u)
    BY <1>4 DEF Transfer, AppendChunk, Finalize, RecordChunk, RefuseFile, StoreFile, CheckItem,
       FinishItem, FinishRefused, DiscardFile, FailRefused, AskCancel, CancelSession, DropFile
  <2>2. QED BY <2>1 DEF Arrives, ReceiptFits, NothingYet
<1>5. ASSUME NEW u \in Uploaders, Transfer(u) PROVE session' # "none" /\ receipt' = receipt
  <2>1. CASE FinishItem(u)
    BY <2>1, CommittedRow DEF FinishItem
  <2>2. CASE FailRefused(u)
    BY <2>2, FailedRow DEF FailRefused, UploadTyped, Fits
  <2>3. CASE CancelSession(u)
    BY <2>3 DEF CancelSession
  <2>4. CASE ~FinishItem(u) /\ ~FailRefused(u) /\ ~CancelSession(u)
    BY <1>4, <1>5, <2>4 DEF Transfer, AppendChunk, Finalize, RecordChunk, RefuseFile, StoreFile,
       CheckItem, FinishRefused, DiscardFile, AskCancel, DropFile
  <2>5. QED BY <2>1, <2>2, <2>3, <2>4
<1>6. ASSUME NEW u \in Uploaders, Transfer(u), NEW j \in Items
      PROVE  part'[j] \in {part[j], 0} \/ AppendChunk(u, j)
  <2>1. ASSUME NEW i \in Items, AppendChunk(u, i)
        PROVE  part'[j] \in {part[j], 0} \/ AppendChunk(u, j)
    <3>1. CASE i = j
      BY <2>1, <3>1
    <3>2. CASE i # j
      BY <2>1, <3>2 DEF AppendChunk
    <3>3. QED BY <3>1, <3>2
  <2>2. CASE DiscardFile(u) \/ DropFile(u)
    BY <2>2 DEF DiscardFile, DropFile, UploadTyped, UploadTypeOK
  <2>3. CASE /\ \A i \in Items : ~AppendChunk(u, i)
             /\ ~DiscardFile(u) /\ ~DropFile(u)
    BY <1>6, <2>3 DEF Transfer, Finalize, RecordChunk, RefuseFile, StoreFile, CheckItem,
       FinishItem, FinishRefused, FailRefused, AskCancel, CancelSession
  <2>4. QED BY <2>1, <2>2, <2>3
<1>7. CASE CreateSession \/ DiscardReceipt
  BY <1>7 DEF CreateSession, DiscardReceipt
<1>8. QED BY <1>1, <1>2, <1>3, <1>5, <1>6, <1>7 DEF UploadStep

LEMMA AppendersHoldGuard ==
  ASSUME Typed, UploadInv, UploadStep, NEW v \in Uploaders, up'[v].pc = "record"
  PROVE  guard' = v
<1>1. v # None /\ v \in Holders
  BY UploadAssumption, NoneAssumption
<1>2. ASSUME NEW i \in Items, AppendChunk(v, i) PROVE guard' = v
  BY <1>2 DEF AppendChunk
<1>3. CASE up'[v] = up[v]
  <2>1. guard = v
    BY <1>3 DEF UploadInv, ReceiptFits
  <2>2. ASSUME NEW u \in Uploaders, RecordChunk(u) PROVE FALSE
    <3>1. u = v
      BY <2>1, <2>2 DEF RecordChunk, UploadInv, ReceiptFits
    <3>2. up'[v].pc = "idle"
      BY <2>2, <3>1, ThreadSteps DEF RecordChunk, Serving, Typed
    <3>3. QED BY <3>2
  <2>3. ASSUME NEW u \in Uploaders, NEW i \in Items, AppendChunk(u, i) PROVE FALSE
    BY <1>1, <2>1, <2>3 DEF AppendChunk
  <2>4. guard' = guard
    BY <2>2, <2>3 DEF UploadStep, Transfer, CreateSession, DiscardReceipt, Reconcile, Finalize,
       RefuseFile, StoreFile, CheckItem, FinishItem, FinishRefused, DiscardFile, FailRefused,
       AskCancel, CancelSession, DropFile, sourceVars, intakeVars
  <2>5. QED BY <2>1, <2>4
<1>4. QED BY <1>2, <1>3, ThreadsAdvance DEF Typed

LEMMA HeldReceipt ==
  ASSUME Typed, UploadInv, UploadStep, receipt' = "held",
         NEW i \in Items, NEW d \in Docs, key'[d] = i, job'[d] # "none"
  PROVE  item'[i].version # None
<1> USE DEF UploadInv
<1>1. ~DiscardReceipt /\ i # None
  BY UploadAssumption DEF DiscardReceipt
<1>2. ~CreateSession
  BY <1>1 DEF CreateSession, ReceiptFits, NothingYet
<1>3. receipt = "held"
  BY <1>1, <1>2, SessionGoesOn DEF Typed
<1>4. ASSUME NEW u \in Uploaders, FinishItem(u) PROVE item'[i].version # None
  <2>1. /\ up[u].item \in Items /\ up[u].doc \in Docs /\ key[up[u].doc] = up[u].item
        /\ item'[up[u].item].version = up[u].doc
        /\ \A j \in Items \ {up[u].item} : item'[j] = item[j]
    BY <1>3, <1>4, CommittedRow DEF Typed, KeysFit, FinishItem
  <2>2. CASE i = up[u].item
    BY <2>1, <2>2, NoneAssumption
  <2>3. CASE i # up[u].item
    <3>1. key[d] = i /\ d # up[u].doc /\ job'[d] = job[d]
      BY <1>4, <2>1, <2>3 DEF FinishItem, Typed, IntakeTyped, IntakeTypeOK
    <3>2. QED BY <1>3, <2>1, <2>3, <3>1 DEF ReceiptFits
  <2>4. QED BY <2>2, <2>3
<1>5. ASSUME NEW u \in Uploaders, StoreFile(u) PROVE item'[i].version # None
  <2>1. UNCHANGED <<job, item>>
    BY <1>5 DEF StoreFile
  <2>2. PICK e \in Resumable :
          \/ UNCHANGED key
          \/ doc[e].state = "none" /\ key' = [key EXCEPT ![e] = up[u].item]
    BY <1>5 DEF StoreFile
  <2>3. key[d] = i
    <3>1. CASE e = d /\ doc[e].state = "none"
      BY <2>1, <3>1 DEF KeysFit
    <3>2. CASE e # d \/ UNCHANGED key
      BY <2>2, <3>2 DEF Typed, UploadTyped, UploadTypeOK
    <3>3. QED BY <2>2, <3>1, <3>2
  <2>4. QED BY <1>3, <2>1, <2>3 DEF ReceiptFits
<1>6. CASE \A u \in Uploaders : ~StoreFile(u) /\ ~FinishItem(u)
  <2>1. Plain
    BY <1>6, StepsArePlain DEF Typed
  <2>2. item'[i].version = item[i].version
    BY <1>1, <1>6, RowsAdvance DEF Typed
  <2>3. QED BY <1>3, <2>1, <2>2 DEF Plain, ReceiptFits
<1>7. QED BY <1>4, <1>5, <1>6

LEMMA DiscardedReceipt ==
  ASSUME Typed, UploadInv, UploadStep, receipt' = "discarded", NEW i \in Items
  PROVE  /\ part'[i] = 0 /\ item'[i].received = 0 /\ item'[i].state = "cancelled"
         /\ \A d \in Docs : key'[d] = i => job'[d] = "none"
<1> USE DEF UploadInv
<1>1. CASE DiscardReceipt
  <2>1. part'[i] = 0 /\ item'[i].received = item[i].received /\ item'[i].state = "cancelled"
    BY <1>1, SessionRows DEF DiscardReceipt, Typed
  <2>2. item[i].received = 0 /\ item[i].version = None /\ receipt = "held"
    BY <1>1 DEF DiscardReceipt, Received
  <2>3. \A d \in Docs : key'[d] = i => job'[d] = "none"
    BY <1>1, <2>2 DEF DiscardReceipt, intakeVars, ReceiptFits
  <2>4. QED BY <2>1, <2>2, <2>3
<1>2. CASE ~DiscardReceipt
  <2>1. ~CreateSession
    BY DEF CreateSession
  <2>2. receipt = "discarded"
    BY <1>2, <2>1, SessionGoesOn DEF Typed
  <2>3. \A j \in Items : /\ part[j] = 0 /\ item[j].received = 0 /\ item[j].state = "cancelled"
                         /\ \A d \in Docs : key[d] = j => job[d] = "none"
    BY <2>2 DEF ReceiptFits
  <2>4. ASSUME NEW u \in Uploaders PROVE ~FinishItem(u) /\ ~StoreFile(u)
    <3>1. ~FinishItem(u)
      BY <2>3 DEF FinishItem, ReceiptFits, Typed, UploadTyped, Fits
    <3>2. ~StoreFile(u)
      BY <2>3, UploadAssumption DEF StoreFile, Typed, UploadTyped, Fits
    <3>3. QED BY <3>1, <3>2
  <2>5. Plain
    BY <2>4, StepsArePlain DEF Typed
  <2>6. part'[i] = 0
    <3>1. \A u \in Uploaders : ~AppendChunk(u, i)
      BY <2>3 DEF AppendChunk
    <3>2. QED BY <2>3, <3>1, SessionGoesOn DEF Typed
  <2>7. item'[i].received = 0 /\ item'[i].state = "cancelled"
    <3>1. CASE UNCHANGED item
      BY <2>3, <3>1
    <3>2. \A j \in Items : ~Grows(j)
      BY <2>3 DEF Grows
    <3>3. ASSUME NEW j \in Items, FailItem(j)
          PROVE  item'[i].received = 0 /\ item'[i].state = "cancelled"
      BY <2>3, <3>3, FailedRow DEF Typed
    <3>4. ASSUME NEW u \in Uploaders, CancelSession(u)
          PROVE  item'[i].received = 0 /\ item'[i].state = "cancelled"
      BY <2>3, <3>4, SessionRows DEF Typed
    <3>5. QED BY <1>2, <2>1, <2>4, <3>1, <3>2, <3>3, <3>4, RowSteps DEF Typed
  <2>8. QED BY <2>3, <2>5, <2>6, <2>7 DEF Plain
<1>3. QED BY <1>1, <1>2

LEMMA UploadsKeepReceipt == ASSUME Typed, UploadInv, UploadStep PROVE ReceiptFits'
<1>1. session' # "none"
  BY SessionGoesOn DEF Typed, UploadInv
<1>2. \A u \in Uploaders : up'[u].pc = "record" => guard' = u
  BY AppendersHoldGuard
<1>3. ASSUME NEW u \in Uploaders, up'[u].pc = "finish"
      PROVE  item'[up'[u].item].received # 0
  <2>1. up'[u].item = up[u].item /\ up[u].item \in Items
    BY <1>3, ThreadsAdvance DEF Typed, UploadTyped, Fits, CheckItem
  <2>2. item[up[u].item].received # 0
    <3>1. CASE up'[u] = up[u]
      BY <1>3, <3>1 DEF UploadInv, ReceiptFits
    <3>2. CASE CheckItem(u)
      <4>1. UpGoto(u, "finish")
        BY <1>3, <3>2, ThreadSteps DEF CheckItem, Serving, Typed
      <4>2. QED
        <5>1. CASE UpGoto(u, "discard")
          BY <1>3, <5>1, ThreadSteps DEF Typed
        <5>2. CASE Serve(u, Serving)
          BY <1>3, <5>2, ThreadSteps DEF Typed, Serving
        <5>3. CASE item[up[u].item].received = Chunks
          BY <5>3, UploadAssumption
        <5>4. QED BY <3>2, <5>1, <5>2, <5>3 DEF CheckItem
    <3>3. QED BY <1>3, <3>1, <3>2, ThreadsAdvance DEF Typed
  <2>3. QED BY <2>1, <2>2, RowsAdvance DEF Typed
<1>4. QED BY <1>1, <1>2, <1>3, HeldReceipt, DiscardedReceipt DEF ReceiptFits

-----------------------------------------------------------------------------
(* The process as a whole                                                  *)

LEMMA InitUploads == ASSUME Init PROVE UploadInv
<1>1. KeysFit
  <2>1. /\ \A d \in Docs : key[d] = None
        /\ \A i \in Items : item[i].state = "none" /\ i # None
        /\ \A u \in Uploaders : up[u].pc = "idle"
    BY UploadAssumption DEF Init, UploadInit, Serving
  <2>2. \A d \in Resumable : d \in Docs /\ job[d] = "none"
    BY DocsAssumption DEF Init, IntakeInit
  <2>3. QED BY <2>1, <2>2 DEF KeysFit, Made
<1>2. ReceiptFits
  BY DEF Init, UploadInit, ReceiptFits, NothingYet, Serving
<1>3. QED BY <1>1, <1>2 DEF UploadInv

LEMMA NextUploads == ASSUME Typed, JobInv, UploadInv, [Next]_vars PROVE UploadInv'
<1>1. \A u \in Uploaders : u \notin Docs \cup {None} \cup ReviewWorkers
  BY UploadAssumption, NoneAssumption, ThreadsAssumption
<1>2. CASE IntakeStep /\ UNCHANGED <<reviewVars, uploadVars>>
  BY <1>1, <1>2, IntakeKeepsJobs, OthersKeepUploads DEF Typed, uploadVars, GuardKept
<1>3. CASE UploadStep /\ UNCHANGED reviewVars
  BY <1>3, UploadsKeepKeys, UploadsKeepReceipt DEF UploadInv
<1>4. CASE ReviewStep /\ UNCHANGED uploadVars
  <2>1. UNCHANGED <<doc, job>> /\ (guard' = guard \/ guard \in {None} \cup ReviewWorkers)
    BY <1>4, ReviewLeaves DEF Typed, IntakeTyped
  <2>2. \A d \in Docs : Forward(d)
    BY <2>1 DEF Forward, Exists
  <2>3. QED BY <1>1, <1>4, <2>1, <2>2, OthersKeepUploads DEF uploadVars
<1>5. CASE (StopRun \/ RecoverRuns) /\ UNCHANGED uploadVars
  <2>1. UNCHANGED guard
    BY <1>5 DEF StopRun, Stop, RecoverRuns
  <2>2. QED BY <1>5, <2>1, RunProcessKeepsJobs, OthersKeepUploads DEF Typed, uploadVars
<1>6. CASE DownRun /\ UploadDown
  <2>1. \A u \in Uploaders : up'[u].pc = "idle"
    BY <1>6 DEF UploadDown, Serving
  <2>2. UNCHANGED <<item, session, receipt, part, key>>
    BY <1>6 DEF UploadDown
  <2>3. QED BY <1>6, <2>1, <2>2, RunProcessKeepsJobs, OthersKeepUploads DEF Typed
<1>7. CASE UNCHANGED vars
  <2>1. \A d \in Docs : Forward(d)
    BY <1>7 DEF vars, Forward, Exists
  <2>2. QED BY <1>7, <2>1, OthersKeepUploads DEF vars
<1>8. QED BY <1>2, <1>3, <1>4, <1>5, <1>6, <1>7 DEF Next

LEMMA UploadsHold == Spec => [](Typed /\ JobInv /\ UploadInv)
<1>1. Init => Typed /\ JobInv /\ UploadInv
  BY InitTyped, InitJobInv, InitUploads
<1>2. Typed /\ JobInv /\ UploadInv /\ [Next]_vars => (Typed /\ JobInv /\ UploadInv)'
  BY NextTyped, NextKeepsJobs, NextUploads
<1>3. QED BY <1>1, <1>2, PTL DEF Spec

\* However a finalization is repeated, interrupted and overtaken, an item
\* becomes one source, and a queued item names it and has its job.
THEOREM OneSource == Spec => []OneSourcePerItem
<1>1. Typed /\ UploadInv => OneSourcePerItem
  <2>1. ASSUME Typed, UploadInv, NEW i \in Items
        PROVE  /\ \A d, e \in Made(i) : d = e
               /\ item[i].state = "queued" =>
                    LET d == item[i].doc
                    IN  /\ d # None /\ key[d] = i /\ job[d] # "none"
                        /\ Exists(d) => Made(i) = {d}
    <3>1. \A d, e \in Made(i) : d = e
      BY <2>1 DEF UploadInv, KeysFit
    <3>2. ASSUME item[i].state = "queued"
          PROVE  LET d == item[i].doc
                 IN  /\ d # None /\ key[d] = i /\ job[d] # "none"
                     /\ Exists(d) => Made(i) = {d}
      <4>1. item[i].doc # None /\ key[item[i].doc] = i /\ job[item[i].doc] # "none"
        BY <2>1, <3>2 DEF UploadInv, KeysFit
      <4>2. item[i].doc \in Docs
        BY <2>1, <4>1 DEF Typed, UploadTyped, UploadTypeOK, Item
      <4>3. Exists(item[i].doc) => item[i].doc \in Made(i)
        BY <4>1, <4>2 DEF Made
      <4>4. QED BY <3>1, <4>1, <4>3
    <3>3. QED BY <3>1, <3>2
  <2>2. QED BY <2>1 DEF OneSourcePerItem
<1>2. QED BY <1>1, UploadsHold, PTL

\* A receipt that was discarded takes no saved byte and no source with it, in
\* whatever requests were under way.
THEOREM DiscardIsSafe == Spec => []DiscardedIsEmpty
<1>1. UploadInv => DiscardedIsEmpty
  BY DEF UploadInv, ReceiptFits, DiscardedIsEmpty
<1>2. QED BY <1>1, UploadsHold, PTL
=============================================================================
