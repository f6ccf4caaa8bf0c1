---------------------- MODULE TranscriptionQueueProofs ----------------------
(***************************************************************************)
(* Theorems of TranscriptionQueue, for any jobs, workers, threads, batches *)
(* and bounds.  Every transaction writes one row and then shares deadlines *)
(* inside a batch, which touches expires_at only; the lemmas separate the  *)
(* two so that the proof of each action is about the row it writes.        *)
(***************************************************************************)
EXTENDS TranscriptionQueue, TLAPS

\* What every row satisfies by itself.
RowInv(r) ==
    /\ r.status \in Active <=> r.worker # None
    /\ r.status \in Unstarted => r.attempt < MaxAttempts /\ r.expiry = "none"
    /\ r.reason \in DeletionReasons => r.status = "canceled"
    /\ r.status = "succeeded" => r.draft = r.attempt
    /\ r.status \in {"absent", "deleted"} => r.batch = None

\* What no step does to a row.
RowStep(a, b) ==
    /\ a.reason \in DeletionReasons =>
          \/ b.status = "deleted"
          \/ b.status = "canceled" /\ b.reason \in DeletionReasons
    /\ a.status = "deleted" => b.status = "deleted"
    /\ a.status = "cancel_requested" => b.status \in {"cancel_requested", "canceled"}
    /\ a.status \in Active => b.status # "deleted" /\ b.reason \notin DeletionReasons

\* Rows that agree on what the fence relies on.
SameClaim(a, b) == a.worker = b.worker /\ a.attempt = b.attempt /\ a.draft = b.draft

\* Rows that differ in expires_at at most.
SameButExpiry(a, b) ==
    /\ a.status = b.status /\ a.stage = b.stage /\ a.stageStatus = b.stageStatus
    /\ a.fresh = b.fresh /\ a.reason = b.reason /\ a.batch = b.batch
    /\ a.asked = b.asked /\ a.old = b.old /\ a.hasFile = b.hasFile
    /\ SameClaim(a, b)

\* Worker states between replace_segments and complete_job.
Publishing == {"qualified", "export", "writing", "complete"}

RowsInv == \A k \in Jobs : RowInv(job[k])

\* A worker that still holds its claim remembers the row's attempt, and the
\* row's segments are its own once it has replaced them.
ClaimInv ==
    \A w \in Workers, j \in Jobs :
        wk[w].job = j /\ job[j].worker = w =>
            /\ wk[w].attempt = job[j].attempt
            /\ wk[w].pc \in Publishing => job[j].draft = job[j].attempt

IInv == TypeOK /\ RowsInv /\ ClaimInv /\ DeletionCoversReserved

-----------------------------------------------------------------------------
(* Rows and deadlines                                                      *)

\* Sharing a batch deadline changes nothing but deadlines, and never gives
\* one to an unfinished job.
LEMMA CoordinateRows ==
    ASSUME NEW rows \in [Jobs -> Row], NEW j \in Jobs
    PROVE  /\ Coordinate(rows, j) \in [Jobs -> Row]
           /\ \A k \in Jobs :
                 /\ SameButExpiry(Coordinate(rows, j)[k], rows[k])
                 /\ rows[k].status \notin Terminal =>
                       Coordinate(rows, j)[k].expiry \in {rows[k].expiry, "none"}
<1> DEFINE M == Members(rows, j)
           d == IF \E m \in M : rows[m].status \notin Terminal THEN "none"
                ELSE IF \A m \in M : rows[m].expiry = "due" THEN "due"
                ELSE "later"
           C == [k \in Jobs |-> IF k \in M THEN [rows[k] EXCEPT !.expiry = d] ELSE rows[k]]
<1>1. Coordinate(rows, j) \in {rows, C}
  BY DEF Coordinate
<1>2. d \in {"none", "due", "later"}
  OBVIOUS
<1>3. C \in [Jobs -> Row]
  BY <1>2 DEF Row
<1>4. \A k \in Jobs : SameButExpiry(C[k], rows[k])
  BY DEF Row, SameButExpiry, SameClaim
<1>5. ASSUME NEW k \in Jobs, rows[k].status \notin Terminal
      PROVE  C[k].expiry \in {rows[k].expiry, "none"}
  BY <1>5 DEF Row
<1>6. \A k \in Jobs : SameButExpiry(rows[k], rows[k])
  BY DEF SameButExpiry, SameClaim
<1> HIDE DEF C, M
<1>7. QED BY <1>1, <1>3, <1>4, <1>5, <1>6

LEMMA CoordinateBatchesRows ==
    ASSUME NEW rows \in [Jobs -> Row], NEW S \in SUBSET Jobs
    PROVE  /\ CoordinateBatches(rows, S) \in [Jobs -> Row]
           /\ \A k \in Jobs :
                 /\ SameButExpiry(CoordinateBatches(rows, S)[k], rows[k])
                 /\ rows[k].status \notin Terminal =>
                       CoordinateBatches(rows, S)[k].expiry \in {rows[k].expiry, "none"}
<1>1. \A k \in Jobs : SameButExpiry(rows[k], rows[k])
  BY DEF SameButExpiry, SameClaim
<1>2. \A k \in Jobs : CoordinateBatches(rows, S)[k] \in {Coordinate(rows, k)[k], rows[k]}
  BY DEF CoordinateBatches
<1>3. \A k \in Jobs : /\ Coordinate(rows, k)[k] \in Row
                      /\ SameButExpiry(Coordinate(rows, k)[k], rows[k])
                      /\ rows[k].status \notin Terminal =>
                            Coordinate(rows, k)[k].expiry \in {rows[k].expiry, "none"}
  BY CoordinateRows
<1>4. CoordinateBatches(rows, S) \in [Jobs -> Row]
  BY <1>3 DEF CoordinateBatches
<1>5. QED BY <1>1, <1>2, <1>3, <1>4

\* The row invariant and the step relation do not see deadlines, except that
\* a queued row has none.
LEMMA ExpiryIrrelevant ==
    ASSUME NEW a \in Row, NEW b \in Row, NEW c \in Row,
           SameButExpiry(b, a),
           a.status \notin Terminal => b.expiry \in {a.expiry, "none"}
    PROVE  /\ RowInv(a) => RowInv(b)
           /\ RowStep(c, a) => RowStep(c, b)
           /\ SameClaim(b, a)
BY DEF SameButExpiry, SameClaim, RowInv, RowStep, Terminal, Unstarted

\* A transaction that writes a good row leaves every row good.
LEMMA PutRows ==
    ASSUME job \in [Jobs -> Row], RowsInv, NEW j \in Jobs, NEW r \in Row,
           RowInv(r), RowStep(job[j], r), Put(j, r)
    PROVE  /\ job' \in [Jobs -> Row]
           /\ RowsInv'
           /\ \A k \in Jobs : RowStep(job[k], job'[k])
           /\ \A k \in Jobs : SameClaim(job'[k], IF k = j THEN r ELSE job[k])
<1> DEFINE rows == [job EXCEPT ![j] = r]
<1>1. rows \in [Jobs -> Row]
  OBVIOUS
<1>2. job' = Coordinate(rows, j)
  BY DEF Put
<1>3. job' \in [Jobs -> Row]
  BY <1>1, <1>2, CoordinateRows
<1>4. \A k \in Jobs : RowStep(job[k], job[k])
  BY DEF RowStep, RowsInv, RowInv, Active
<1>5. \A k \in Jobs : /\ rows[k] = IF k = j THEN r ELSE job[k]
                      /\ RowInv(rows[k]) /\ RowStep(job[k], rows[k])
  BY <1>4 DEF RowsInv
<1>6. \A k \in Jobs : /\ SameButExpiry(job'[k], rows[k])
                      /\ rows[k].status \notin Terminal => job'[k].expiry \in {rows[k].expiry, "none"}
  BY <1>1, <1>2, CoordinateRows
<1> HIDE DEF rows
<1>7. \A k \in Jobs : RowInv(job'[k]) /\ RowStep(job[k], job'[k]) /\ SameClaim(job'[k], rows[k])
  BY <1>1, <1>3, <1>5, <1>6, ExpiryIrrelevant
<1>8. QED BY <1>3, <1>5, <1>7 DEF RowsInv

RowsStep == \A k \in Jobs : RowStep(job[k], job'[k])

\* A step that writes no row.
LEMMA RowsUntouched ==
    ASSUME job \in [Jobs -> Row], RowsInv, job' = job
    PROVE  /\ job' \in [Jobs -> Row] /\ RowsInv' /\ RowsStep
BY DEF RowsInv, RowInv, RowsStep, RowStep, Active

\* A step that only shares deadlines.
LEMMA RowsCoordinated ==
    ASSUME job \in [Jobs -> Row], RowsInv, NEW rows \in [Jobs -> Row], rows = job,
           \/ \E j \in Jobs : job' = Coordinate(rows, j)
           \/ \E S \in SUBSET Jobs : job' = CoordinateBatches(rows, S)
    PROVE  /\ job' \in [Jobs -> Row] /\ RowsInv' /\ RowsStep
           /\ \A k \in Jobs : SameButExpiry(job'[k], job[k])
<1>1. /\ job' \in [Jobs -> Row]
      /\ \A k \in Jobs :
            /\ SameButExpiry(job'[k], job[k])
            /\ job[k].status \notin Terminal => job'[k].expiry \in {job[k].expiry, "none"}
  BY CoordinateRows, CoordinateBatchesRows
<1>2. \A k \in Jobs : RowInv(job[k]) /\ RowStep(job[k], job[k])
  BY DEF RowsInv, RowInv, RowStep, Active
<1>3. \A k \in Jobs : RowInv(job'[k]) /\ RowStep(job[k], job'[k])
  BY <1>1, <1>2, ExpiryIrrelevant
<1>4. QED BY <1>1, <1>3 DEF RowsInv, RowsStep

\* A deletion in progress keeps covering dead rows, because no step revives
\* one; only a process that enters a deletion needs an argument of its own.
LEMMA DeletionsStayCovered ==
    ASSUME TypeOK, DeletionCoversReserved, RowsStep,
           \A p \in Deleters : del'[p].pc \in {"files", "rows"} =>
              \/ del[p].pc \in {"files", "rows"} /\ del'[p].group = del[p].group
              \/ \A j \in del'[p].group : Reserved(job'[j]) \/ job'[j].status = "deleted"
    PROVE  DeletionCoversReserved'
BY DEF TypeOK, DeletionRecord, DeletionCoversReserved, RowsStep, RowStep, Reserved

\* Claims survive a step that keeps, or gives up, what they rely on.
LEMMA ClaimsKept ==
    ASSUME ClaimInv,
           \A k \in Jobs : \/ SameClaim(job'[k], job[k])
                           \/ job'[k].worker = None,
           \A w \in Workers :
              \/ wk'[w].job \notin Jobs
              \/ /\ wk'[w].job = wk[w].job /\ wk'[w].attempt = wk[w].attempt
                 /\ wk'[w].pc \in Publishing => wk[w].pc \in Publishing
    PROVE  ClaimInv'
BY NamesAssumption DEF ClaimInv, SameClaim

\* Reserving a group for deletion.
LEMMA ReserveRows ==
    ASSUME NEW rows \in [Jobs -> Row], NEW M \in SUBSET Jobs,
           NEW reason \in DeletionReasons,
           \A k \in M : rows[k].status \notin Active \cup {"deleted", "absent"},
           \A k \in Jobs : RowInv(rows[k]),
           job' = Marked(rows, M, reason)
    PROVE  /\ job' \in [Jobs -> Row] /\ RowsInv'
           /\ \A k \in Jobs : /\ RowStep(rows[k], job'[k])
                              /\ SameClaim(job'[k], rows[k]) \/ job'[k].worker = None
           /\ \A k \in M : Reserved(job'[k])
<1>1. job' \in [Jobs -> Row]
  <2>1. ASSUME NEW r \in Row
        PROVE  [r EXCEPT !.status = "canceled", !.stageStatus = "canceled",
                         !.worker = None, !.fresh = FALSE,
                         !.expiry = "due", !.reason = reason] \in Row
    BY DEF Row, Terminal
  <2>2. QED BY <2>1 DEF Marked
<1>2. \A k \in Jobs \ M : job'[k] = rows[k]
  BY DEF Marked
<1>3. \A k \in M : /\ job'[k].status = "canceled" /\ job'[k].worker = None
                   /\ job'[k].reason = reason
  BY DEF Marked, Row
<1>4. \A k \in Jobs : RowInv(job'[k])
  BY <1>2, <1>3 DEF RowInv, Active, Unstarted, DeletionReasons
<1>5. \A k \in Jobs : RowStep(rows[k], job'[k])
  BY <1>2, <1>3 DEF RowStep, RowInv, Active
<1>6. QED BY <1>1, <1>2, <1>3, <1>4, <1>5 DEF RowsInv, SameClaim, Reserved

\* The group of an existing job is made of existing jobs.
LEMMA MembersExist ==
    ASSUME NEW rows \in [Jobs -> Row], \A k \in Jobs : RowInv(rows[k]), NEW j \in Jobs,
           rows[j].status \notin {"absent", "deleted"}
    PROVE  /\ Members(rows, j) \in SUBSET Jobs
           /\ \A k \in Members(rows, j) : rows[k].status \notin {"absent", "deleted"}
BY DEF Members, RowInv

-----------------------------------------------------------------------------
(* Everything but the rows                                                 *)

\* A worker is busy exactly when it knows a job.
Busy(s) == s.job = None <=> s.pc \in {"down", "starting", "idle", "maintain"}

\* The submitting request knows a job exactly when it is storing one.
UploadOK(s) ==
    /\ s \in [pc : {"idle", "ingest", "register", "enqueue", "discard"},
              job : Jobs \cup {None}]
    /\ s.job = None <=> s.pc = "idle"

\* A worker that moves on keeps its claim or drops it.
KeepsClaim(a, b) ==
    \/ b.job = None
    \/ /\ b.job = a.job /\ b.attempt = a.attempt
       /\ b.pc \in Publishing => a.pc \in Publishing

\* What a worker step has to show about the rows and the worker.
LEMMA WorkerMoves ==
    ASSUME TypeOK, ClaimInv, NEW w \in Workers, NEW x \in WorkerRecord,
           wk' = [wk EXCEPT ![w] = x], Busy(x), KeepsClaim(wk[w], x),
           \A k \in Jobs : \/ SameClaim(job'[k], job[k])
                           \/ job'[k].worker = None
    PROVE  /\ wk' \in [Workers -> WorkerRecord]
           /\ \A v \in Workers : Busy(wk'[v])
           /\ ClaimInv'
<1>1. /\ wk' \in [Workers -> WorkerRecord]
      /\ \A v \in Workers : Busy(wk'[v])
  BY DEF TypeOK, Busy
<1>2. \A v \in Workers : wk'[v] = IF v = w THEN x ELSE wk[v]
  BY DEF TypeOK
<1>3. \A v \in Workers :
         \/ wk'[v].job \notin Jobs
         \/ /\ wk'[v].job = wk[v].job /\ wk'[v].attempt = wk[v].attempt
            /\ wk'[v].pc \in Publishing => wk[v].pc \in Publishing
  BY <1>2, NamesAssumption DEF KeepsClaim
<1>4. ClaimInv'
  BY <1>3, ClaimsKept
<1>5. QED BY <1>1, <1>4

LEMMA IdleTypes ==
    /\ IdleWorker \in WorkerRecord /\ Busy(IdleWorker) /\ IdleWorker.job = None
    /\ DownWorker \in WorkerRecord /\ Busy(DownWorker) /\ DownWorker.job = None
    /\ NoDeletion \in DeletionRecord /\ NoDeletion.pc = "none"
<1>1. /\ IdleWorker \in WorkerRecord
      /\ IdleWorker.job = None /\ IdleWorker.pc = "idle"
  BY AttemptsAssumption DEF IdleWorker, WorkerRecord, WorkerStates
<1>2. /\ DownWorker \in WorkerRecord
      /\ DownWorker.job = None /\ DownWorker.pc = "down"
  BY <1>1 DEF DownWorker, WorkerRecord, WorkerStates
<1>3. NoDeletion \in DeletionRecord /\ NoDeletion.pc = "none"
  BY DEF NoDeletion, DeletionRecord
<1>4. QED BY <1>1, <1>2, <1>3 DEF Busy

\* The pieces of the invariant, put together.
LEMMA Assembled ==
    ASSUME IInv,
           job' \in [Jobs -> Row], RowsInv', RowsStep,
           tree' \in [Jobs -> BOOLEAN],
           wk' \in [Workers -> WorkerRecord], \A v \in Workers : Busy(wk'[v]),
           ClaimInv',
           del' \in [Deleters -> DeletionRecord],
           \A p \in Deleters : del'[p].pc \in {"files", "rows"} =>
              \/ del[p].pc \in {"files", "rows"} /\ del'[p].group = del[p].group
              \/ \A j \in del'[p].group : Reserved(job'[j]) \/ job'[j].status = "deleted",
           sub' = sub \/ UploadOK(sub'),
           faults' \in 0..MaxFaults
    PROVE  IInv'
<1>1. UploadOK(sub)'
  BY DEF IInv, TypeOK, UploadOK
<1>2. TypeOK'
  BY <1>1 DEF TypeOK, Busy, UploadOK
<1>3. DeletionCoversReserved'
  BY DeletionsStayCovered DEF IInv
<1>4. QED BY <1>2, <1>3 DEF IInv

\* A step that writes rows and nothing else.
LEMMA OnlyRows ==
    ASSUME IInv, job' \in [Jobs -> Row], RowsInv', RowsStep,
           \A k \in Jobs : \/ SameClaim(job'[k], job[k])
                           \/ job'[k].worker = None,
           tree' \in [Jobs -> BOOLEAN], UNCHANGED <<wk, del, faults>>,
           sub' = sub \/ UploadOK(sub')
    PROVE  IInv'
<1>1. ClaimInv'
  BY ClaimsKept DEF IInv
<1>2. /\ wk' \in [Workers -> WorkerRecord] /\ (\A v \in Workers : Busy(wk'[v]))
      /\ del' \in [Deleters -> DeletionRecord] /\ faults' \in 0..MaxFaults
      /\ \A p \in Deleters : del'[p].pc \in {"files", "rows"} =>
              del[p].pc \in {"files", "rows"} /\ del'[p].group = del[p].group
  BY DEF IInv, TypeOK, Busy
<1>3. QED BY <1>1, <1>2, Assembled

\* A worker step that leaves deletions and uploads alone.
LEMMA WorkerAndRows ==
    ASSUME IInv, job' \in [Jobs -> Row], RowsInv', RowsStep,
           \A k \in Jobs : \/ SameClaim(job'[k], job[k])
                           \/ job'[k].worker = None,
           NEW w \in Workers, NEW x \in WorkerRecord,
           wk' = [wk EXCEPT ![w] = x], Busy(x), KeepsClaim(wk[w], x),
           tree' \in [Jobs -> BOOLEAN], UNCHANGED <<del, sub, faults>>
    PROVE  IInv'
<1>1. /\ wk' \in [Workers -> WorkerRecord] /\ (\A v \in Workers : Busy(wk'[v]))
      /\ ClaimInv'
  BY WorkerMoves DEF IInv
<1>2. /\ del' \in [Deleters -> DeletionRecord] /\ faults' \in 0..MaxFaults
      /\ \A p \in Deleters : del'[p].pc \in {"files", "rows"} =>
              del[p].pc \in {"files", "rows"} /\ del'[p].group = del[p].group
  BY DEF IInv, TypeOK
<1>3. QED BY <1>1, <1>2, Assembled

-----------------------------------------------------------------------------
(* One lemma per action: submission and owner requests                     *)

\* Events change nothing else of a row.
LEMMA LoggedRow ==
    ASSUME NEW r \in Row
    PROVE  /\ Logged(r) \in Row
           /\ Logged(r).status = r.status /\ Logged(r).attempt = r.attempt
           /\ Logged(r).worker = r.worker /\ Logged(r).draft = r.draft
           /\ Logged(r).reason = r.reason /\ Logged(r).expiry = r.expiry
           /\ Logged(r).batch = r.batch
BY DEF Logged, Row

LEMMA BlankRows ==
    /\ BlankRow \in Row
    /\ BlankRow.worker = None /\ BlankRow.reason = "none" /\ BlankRow.batch = None
    /\ BlankRow.attempt = 0 /\ BlankRow.expiry = "none"
BY AttemptsAssumption DEF BlankRow, Row, Stages

LEMMA CreateJobStep ==
    ASSUME IInv, NEW j \in Jobs, CreateJob(j)
    PROVE  IInv' /\ RowsStep
<1> DEFINE r == [BlankRow EXCEPT !.status = "created", !.batch = BatchOf[j]]
<1>1. /\ r \in Row /\ r.status = "created" /\ r.worker = None /\ r.reason = "none"
      /\ r.attempt = 0 /\ r.expiry = "none"
  BY BlankRows, BatchAssumption DEF Row, Unstarted
<1>2. RowInv(r)
  BY <1>1, AttemptsAssumption DEF RowInv, Active, DeletionReasons
<1>3. job[j] \in Row /\ RowInv(job[j]) /\ job[j].status = "absent"
  BY DEF IInv, TypeOK, RowsInv, CreateJob
<1>4. RowStep(job[j], r) /\ job[j].worker = None
  BY <1>3 DEF RowStep, RowInv, DeletionReasons, Active
<1>5. Put(j, r)
  BY DEF CreateJob
<1> HIDE DEF r
<1>6. /\ job' \in [Jobs -> Row] /\ RowsInv'
      /\ \A k \in Jobs : RowStep(job[k], job'[k])
      /\ \A k \in Jobs : SameClaim(job'[k], IF k = j THEN r ELSE job[k])
  BY <1>1, <1>2, <1>4, <1>5, PutRows DEF IInv, TypeOK
<1>7. \A k \in Jobs : SameClaim(job'[k], job[k]) \/ job'[k].worker = None
  BY <1>1, <1>6 DEF SameClaim
<1>8. UploadOK(sub)'
  BY NamesAssumption DEF CreateJob, UploadOK
<1>9. QED BY <1>6, <1>7, <1>8, OnlyRows DEF CreateJob, RowsStep, IInv, TypeOK

\* A transaction of a request: one row is written, its worker kept or dropped.
LEMMA RequestWrites ==
    ASSUME IInv, NEW j \in Jobs, NEW r \in Row, Put(j, r),
           RowInv(r), RowStep(job[j], r), SameClaim(r, job[j]) \/ r.worker = None,
           UNCHANGED <<tree, wk, del, faults>>, sub' = sub \/ UploadOK(sub')
    PROVE  IInv' /\ RowsStep
<1>1. /\ job' \in [Jobs -> Row] /\ RowsInv'
      /\ \A k \in Jobs : RowStep(job[k], job'[k])
      /\ \A k \in Jobs : SameClaim(job'[k], IF k = j THEN r ELSE job[k])
  BY PutRows DEF IInv, TypeOK
<1>2. \A k \in Jobs : SameClaim(job'[k], job[k]) \/ job'[k].worker = None
  BY <1>1 DEF SameClaim
<1>3. QED BY <1>1, <1>2, OnlyRows DEF RowsStep, IInv, TypeOK

LEMMA IngestStreamStep ==
    ASSUME IInv, NEW stored \in BOOLEAN, IngestStream(stored)
    PROVE  IInv' /\ RowsStep
<1>1. /\ job' \in [Jobs -> Row] /\ RowsInv' /\ RowsStep
  BY RowsUntouched DEF IInv, TypeOK, IngestStream
<1>2. sub.job \in Jobs /\ UploadOK(sub)'
  BY DEF IInv, TypeOK, IngestStream, UploadOK
<1>3. tree' \in [Jobs -> BOOLEAN]
  BY <1>2 DEF IInv, TypeOK, IngestStream
<1>4. \A k \in Jobs : SameClaim(job'[k], job[k])
  BY DEF SameClaim, IngestStream
<1>5. QED BY <1>1, <1>2, <1>3, <1>4, OnlyRows DEF IngestStream

\* A transaction that writes one row and keeps its claim.
LEMMA RowWritten ==
    ASSUME job \in [Jobs -> Row], RowsInv, NEW j \in Jobs, NEW r \in Row,
           RowInv(r), RowStep(job[j], r), SameClaim(r, job[j]),
           job' = [job EXCEPT ![j] = r]
    PROVE  /\ job' \in [Jobs -> Row] /\ RowsInv' /\ RowsStep
           /\ \A k \in Jobs : SameClaim(job'[k], job[k])
<1>1. /\ job' \in [Jobs -> Row]
      /\ \A k \in Jobs : job'[k] = IF k = j THEN r ELSE job[k]
  OBVIOUS
<1>2. \A k \in Jobs : RowInv(job'[k])
  BY <1>1 DEF RowsInv
<1>3. \A k \in Jobs : RowStep(job[k], job[k]) /\ SameClaim(job[k], job[k])
  BY DEF RowsInv, RowInv, RowStep, SameClaim, Active
<1>4. QED BY <1>1, <1>2, <1>3 DEF RowsInv, RowsStep

LEMMA RegisterFileStep ==
    ASSUME IInv, RegisterFile
    PROVE  IInv' /\ RowsStep
<1> DEFINE n == Logged(job[sub.job])
           r == [n EXCEPT !.hasFile = TRUE]
<1>1. sub.job \in Jobs /\ UploadOK(sub)'
  BY DEF IInv, TypeOK, RegisterFile, UploadOK, NoUpload
<1>2. CASE job[sub.job].status = "created"
  <2>1. /\ n \in Row /\ n.status = "created" /\ n.reason = job[sub.job].reason
        /\ n.expiry = job[sub.job].expiry /\ n.batch = job[sub.job].batch
        /\ SameClaim(n, job[sub.job])
    BY <1>1, <1>2, LoggedRow DEF IInv, TypeOK, SameClaim
  <2> HIDE DEF n
  <2>2. /\ r \in Row /\ r.status = "created" /\ r.reason = job[sub.job].reason
        /\ r.expiry = job[sub.job].expiry /\ r.batch = job[sub.job].batch
        /\ SameClaim(r, job[sub.job])
    BY <2>1 DEF Row, SameClaim
  <2> HIDE DEF r
  <2>3. RowInv(r) /\ RowStep(job[sub.job], r)
    BY <1>1, <1>2, <2>2 DEF IInv, RowsInv, RowInv, RowStep, SameClaim
  <2>4. job' = [job EXCEPT ![sub.job] = r]
    BY <1>2 DEF RegisterFile, r, n
  <2>5. /\ job' \in [Jobs -> Row] /\ RowsInv' /\ RowsStep
        /\ \A k \in Jobs : SameClaim(job'[k], job[k])
    BY <1>1, <2>2, <2>3, <2>4, RowWritten DEF IInv, TypeOK
  <2>6. QED BY <1>1, <2>5, OnlyRows DEF RegisterFile, IInv, TypeOK
<1>3. CASE job[sub.job].status # "created"
  <2>1. job' \in [Jobs -> Row] /\ RowsInv' /\ RowsStep
    BY <1>3, RowsUntouched DEF IInv, TypeOK, RegisterFile
  <2>2. \A k \in Jobs : SameClaim(job'[k], job[k])
    BY <1>3 DEF SameClaim, RegisterFile
  <2>3. QED BY <1>1, <2>1, <2>2, OnlyRows DEF RegisterFile, IInv, TypeOK
<1>4. QED BY <1>2, <1>3

\* A step of a request that writes no row.
LEMMA RequestReads ==
    ASSUME IInv, UNCHANGED <<job, tree, wk, del, faults>>, sub' = sub \/ UploadOK(sub')
    PROVE  IInv' /\ RowsStep
<1>1. job' \in [Jobs -> Row] /\ RowsInv' /\ RowsStep
  BY RowsUntouched DEF IInv, TypeOK
<1>2. \A k \in Jobs : SameClaim(job'[k], job[k])
  BY DEF SameClaim
<1>3. QED BY <1>1, <1>2, OnlyRows DEF IInv, TypeOK

LEMMA EnqueueJobStep ==
    ASSUME IInv, EnqueueJob
    PROVE  IInv' /\ RowsStep
<1> DEFINE n == Logged(job[sub.job])
           r == [n EXCEPT !.status = "queued", !.stage = "probe", !.stageStatus = "pending"]
<1>1. sub.job \in Jobs /\ UploadOK(sub)'
  BY DEF IInv, TypeOK, EnqueueJob, UploadOK, NoUpload
<1>2. CASE job[sub.job].status = "created"
  <2>1. /\ n \in Row /\ n.status = "created" /\ n.reason = job[sub.job].reason
        /\ n.expiry = job[sub.job].expiry /\ SameClaim(n, job[sub.job])
    BY <1>1, <1>2, LoggedRow DEF IInv, TypeOK, SameClaim
  <2>2. Put(sub.job, r)
    BY <1>2 DEF EnqueueJob
  <2> HIDE DEF n
  <2>3. /\ r \in Row /\ r.status = "queued" /\ r.reason = job[sub.job].reason
        /\ r.expiry = job[sub.job].expiry /\ SameClaim(r, job[sub.job])
    BY <2>1 DEF Row, SameClaim, Unstarted, Stages
  <2> HIDE DEF r
  <2>4. RowInv(r) /\ RowStep(job[sub.job], r)
    BY <1>1, <1>2, <2>3 DEF IInv, RowsInv, RowInv, RowStep, SameClaim, Active, Unstarted
  <2>5. QED BY <1>1, <2>2, <2>3, <2>4, RequestWrites DEF EnqueueJob
<1>3. CASE job[sub.job].status # "created"
  BY <1>1, <1>3, RequestReads DEF EnqueueJob
<1>4. QED BY <1>2, <1>3

\* A row that becomes canceled, failed or queued without a worker.
LEMMA CancelEffectRows ==
    ASSUME IInv, NEW j \in Jobs, NEW why \in {"owner_requested", "owner_delete"},
           CancelEffect(j, why)
    PROVE  /\ job' \in [Jobs -> Row] /\ RowsInv' /\ RowsStep
           /\ \A k \in Jobs : SameClaim(job'[k], job[k]) \/ job'[k].worker = None
<1> DEFINE n == [Logged(job[j]) EXCEPT !.asked = IF why = "owner_delete" THEN "last" ELSE @]
           c == [n EXCEPT !.status = "canceled", !.stageStatus = "canceled", !.expiry = "later"]
           q == [n EXCEPT !.status = "cancel_requested"]
<1>1. /\ job \in [Jobs -> Row] /\ job[j] \in Row /\ RowsInv /\ RowInv(job[j])
  BY DEF IInv, TypeOK, RowsInv
<1>2. /\ n \in Row /\ n.status = job[j].status /\ n.reason = job[j].reason
      /\ SameClaim(n, job[j])
  BY <1>1, LoggedRow DEF Row, SameClaim
<1>3. \/ job[j].status \in Unstarted /\ Put(j, c)
      \/ job[j].status = "running" /\ Put(j, q)
      \/ job[j].status \in Terminal \cup {"cancel_requested"} /\ Put(j, job[j])
      \/ UNCHANGED job
  BY DEF CancelEffect
<1> HIDE DEF n
<1>4. /\ c \in Row /\ c.status = "canceled" /\ c.reason = job[j].reason /\ SameClaim(c, job[j])
  BY <1>2 DEF Row, Terminal, SameClaim
<1>5. /\ q \in Row /\ q.status = "cancel_requested" /\ q.reason = job[j].reason
      /\ SameClaim(q, job[j])
  BY <1>2 DEF Row, Active, SameClaim
<1> HIDE DEF c, q
<1>6. CASE job[j].status \in Unstarted /\ Put(j, c)
  <2>1. RowInv(c) /\ RowStep(job[j], c)
    BY <1>1, <1>4, <1>6 DEF RowInv, RowStep, SameClaim, Active, Unstarted
  <2>2. QED BY <1>1, <1>4, <1>6, <2>1, PutRows DEF RowsStep, SameClaim
<1>7. CASE job[j].status = "running" /\ Put(j, q)
  <2>1. RowInv(q) /\ RowStep(job[j], q)
    BY <1>1, <1>5, <1>7 DEF RowInv, RowStep, SameClaim, Active, Unstarted
  <2>2. QED BY <1>1, <1>5, <1>7, <2>1, PutRows DEF RowsStep, SameClaim
<1>8. CASE Put(j, job[j])
  <2>1. RowStep(job[j], job[j])
    BY <1>1 DEF RowInv, RowStep, Active
  <2>2. QED BY <1>1, <1>8, <2>1, PutRows DEF RowsStep, SameClaim
<1>9. CASE UNCHANGED job
  BY <1>1, <1>9, RowsUntouched DEF SameClaim
<1>10. QED BY <1>3, <1>6, <1>7, <1>8, <1>9

LEMMA RequestCancelStep ==
    ASSUME IInv, NEW j \in Jobs, RequestCancel(j)
    PROVE  IInv' /\ RowsStep
BY CancelEffectRows, OnlyRows DEF RequestCancel, IInv, TypeOK

LEMMA RetryJobStep ==
    ASSUME IInv, NEW j \in Jobs, RetryJob(j)
    PROVE  IInv' /\ RowsStep
<1> DEFINE n == Logged(job[j])
           r == [n EXCEPT !.status = "queued", !.stage = "probe", !.stageStatus = "pending",
                          !.worker = None, !.fresh = FALSE, !.reason = "none",
                          !.expiry = "none"]
<1>1. /\ job[j] \in Row /\ RowInv(job[j]) /\ job[j].status \in {"failed", "canceled"}
      /\ job[j].reason \notin DeletionReasons /\ job[j].attempt < MaxAttempts
      /\ Put(j, r)
  BY DEF IInv, TypeOK, RowsInv, RetryJob, Retryable, Reserved
<1>2. n \in Row /\ n.attempt = job[j].attempt
  BY <1>1, LoggedRow
<1> HIDE DEF n
<1>3. /\ r \in Row /\ r.status = "queued" /\ r.worker = None /\ r.reason = "none"
      /\ r.expiry = "none" /\ r.attempt = job[j].attempt
  BY <1>2 DEF Row, Unstarted, Stages
<1> HIDE DEF r
<1>4. RowInv(r) /\ RowStep(job[j], r)
  BY <1>1, <1>3 DEF RowInv, RowStep, Active, DeletionReasons
<1>5. QED BY <1>1, <1>3, <1>4, RequestWrites DEF RetryJob

-----------------------------------------------------------------------------
(* Hard deletion                                                           *)

\* A deleter only changes its own entry.
LEMMA DeleterMoves ==
    ASSUME TypeOK, NEW p \in Deleters, NEW x \in DeletionRecord,
           del' = [del EXCEPT ![p] = x],
           x.pc \in {"files", "rows"} =>
              \/ del[p].pc \in {"files", "rows"} /\ x.group = del[p].group
              \/ \A j \in x.group : Reserved(job'[j]) \/ job'[j].status = "deleted"
    PROVE  /\ del' \in [Deleters -> DeletionRecord]
           /\ \A q \in Deleters : del'[q].pc \in {"files", "rows"} =>
                 \/ del[q].pc \in {"files", "rows"} /\ del'[q].group = del[q].group
                 \/ \A j \in del'[q].group : Reserved(job'[j]) \/ job'[j].status = "deleted"
<1>1. \A q \in Deleters : del'[q] = IF q = p THEN x ELSE del[q]
  BY DEF TypeOK
<1>2. QED BY <1>1 DEF TypeOK

\* Reserving a group of inactive, existing jobs.
LEMMA ReserveStep ==
    ASSUME IInv, NEW rows \in [Jobs -> Row], NEW p \in Deleters, NEW M \in SUBSET Jobs,
           NEW reason \in DeletionReasons, NEW alone \in BOOLEAN,
           \A k \in Jobs : /\ RowInv(rows[k]) /\ SameClaim(rows[k], job[k])
                           /\ rows[k].status = job[k].status /\ rows[k].reason = job[k].reason,
           \A k \in M : rows[k].status \notin Active \cup {"deleted", "absent"},
           Reserve(p, rows, M, reason, alone)
    PROVE  /\ job' \in [Jobs -> Row] /\ RowsInv' /\ RowsStep
           /\ \A k \in Jobs : SameClaim(job'[k], job[k]) \/ job'[k].worker = None
           /\ del' \in [Deleters -> DeletionRecord]
           /\ \A q \in Deleters : del'[q].pc \in {"files", "rows"} =>
                 \/ del[q].pc \in {"files", "rows"} /\ del'[q].group = del[q].group
                 \/ \A j \in del'[q].group : Reserved(job'[j]) \/ job'[j].status = "deleted"
<1>1. /\ job' \in [Jobs -> Row] /\ RowsInv'
      /\ \A k \in Jobs : /\ RowStep(rows[k], job'[k])
                         /\ SameClaim(job'[k], rows[k]) \/ job'[k].worker = None
      /\ \A k \in M : Reserved(job'[k])
  BY ReserveRows DEF Reserve
<1>2. RowsStep
  BY <1>1 DEF RowsStep, RowStep
<1>3. \A k \in Jobs : SameClaim(job'[k], job[k]) \/ job'[k].worker = None
  BY <1>1 DEF SameClaim
<1> DEFINE x == [pc |-> "files", group |-> M, reason |-> reason, alone |-> alone]
<1>4. x \in DeletionRecord /\ x.group = M /\ del' = [del EXCEPT ![p] = x]
  BY DEF DeletionRecord, Reserve
<1> HIDE DEF x
<1>5. QED BY <1>1, <1>2, <1>3, <1>4, DeleterMoves DEF IInv

\* A deletion step of a process other than a worker in _finish_cancellation.
LEMMA DeletersAndRows ==
    ASSUME IInv, job' \in [Jobs -> Row], RowsInv', RowsStep,
           \A k \in Jobs : SameClaim(job'[k], job[k]) \/ job'[k].worker = None,
           del' \in [Deleters -> DeletionRecord],
           \A q \in Deleters : del'[q].pc \in {"files", "rows"} =>
              \/ del[q].pc \in {"files", "rows"} /\ del'[q].group = del[q].group
              \/ \A j \in del'[q].group : Reserved(job'[j]) \/ job'[j].status = "deleted",
           tree' \in [Jobs -> BOOLEAN], UNCHANGED wk,
           sub' = sub \/ UploadOK(sub'), faults' \in 0..MaxFaults
    PROVE  IInv'
<1>1. ClaimInv'
  BY ClaimsKept DEF IInv
<1>2. wk' \in [Workers -> WorkerRecord] /\ \A v \in Workers : Busy(wk'[v])
  BY DEF IInv, TypeOK, Busy
<1>3. QED BY <1>1, <1>2, Assembled

\* The same when no row is written.
LEMMA OnlyDeleters ==
    ASSUME IInv, UNCHANGED <<job, wk>>,
           del' \in [Deleters -> DeletionRecord],
           \A q \in Deleters : del'[q].pc \in {"files", "rows"} =>
              \/ del[q].pc \in {"files", "rows"} /\ del'[q].group = del[q].group
              \/ \A j \in del'[q].group : Reserved(job'[j]) \/ job'[j].status = "deleted",
           tree' \in [Jobs -> BOOLEAN],
           sub' = sub \/ UploadOK(sub'), faults' \in 0..MaxFaults
    PROVE  IInv' /\ RowsStep
<1>1. job' \in [Jobs -> Row] /\ RowsInv' /\ RowsStep
  BY RowsUntouched DEF IInv, TypeOK
<1>2. \A k \in Jobs : SameClaim(job'[k], job[k])
  BY DEF SameClaim
<1>3. QED BY <1>1, <1>2, DeletersAndRows

LEMMA DeleteFilesStep ==
    ASSUME IInv, NEW p \in Deleters, DeleteFiles(p)
    PROVE  IInv' /\ RowsStep
<1> DEFINE x == [del[p] EXCEPT !.pc = "rows"]
<1>1. /\ x \in DeletionRecord /\ x.group = del[p].group /\ del[p].pc = "files"
      /\ del' = [del EXCEPT ![p] = x]
  BY DEF IInv, TypeOK, DeletionRecord, DeleteFiles
<1> HIDE DEF x
<1>2. tree' \in [Jobs -> BOOLEAN] /\ faults' \in 0..MaxFaults /\ UNCHANGED <<job, wk, sub>>
  BY DEF IInv, TypeOK, DeleteFiles
<1>3. QED BY <1>1, <1>2, DeleterMoves, OnlyDeleters DEF IInv

\* How a worker takes the end of a deletion it started.
LEMMA AfterRaiseMoves ==
    ASSUME NEW s \in WorkerRecord, s.job # None, Busy(s), NEW exists \in BOOLEAN
    PROVE  /\ AfterRaise(s, exists) \in WorkerRecord /\ Busy(AfterRaise(s, exists))
           /\ KeepsClaim(s, AfterRaise(s, exists))
<1> DEFINE h == [s EXCEPT !.pc = "handler", !.retryable = FALSE]
<1>1. h \in WorkerRecord /\ Busy(h) /\ KeepsClaim(s, h)
  BY DEF WorkerRecord, WorkerStates, Busy, KeepsClaim, Publishing
<1>2. AfterRaise(s, exists) \in {h, DownWorker, IdleWorker}
  BY DEF AfterRaise
<1> HIDE DEF h
<1>3. QED BY <1>1, <1>2, IdleTypes DEF KeepsClaim

LEMMA AfterDeletionMoves ==
    ASSUME IInv, NEW p \in Deleters, NEW ok \in BOOLEAN, AfterDeletion(p, ok),
           \A k \in Jobs : SameClaim(job'[k], job[k]) \/ job'[k].worker = None
    PROVE  /\ wk' \in [Workers -> WorkerRecord] /\ (\A v \in Workers : Busy(wk'[v]))
           /\ ClaimInv'
<1>1. CASE p \notin Workers
  <2>1. UNCHANGED wk
    BY <1>1 DEF AfterDeletion
  <2>2. ClaimInv'
    BY <2>1, ClaimsKept DEF IInv
  <2>3. QED BY <2>1, <2>2 DEF IInv, TypeOK, Busy
<1>2. CASE p \in Workers
  <2>1. wk[p] \in WorkerRecord /\ Busy(wk[p])
    BY <1>2 DEF IInv, TypeOK, Busy
  <2>2. CASE wk[p].pc = "deleting"
    <3> DEFINE x == IF ok THEN IdleWorker ELSE AfterRaise(wk[p], TRUE)
    <3>1. wk' = [wk EXCEPT ![p] = x]
      BY <1>2, <2>2 DEF AfterDeletion
    <3>2. wk[p].job # None
      BY <2>1, <2>2 DEF Busy
    <3>3. x \in WorkerRecord /\ Busy(x) /\ KeepsClaim(wk[p], x)
      BY <2>1, <3>2, IdleTypes, AfterRaiseMoves DEF KeepsClaim
    <3> HIDE DEF x
    <3>4. QED BY <1>2, <3>1, <3>3, WorkerMoves DEF IInv
  <2>3. CASE wk[p].pc # "deleting"
    <3> DEFINE x == IF ok THEN wk[p] ELSE DownWorker
    <3>1. wk' = [wk EXCEPT ![p] = x]
      BY <1>2, <2>3 DEF AfterDeletion
    <3>2. x \in WorkerRecord /\ Busy(x) /\ KeepsClaim(wk[p], x)
      BY <2>1, IdleTypes DEF KeepsClaim
    <3> HIDE DEF x
    <3>3. QED BY <1>2, <3>1, <3>2, WorkerMoves DEF IInv
  <2>4. QED BY <2>2, <2>3
<1>3. QED BY <1>1, <1>2

LEMMA EndDeletionMoves ==
    ASSUME IInv, NEW p \in Deleters, NEW ok \in BOOLEAN, EndDeletion(p, ok)
    PROVE  /\ del' \in [Deleters -> DeletionRecord]
           /\ \A q \in Deleters : del'[q].pc \in {"files", "rows"} =>
                 \/ del[q].pc \in {"files", "rows"} /\ del'[q].group = del[q].group
                 \/ \A j \in del'[q].group : Reserved(job'[j]) \/ job'[j].status = "deleted"
<1> DEFINE x == IF del[p].alone THEN [NoDeletion EXCEPT !.pc = "reconcile"] ELSE NoDeletion
<1>1. x \in DeletionRecord /\ x.pc \in {"none", "reconcile"}
  BY IdleTypes DEF DeletionRecord
<1>2. del' = [del EXCEPT ![p] = x]
  BY DEF EndDeletion
<1> HIDE DEF x
<1>3. QED BY <1>1, <1>2, DeleterMoves DEF IInv

LEMMA DeleteFilesFailsStep ==
    ASSUME IInv, NEW p \in Deleters, DeleteFilesFails(p)
    PROVE  IInv' /\ RowsStep
<1>1. job' \in [Jobs -> Row] /\ RowsInv' /\ RowsStep /\ \A k \in Jobs : SameClaim(job'[k], job[k])
  BY RowsUntouched DEF IInv, TypeOK, DeleteFilesFails, SameClaim
<1>2. EndDeletion(p, FALSE) /\ AfterDeletion(p, FALSE) /\ UNCHANGED sub
  BY DEF DeleteFilesFails, EndDeletion
<1>3. tree' \in [Jobs -> BOOLEAN] /\ faults' \in 0..MaxFaults
  BY FaultsAssumption DEF IInv, TypeOK, DeleteFilesFails
<1>4. QED BY <1>1, <1>2, <1>3, AfterDeletionMoves, EndDeletionMoves, Assembled

LEMMA DeleteRowsStep ==
    ASSUME IInv, NEW p \in Deleters, DeleteRows(p)
    PROVE  IInv' /\ RowsStep
<1> DEFINE left == {j \in del[p].group : Exists(j)}
           kept == \A j \in left : /\ job[j].status = "canceled"
                                   /\ job[j].reason = del[p].reason
           d == [BlankRow EXCEPT !.status = "deleted"]
<1>1. /\ d \in Row /\ d.status = "deleted" /\ d.worker = None /\ d.reason = "none"
      /\ d.batch = None
  BY BlankRows DEF Row
<1>2. RowInv(d)
  BY <1>1 DEF RowInv, Active, Unstarted, DeletionReasons
<1>3. job' = [j \in Jobs |-> IF kept /\ j \in left THEN d ELSE job[j]]
  <2>1. job' = IF kept THEN [j \in Jobs |-> IF j \in left THEN d ELSE job[j]] ELSE job
    BY DEF DeleteRows
  <2>2. job = [j \in Jobs |-> job[j]]
    BY DEF IInv, TypeOK
  <2>3. QED BY <2>1, <2>2
<1>4. \A j \in Jobs : /\ job[j] \in Row /\ RowInv(job[j]) /\ RowStep(job[j], job[j])
                      /\ SameClaim(job[j], job[j])
  BY DEF IInv, TypeOK, RowsInv, RowInv, RowStep, SameClaim, Active
<1>5. \A j \in Jobs : kept /\ j \in left => RowStep(job[j], d)
  BY <1>1 DEF RowStep, Active, DeletionReasons
<1> HIDE DEF d, left
<1>6. \A j \in Jobs : job'[j] = IF kept /\ j \in left THEN d ELSE job[j]
  BY <1>3
<1>7. job' \in [Jobs -> Row] /\ RowsInv' /\ RowsStep
  BY <1>1, <1>2, <1>3, <1>4, <1>5, <1>6 DEF RowsInv, RowsStep
<1>8. \A k \in Jobs : SameClaim(job'[k], job[k]) \/ job'[k].worker = None
  BY <1>1, <1>4, <1>6
<1>9. EndDeletion(p, kept) /\ AfterDeletion(p, kept) /\ UNCHANGED <<tree, sub, faults>>
  BY DEF DeleteRows, EndDeletion, left
<1> HIDE DEF kept
<1>10. QED
  <2>1. kept \in BOOLEAN
    BY DEF kept
  <2>2. tree' \in [Jobs -> BOOLEAN] /\ faults' \in 0..MaxFaults
    BY <1>9 DEF IInv, TypeOK
  <2>3. QED BY <1>7, <1>8, <1>9, <2>1, <2>2, AfterDeletionMoves, EndDeletionMoves, Assembled

LEMMA ReconcileAfterDiscardStep ==
    ASSUME IInv, ReconcileAfterDiscard
    PROVE  IInv' /\ RowsStep
<1>1. /\ job' \in [Jobs -> Row] /\ RowsInv' /\ RowsStep
      /\ \A k \in Jobs : SameClaim(job'[k], job[k])
  BY RowsCoordinated DEF IInv, TypeOK, ReconcileAfterDiscard, SameButExpiry
<1>2. Submitter \in Deleters /\ del' = [del EXCEPT ![Submitter] = NoDeletion]
  BY DEF ReconcileAfterDiscard, Deleters
<1>3. tree' \in [Jobs -> BOOLEAN] /\ faults' \in 0..MaxFaults /\ UNCHANGED <<wk, sub>>
  BY DEF IInv, TypeOK, ReconcileAfterDiscard
<1>4. QED BY <1>1, <1>2, <1>3, IdleTypes, DeleterMoves, DeletersAndRows DEF IInv

LEMMA DiscardUploadStep ==
    ASSUME IInv, DiscardUpload
    PROVE  IInv' /\ RowsStep
<1> DEFINE j == sub.job
           r == [job[j] EXCEPT !.batch = None]
           rows == [job EXCEPT ![j].batch = None]
<1>1. j \in Jobs /\ UploadOK(sub)' /\ Submitter \in Deleters
  BY DEF IInv, TypeOK, DiscardUpload, UploadOK, NoUpload, Deleters
<1>2. tree' \in [Jobs -> BOOLEAN] /\ faults' \in 0..MaxFaults /\ UNCHANGED wk
  BY DEF IInv, TypeOK, DiscardUpload
<1>3. CASE /\ Exists(j) /\ job[j].status \notin Active
           /\ job[j].batch # None => job[j].status = "created"
  <2>1. /\ r \in Row /\ r.status = job[j].status /\ r.reason = job[j].reason
        /\ r.attempt = job[j].attempt /\ r.worker = job[j].worker /\ r.draft = job[j].draft
        /\ r.expiry = job[j].expiry /\ r.batch = None
    BY <1>1 DEF IInv, TypeOK, Row
  <2>2. rows = [job EXCEPT ![j] = r]
    OBVIOUS
  <2>3. Reserve(Submitter, rows, {j}, "owner_deleted", TRUE)
    BY <1>3 DEF DiscardUpload
  <2> HIDE DEF r, rows
  <2>4. rows \in [Jobs -> Row] /\ \A k \in Jobs : rows[k] = IF k = j THEN r ELSE job[k]
    BY <1>1, <2>1, <2>2 DEF IInv, TypeOK
  <2>5. RowInv(r) /\ SameClaim(r, job[j])
    BY <1>1, <2>1 DEF IInv, RowsInv, RowInv, SameClaim
  <2>6. \A k \in Jobs : /\ RowInv(rows[k]) /\ SameClaim(rows[k], job[k])
                        /\ rows[k].status = job[k].status /\ rows[k].reason = job[k].reason
    BY <2>1, <2>4, <2>5 DEF IInv, RowsInv, SameClaim
  <2>7. \A k \in {j} : rows[k].status \notin Active \cup {"deleted", "absent"}
    BY <1>1, <1>3, <2>6 DEF Exists
  <2>8. "owner_deleted" \in DeletionReasons /\ {j} \in SUBSET Jobs
    BY <1>1 DEF DeletionReasons
  <2> HIDE DEF j
  <2>9. QED BY <1>1, <1>2, <2>3, <2>4, <2>6, <2>7, <2>8, ReserveStep, DeletersAndRows
<1>4. CASE ~(/\ Exists(j) /\ job[j].status \notin Active
             /\ job[j].batch # None => job[j].status = "created")
  <2>1. UNCHANGED <<job, del>>
    BY <1>4 DEF DiscardUpload
  <2>2. QED BY <1>1, <1>2, <2>1, OnlyDeleters DEF IInv, TypeOK
<1>5. QED BY <1>3, <1>4

\* A process that dies forgets its deletion.
LEMMA CrashStep ==
    ASSUME IInv, SubmitterCrash \/ \E p \in Threads : ThreadCrash(p)
    PROVE  IInv' /\ RowsStep
<1>1. PICK p \in Deleters : del' = [del EXCEPT ![p] = NoDeletion]
  BY DEF SubmitterCrash, ThreadCrash, Deleters
<1>2. /\ tree' \in [Jobs -> BOOLEAN] /\ faults' \in 0..MaxFaults /\ UNCHANGED <<job, wk>>
      /\ sub' = sub \/ sub' = NoUpload
  BY FaultsAssumption DEF IInv, TypeOK, SubmitterCrash, ThreadCrash
<1>3. UploadOK(NoUpload)
  BY DEF UploadOK, NoUpload
<1>4. QED BY <1>1, <1>2, <1>3, IdleTypes, DeleterMoves, OnlyDeleters DEF IInv

LEMMA DeleteRequestStep ==
    ASSUME IInv, NEW p \in Threads, NEW j \in Jobs, DeleteRequest(p, j)
    PROVE  IInv' /\ RowsStep
<1>1. /\ job' \in [Jobs -> Row] /\ RowsInv' /\ RowsStep
      /\ \A k \in Jobs : SameClaim(job'[k], job[k])
  BY RowsCoordinated DEF IInv, TypeOK, DeleteRequest, SameButExpiry
<1> DEFINE pc == IF job'[j].status \in Active /\ job'[j].expiry # "due" THEN "cancel" ELSE "remove"
           x == [NoDeletion EXCEPT !.group = {j}, !.pc = pc]
<1>2. x \in DeletionRecord /\ x.pc \in {"cancel", "remove"}
  BY IdleTypes DEF DeletionRecord
<1>3. p \in Deleters /\ del' = [del EXCEPT ![p] = x]
  BY DEF DeleteRequest, Deleters
<1> HIDE DEF x
<1>4. tree' \in [Jobs -> BOOLEAN] /\ faults' \in 0..MaxFaults /\ UNCHANGED <<wk, sub>>
  BY DEF IInv, TypeOK, DeleteRequest
<1>5. QED BY <1>1, <1>2, <1>3, <1>4, DeleterMoves, DeletersAndRows DEF IInv

LEMMA CancelForDeleteStep ==
    ASSUME IInv, NEW p \in Threads, CancelForDelete(p)
    PROVE  IInv' /\ RowsStep
<1>1. p \in Deleters /\ del[p].group \subseteq Jobs
  BY DEF IInv, TypeOK, DeletionRecord, Deleters
<1>2. PICK j \in del[p].group : CancelEffect(j, "owner_delete")
  BY DEF CancelForDelete
<1>3. /\ job' \in [Jobs -> Row] /\ RowsInv' /\ RowsStep
      /\ \A k \in Jobs : SameClaim(job'[k], job[k]) \/ job'[k].worker = None
  BY <1>1, <1>2, CancelEffectRows
<1>4. /\ tree' \in [Jobs -> BOOLEAN] /\ faults' \in 0..MaxFaults /\ UNCHANGED <<wk, sub>>
      /\ del' = [del EXCEPT ![p] = NoDeletion]
  BY DEF IInv, TypeOK, CancelForDelete
<1>5. QED BY <1>1, <1>3, <1>4, IdleTypes, DeleterMoves, DeletersAndRows DEF IInv

\* Reserving the group of an existing job with no active member.
LEMMA ReserveGroup ==
    ASSUME IInv, NEW p \in Deleters, NEW j \in Jobs, Removable(j),
           NEW reason \in DeletionReasons, Reserve(p, job, Members(job, j), reason, FALSE)
    PROVE  /\ job' \in [Jobs -> Row] /\ RowsInv' /\ RowsStep
           /\ \A k \in Jobs : SameClaim(job'[k], job[k]) \/ job'[k].worker = None
           /\ del' \in [Deleters -> DeletionRecord]
           /\ \A q \in Deleters : del'[q].pc \in {"files", "rows"} =>
                 \/ del[q].pc \in {"files", "rows"} /\ del'[q].group = del[q].group
                 \/ \A k \in del'[q].group : Reserved(job'[k]) \/ job'[k].status = "deleted"
<1>1. job \in [Jobs -> Row] /\ \A k \in Jobs : RowInv(job[k]) /\ SameClaim(job[k], job[k])
  BY DEF IInv, TypeOK, RowsInv, SameClaim
<1>2. /\ Members(job, j) \in SUBSET Jobs
      /\ \A k \in Members(job, j) : job[k].status \notin Active \cup {"deleted", "absent"}
  BY <1>1, MembersExist DEF Removable, Exists
<1>3. QED BY <1>1, <1>2, ReserveStep

LEMMA RemoveRequestedStep ==
    ASSUME IInv, NEW p \in Threads, RemoveRequested(p)
    PROVE  IInv' /\ RowsStep
<1>1. p \in Deleters /\ del[p].group \subseteq Jobs
  BY DEF IInv, TypeOK, DeletionRecord, Deleters
<1>2. tree' \in [Jobs -> BOOLEAN] /\ faults' \in 0..MaxFaults /\ UNCHANGED <<wk, sub>>
  BY DEF IInv, TypeOK, RemoveRequested
<1>3. PICK j \in del[p].group :
         IF Removable(j) THEN Reserve(p, job, Members(job, j), "owner_deleted", FALSE)
         ELSE del' = [del EXCEPT ![p] = NoDeletion] /\ UNCHANGED job
  BY DEF RemoveRequested
<1>4. CASE Removable(j)
  <2>1. "owner_deleted" \in DeletionReasons
    BY DEF DeletionReasons
  <2>2. QED BY <1>1, <1>2, <1>3, <1>4, <2>1, ReserveGroup, DeletersAndRows
<1>5. CASE ~Removable(j)
  BY <1>1, <1>2, <1>3, <1>5, IdleTypes, DeleterMoves, OnlyDeleters DEF IInv
<1>6. QED BY <1>4, <1>5

LEMMA ListExpiredStep ==
    ASSUME IInv, NEW p \in Deleters, ListExpired(p)
    PROVE  IInv' /\ RowsStep
<1>1. /\ job' \in [Jobs -> Row] /\ RowsInv' /\ RowsStep
      /\ \A k \in Jobs : SameClaim(job'[k], job[k])
  BY RowsCoordinated DEF IInv, TypeOK, ListExpired, SameButExpiry
<1>2. QED BY <1>1, OnlyRows DEF IInv, TypeOK, ListExpired

LEMMA SweepStaleStep ==
    ASSUME IInv, NEW p \in Deleters, NEW j \in Jobs, SweepStale(p, j)
    PROVE  IInv' /\ RowsStep
<1>1. Removable(j) /\ Reserve(p, job, Members(job, j), "active_lifetime_expired", FALSE)
  BY DEF SweepStale, StaleUnfinished, Removable, Exists, Unstarted
<1>2. tree' \in [Jobs -> BOOLEAN] /\ faults' \in 0..MaxFaults /\ UNCHANGED <<wk, sub>>
  BY DEF IInv, TypeOK, SweepStale
<1>3. "active_lifetime_expired" \in DeletionReasons
  BY DEF DeletionReasons
<1>4. QED BY <1>1, <1>2, <1>3, ReserveGroup, DeletersAndRows

LEMMA SweepExpiredStep ==
    ASSUME IInv, NEW p \in Deleters, NEW j \in Jobs, SweepExpired(p, j)
    PROVE  IInv' /\ RowsStep
<1> DEFINE rows == Coordinate(job, j)
           M == Members(rows, j)
<1>1. tree' \in [Jobs -> BOOLEAN] /\ faults' \in 0..MaxFaults /\ UNCHANGED <<wk, sub, faults>>
  BY DEF IInv, TypeOK, SweepExpired
<1>2. CASE \A m \in M : rows[m].status \in Terminal /\ rows[m].expiry = "due"
  <2>1. /\ rows \in [Jobs -> Row]
        /\ \A k \in Jobs : /\ SameButExpiry(rows[k], job[k])
                           /\ job[k].status \notin Terminal => rows[k].expiry \in {job[k].expiry, "none"}
    BY CoordinateRows DEF IInv, TypeOK
  <2>2. Reserve(p, rows, M, "retention_expired", FALSE)
    BY <1>2 DEF SweepExpired
  <2>3. M \in SUBSET Jobs
    BY DEF Members
  <2> HIDE DEF rows, M
  <2>4. \A k \in Jobs : /\ RowInv(rows[k]) /\ SameClaim(rows[k], job[k])
                        /\ rows[k].status = job[k].status /\ rows[k].reason = job[k].reason
    <3>1. \A k \in Jobs : job[k] \in Row /\ rows[k] \in Row /\ RowInv(job[k])
      BY <2>1 DEF IInv, TypeOK, RowsInv
    <3>2. QED BY <2>1, <3>1, ExpiryIrrelevant DEF SameButExpiry
  <2>5. \A k \in M : rows[k].status \notin Active \cup {"deleted", "absent"}
    BY <1>2 DEF Terminal, Active
  <2>6. "retention_expired" \in DeletionReasons
    BY DEF DeletionReasons
  <2>7. QED BY <1>1, <2>1, <2>2, <2>3, <2>4, <2>5, <2>6, ReserveStep, DeletersAndRows
<1>3. CASE ~(\A m \in M : rows[m].status \in Terminal /\ rows[m].expiry = "due")
  <2>1. job' = Coordinate(job, j) /\ UNCHANGED del
    BY <1>3 DEF SweepExpired
  <2>2. /\ job' \in [Jobs -> Row] /\ RowsInv' /\ RowsStep
        /\ \A k \in Jobs : SameClaim(job'[k], job[k])
    BY <2>1, RowsCoordinated DEF IInv, TypeOK, SameButExpiry
  <2> HIDE DEF rows, M
  <2>3. QED BY <1>1, <2>1, <2>2, OnlyRows
<1>4. QED BY <1>2, <1>3

-----------------------------------------------------------------------------
(* The worker                                                              *)

\* A stale row is canceled, requeued or failed, without its worker.
LEMMA RecoveredRow ==
    ASSUME NEW r \in Row, RowInv(r), r.status \in Active
    PROVE  /\ Recovered(r) \in Row /\ RowInv(Recovered(r)) /\ RowStep(r, Recovered(r))
           /\ Recovered(r).worker = None
<1> DEFINE l == Logged(r)
           n == [l EXCEPT !.worker = None, !.fresh = FALSE, !.reason = "none"]
           c == [n EXCEPT !.status = "canceled", !.stageStatus = "canceled", !.expiry = "later"]
           q == [n EXCEPT !.status = "queued", !.stageStatus = "pending", !.expiry = "none"]
           f == [n EXCEPT !.status = "failed", !.stageStatus = "failed", !.expiry = "later",
                          !.reason = "failure"]
<1>1. Recovered(r) = IF r.status = "cancel_requested" THEN c
                     ELSE IF r.attempt < MaxAttempts THEN q ELSE f
  BY DEF Recovered
<1>2. l \in Row /\ l.attempt = r.attempt
  BY LoggedRow
<1> HIDE DEF l
<1>3. n \in Row /\ n.worker = None /\ n.reason = "none" /\ n.attempt = r.attempt
  BY <1>2 DEF Row
<1> HIDE DEF n
<1>4. c \in Row /\ c.status = "canceled" /\ c.worker = None /\ c.reason = "none"
  BY <1>3 DEF Row, Terminal
<1>5. /\ q \in Row /\ q.status = "queued" /\ q.worker = None /\ q.reason = "none"
      /\ q.expiry = "none" /\ q.attempt = r.attempt
  BY <1>3 DEF Row, Unstarted
<1>6. f \in Row /\ f.status = "failed" /\ f.worker = None /\ f.reason = "failure"
  BY <1>3 DEF Row, Terminal
<1> HIDE DEF c, q, f
<1>7. /\ RowInv(c) /\ RowInv(f) /\ (r.attempt < MaxAttempts => RowInv(q))
  BY <1>4, <1>5, <1>6 DEF RowInv, Active, Unstarted, DeletionReasons
<1>8. /\ RowStep(r, c)
      /\ r.status # "cancel_requested" => RowStep(r, f) /\ RowStep(r, q)
  BY <1>4, <1>5, <1>6 DEF RowInv, RowStep, Active, DeletionReasons
<1>9. QED BY <1>1, <1>4, <1>5, <1>6, <1>7, <1>8

LEMMA RecoverRunningJobsStep ==
    ASSUME IInv, NEW w \in Workers, RecoverRunningJobs(w)
    PROVE  IInv' /\ RowsStep
<1> DEFINE stale == {j \in Jobs : job[j].status \in Active /\ ~job[j].fresh}
           rows == [j \in Jobs |-> IF j \in stale THEN Recovered(job[j]) ELSE job[j]]
           x == [wk[w] EXCEPT !.pc = "maintain"]
<1>1. \A r \in Row : RowInv(r) /\ r.status \in Active =>
         /\ Recovered(r) \in Row /\ RowInv(Recovered(r)) /\ RowStep(r, Recovered(r))
         /\ Recovered(r).worker = None
  BY RecoveredRow
<1>2. /\ job \in [Jobs -> Row] /\ stale \in SUBSET Jobs
      /\ \A k \in Jobs : /\ job[k] \in Row /\ RowInv(job[k]) /\ RowStep(job[k], job[k])
                         /\ SameClaim(job[k], job[k])
  BY DEF IInv, TypeOK, RowsInv, RowInv, RowStep, SameClaim, Active
<1>3. \A k \in stale : job[k].status \in Active
  OBVIOUS
<1>4. job' = CoordinateBatches(rows, stale)
  BY DEF RecoverRunningJobs
<1>5. x \in WorkerRecord /\ Busy(x) /\ KeepsClaim(wk[w], x) /\ wk' = [wk EXCEPT ![w] = x]
  BY DEF IInv, TypeOK, WorkerRecord, WorkerStates, Busy, KeepsClaim, RecoverRunningJobs
<1> HIDE DEF stale, x
<1>6. /\ rows \in [Jobs -> Row]
      /\ \A k \in Jobs : /\ RowInv(rows[k]) /\ RowStep(job[k], rows[k])
                         /\ SameClaim(rows[k], job[k]) \/ rows[k].worker = None
  BY <1>1, <1>2, <1>3
<1> HIDE DEF rows
<1>7. /\ job' \in [Jobs -> Row]
      /\ \A k \in Jobs :
            /\ SameButExpiry(job'[k], rows[k])
            /\ rows[k].status \notin Terminal => job'[k].expiry \in {rows[k].expiry, "none"}
  BY <1>2, <1>4, <1>6, CoordinateBatchesRows
<1>8. \A k \in Jobs : RowInv(job'[k]) /\ RowStep(job[k], job'[k]) /\ SameClaim(job'[k], rows[k])
  BY <1>2, <1>6, <1>7, ExpiryIrrelevant
<1>9. \A k \in Jobs : SameClaim(job'[k], job[k]) \/ job'[k].worker = None
  BY <1>6, <1>8 DEF SameClaim
<1>10. tree' \in [Jobs -> BOOLEAN] /\ UNCHANGED <<del, sub, faults>>
  BY DEF IInv, TypeOK, RecoverRunningJobs
<1>11. QED BY <1>5, <1>7, <1>8, <1>9, <1>10, WorkerAndRows DEF RowsInv, RowsStep

\* A worker step that writes no row and starts no deletion.
LEMMA WorkerAlone ==
    ASSUME IInv, NEW w \in Workers, NEW x \in WorkerRecord,
           wk' = [wk EXCEPT ![w] = x], Busy(x), KeepsClaim(wk[w], x),
           tree' \in [Jobs -> BOOLEAN], UNCHANGED <<job, del, sub, faults>>
    PROVE  IInv' /\ RowsStep
<1>1. job' \in [Jobs -> Row] /\ RowsInv' /\ RowsStep /\ \A k \in Jobs : SameClaim(job'[k], job[k])
  BY RowsUntouched DEF IInv, TypeOK, SameClaim
<1>2. QED BY <1>1, WorkerAndRows

\* A worker step that writes the row of its claim.
LEMMA WorkerWrites ==
    ASSUME IInv, NEW w \in Workers, NEW x \in WorkerRecord,
           wk' = [wk EXCEPT ![w] = x], Busy(x), KeepsClaim(wk[w], x),
           NEW j \in Jobs, NEW r \in Row, Put(j, r), RowInv(r), RowStep(job[j], r),
           SameClaim(r, job[j]) \/ r.worker = None,
           tree' \in [Jobs -> BOOLEAN], UNCHANGED <<del, sub, faults>>
    PROVE  IInv' /\ RowsStep
<1>1. /\ job' \in [Jobs -> Row] /\ RowsInv'
      /\ \A k \in Jobs : RowStep(job[k], job'[k])
      /\ \A k \in Jobs : SameClaim(job'[k], IF k = j THEN r ELSE job[k])
  BY PutRows DEF IInv, TypeOK
<1>2. \A k \in Jobs : SameClaim(job'[k], job[k]) \/ job'[k].worker = None
  BY <1>1 DEF SameClaim
<1>3. QED BY <1>1, <1>2, WorkerAndRows DEF RowsStep

LEMMA EndMaintenanceStep ==
    ASSUME IInv, NEW w \in Workers, EndMaintenance(w)
    PROVE  IInv' /\ RowsStep
BY IdleTypes, WorkerAlone DEF EndMaintenance, KeepsClaim, IInv, TypeOK

LEMMA ClaimNextStep ==
    ASSUME IInv, NEW w \in Workers, NEW j \in Jobs, ClaimNext(w, j)
    PROVE  IInv' /\ RowsStep
<1> DEFINE n == Logged(job[j])
           r == [n EXCEPT !.status = "running", !.stageStatus = "running", !.attempt = @ + 1,
                          !.worker = w, !.fresh = TRUE, !.reason = "none"]
           x == [IdleWorker EXCEPT !.pc = "claimed", !.job = j, !.attempt = job[j].attempt + 1]
<1>1. /\ job[j] \in Row /\ RowInv(job[j]) /\ job[j].status = "queued"
      /\ job[j].attempt < MaxAttempts /\ job[j].attempt \in 0..MaxAttempts
  BY DEF IInv, TypeOK, RowsInv, ClaimNext, Row
<1>2. job[j].attempt + 1 \in 0..MaxAttempts
  BY <1>1, AttemptsAssumption
<1>3. n \in Row /\ n.attempt = job[j].attempt
  BY <1>1, LoggedRow
<1>4. Put(j, r) /\ wk' = [wk EXCEPT ![w] = x]
  BY DEF ClaimNext
<1> HIDE DEF n
<1>5. /\ r \in Row /\ r.status = "running" /\ r.worker = w /\ r.reason = "none"
      /\ r.attempt = job[j].attempt + 1
  BY <1>2, <1>3 DEF Row, Active
<1>6. /\ x \in WorkerRecord /\ Busy(x) /\ x.job = j /\ x.attempt = job[j].attempt + 1
      /\ x.pc \notin Publishing
  BY <1>2, IdleTypes, NamesAssumption DEF WorkerRecord, WorkerStates, Busy, Publishing
<1> HIDE DEF r, x
<1>7. RowInv(r) /\ RowStep(job[j], r)
  BY <1>1, <1>5, NamesAssumption DEF RowInv, RowStep, Active, Unstarted, DeletionReasons
<1>8. /\ job' \in [Jobs -> Row] /\ RowsInv' /\ RowsStep
      /\ \A k \in Jobs : SameClaim(job'[k], IF k = j THEN r ELSE job[k])
  BY <1>4, <1>5, <1>7, PutRows DEF IInv, TypeOK, RowsStep
<1>9. \A v \in Workers : wk'[v] = IF v = w THEN x ELSE wk[v]
  BY <1>4 DEF IInv, TypeOK
<1>10. ClaimInv'
  <2> SUFFICES ASSUME NEW v \in Workers, NEW k \in Jobs, wk'[v].job = k, job'[k].worker = v
               PROVE  /\ wk'[v].attempt = job'[k].attempt
                      /\ wk'[v].pc \in Publishing => job'[k].draft = job'[k].attempt
    BY DEF ClaimInv
  <2>1. CASE k = j
    BY <1>5, <1>6, <1>8, <1>9, <2>1 DEF SameClaim
  <2>2. CASE k # j
    BY <1>6, <1>8, <1>9, <2>2 DEF SameClaim, IInv, ClaimInv
  <2>3. QED BY <2>1, <2>2
<1>11. /\ wk' \in [Workers -> WorkerRecord] /\ \A v \in Workers : Busy(wk'[v])
  BY <1>4, <1>6, <1>9 DEF IInv, TypeOK, Busy
<1>12. /\ tree' \in [Jobs -> BOOLEAN] /\ UNCHANGED <<del, sub>> /\ faults' \in 0..MaxFaults
       /\ del' \in [Deleters -> DeletionRecord]
  BY DEF IInv, TypeOK, ClaimNext
<1>13. QED BY <1>8, <1>10, <1>11, <1>12, Assembled

\* The row of a busy worker, and the worker's moves that keep the job.
LEMMA WorkerKnowsJob ==
    ASSUME IInv, NEW w \in Workers, wk[w].pc \notin {"down", "starting", "idle", "maintain"}
    PROVE  /\ wk[w] \in WorkerRecord /\ Busy(wk[w]) /\ wk[w].job \in Jobs
           /\ job[wk[w].job] \in Row /\ RowInv(job[wk[w].job])
BY DEF IInv, TypeOK, WorkerRecord, Busy, RowsInv

LEMMA RaisedStep ==
    ASSUME IInv, NEW w \in Workers, NEW retryable \in BOOLEAN,
           wk[w].pc \notin {"down", "starting", "idle", "maintain"},
           Raised(w, retryable), tree' \in [Jobs -> BOOLEAN], UNCHANGED <<job, del, sub, faults>>
    PROVE  IInv' /\ RowsStep
<1> DEFINE x == [wk[w] EXCEPT !.pc = "handler", !.retryable = retryable, !.seen = FALSE]
<1>1. wk' = [wk EXCEPT ![w] = x]
  BY DEF Raised
<1>2. wk[w] \in WorkerRecord /\ Busy(wk[w])
  BY WorkerKnowsJob
<1>3. x \in WorkerRecord /\ Busy(x) /\ KeepsClaim(wk[w], x)
  BY <1>2 DEF WorkerRecord, WorkerStates, Busy, KeepsClaim, Publishing
<1> HIDE DEF x
<1>4. QED BY <1>1, <1>3, WorkerAlone

LEMMA StagedType ==
    ASSUME NEW n \in Row, NEW stage \in Stages, NEW to \in {"running", "succeeded"}
    PROVE  [n EXCEPT !.stage = stage, !.stageStatus = to, !.fresh = TRUE] \in Row
BY DEF Row

LEMMA StagedRow ==
    ASSUME NEW r \in Row, RowInv(r), r.status = "running", NEW stage \in Stages,
           NEW to \in {"running", "succeeded"}
    PROVE  /\ Staged(r, stage, to) \in Row /\ RowInv(Staged(r, stage, to))
           /\ RowStep(r, Staged(r, stage, to)) /\ SameClaim(Staged(r, stage, to), r)
<1> DEFINE n == Logged(r)
           q == [n EXCEPT !.stage = stage, !.stageStatus = to, !.fresh = TRUE]
<1>1. n \in Row /\ n.status = "running" /\ n.reason = r.reason /\ SameClaim(n, r)
  BY LoggedRow DEF SameClaim
<1>2. Staged(r, stage, to) = q
  BY DEF Staged
<1> HIDE DEF n
<1>3. q \in Row
  BY <1>1, StagedType
<1>4. q.status = "running" /\ q.reason = r.reason /\ SameClaim(q, r)
  BY <1>1 DEF Row, SameClaim
<1> HIDE DEF q
<1>5. RowInv(q) /\ RowStep(r, q)
  BY <1>4 DEF RowInv, RowStep, SameClaim, Active, Unstarted, DeletionReasons
<1>6. QED BY <1>2, <1>3, <1>4, <1>5

LEMMA SetStageStep ==
    ASSUME IInv, NEW w \in Workers, SetStage(w)
    PROVE  IInv' /\ RowsStep
<1> DEFINE j == wk[w].job
           s == Script[wk[w].pc]
           x == [wk[w] EXCEPT !.pc = s.next]
<1>1. wk[w].pc \in {"claimed", "probing", "quality", "qualified", "export", "writing"}
  BY DEF SetStage, Script
<1>2. /\ wk[w] \in WorkerRecord /\ Busy(wk[w]) /\ j \in Jobs
      /\ job[j] \in Row /\ RowInv(job[j])
  BY <1>1, WorkerKnowsJob
<1>3. tree' \in [Jobs -> BOOLEAN] /\ UNCHANGED <<del, sub, faults>>
  BY <1>2 DEF IInv, TypeOK, SetStage
<1>4. /\ s.stage \in Stages /\ s.as \in {"running", "succeeded"}
      /\ s.next \in {"probing", "probed", "replace", "export", "writing", "complete"}
      /\ s.next \in Publishing => wk[w].pc \in Publishing
  BY <1>1 DEF Script, Stages, Publishing
<1>5. CASE StageAllowed(w, j, s.stage) /\ (wk[w].pc = "claimed" => job[j].hasFile)
  <2>1. job[j].status = "running" /\ Put(j, Staged(job[j], s.stage, s.as))
    BY <1>5 DEF SetStage, StageAllowed
  <2>2. wk' = [wk EXCEPT ![w] = x]
    BY <1>5 DEF SetStage
  <2> HIDE DEF s
  <2>3. x \in WorkerRecord /\ Busy(x) /\ KeepsClaim(wk[w], x)
    BY <1>1, <1>2, <1>4 DEF WorkerRecord, WorkerStates, Busy, KeepsClaim
  <2> HIDE DEF x, j
  <2>4. QED BY <1>2, <1>3, <1>4, <2>1, <2>2, <2>3, StagedRow, WorkerWrites
<1>6. CASE ~(StageAllowed(w, j, s.stage) /\ (wk[w].pc = "claimed" => job[j].hasFile))
  <2>1. UNCHANGED job /\ Raised(w, FALSE)
    BY <1>6 DEF SetStage
  <2>2. QED BY <1>1, <1>3, <2>1, RaisedStep
<1>7. QED BY <1>5, <1>6

LEMMA ProcessRaisesStep ==
    ASSUME IInv, NEW w \in Workers, NEW retryable \in BOOLEAN, ProcessRaises(w, retryable)
    PROVE  IInv' /\ RowsStep
BY RaisedStep DEF ProcessRaises, IInv, TypeOK

LEMMA CheckCancelStep ==
    ASSUME IInv, NEW w \in Workers, CheckCancel(w)
    PROVE  IInv' /\ RowsStep
<1> DEFINE j == wk[w].job
           stop == job[j].status = "cancel_requested" \/ wk[w].seen
           pc == IF stop THEN "finishing"
                 ELSE IF wk[w].pc = "probed" THEN "pipeline" ELSE "quality"
           ack == job[j].status = "cancel_requested"
           x == [wk[w] EXCEPT !.pc = pc, !.ack = ack, !.seen = FALSE]
<1>1. wk[w].pc \in {"probed", "check"}
  BY DEF CheckCancel
<1>2. tree' \in [Jobs -> BOOLEAN] /\ UNCHANGED <<job, del, sub, faults>>
  BY DEF IInv, TypeOK, CheckCancel
<1>3. CASE ~Exists(j)
  BY <1>1, <1>2, <1>3, RaisedStep DEF CheckCancel
<1>4. CASE Exists(j)
  <2>1. wk' = [wk EXCEPT ![w] = x]
    BY <1>4 DEF CheckCancel
  <2>2. wk[w] \in WorkerRecord /\ Busy(wk[w])
    BY <1>1, WorkerKnowsJob
  <2>3. pc \in {"finishing", "pipeline", "quality"} /\ ack \in BOOLEAN
    OBVIOUS
  <2> HIDE DEF pc, ack
  <2>4. x \in WorkerRecord /\ Busy(x) /\ KeepsClaim(wk[w], x)
    BY <1>1, <2>2, <2>3 DEF WorkerRecord, WorkerStates, Busy, KeepsClaim, Publishing
  <2> HIDE DEF x
  <2>5. QED BY <1>2, <2>1, <2>4, WorkerAlone
<1>5. QED BY <1>3, <1>4

LEMMA ProgressStep ==
    ASSUME IInv, NEW w \in Workers, Progress(w)
    PROVE  IInv' /\ RowsStep
<1> DEFINE j == wk[w].job
           x == [wk[w] EXCEPT !.seen = TRUE]
<1>1. /\ wk[w].pc = "pipeline" /\ wk[w] \in WorkerRecord /\ Busy(wk[w]) /\ j \in Jobs
      /\ job[j] \in Row /\ RowInv(job[j])
  BY WorkerKnowsJob DEF Progress
<1>2. tree' \in [Jobs -> BOOLEAN] /\ UNCHANGED <<del, sub, faults>>
  BY DEF IInv, TypeOK, Progress
<1>3. x \in WorkerRecord /\ Busy(x) /\ KeepsClaim(wk[w], x) /\ KeepsClaim(wk[w], wk[w])
  BY <1>1 DEF WorkerRecord, Busy, KeepsClaim
<1>4. CASE UNCHANGED job /\ wk' = [wk EXCEPT ![w].seen = TRUE]
  <2>1. wk' = [wk EXCEPT ![w] = x]
    BY <1>4
  <2> HIDE DEF x
  <2>2. QED BY <1>2, <1>3, <1>4, <2>1, WorkerAlone
<1>5. CASE UNCHANGED job /\ Raised(w, FALSE)
  BY <1>1, <1>2, <1>5, RaisedStep
<1>6. CASE StageAllowed(w, j, "transcribe") /\ UNCHANGED wk
           /\ Put(j, Staged(job[j], "transcribe", "running"))
  <2>1. wk' = [wk EXCEPT ![w] = wk[w]]
    BY <1>6 DEF IInv, TypeOK
  <2>2. job[j].status = "running" /\ "transcribe" \in Stages
    BY <1>6 DEF StageAllowed, Stages
  <2> HIDE DEF j
  <2>3. QED BY <1>1, <1>2, <1>3, <1>6, <2>1, <2>2, StagedRow, WorkerWrites
<1>7. QED BY <1>4, <1>5, <1>6 DEF Progress

\* A row whose flags change and nothing else.
LEMMA FlagRow ==
    ASSUME NEW r \in Row, RowInv(r), NEW b \in BOOLEAN
    PROVE  /\ \A q \in {[r EXCEPT !.fresh = b], [r EXCEPT !.old = b]} :
                 q \in Row /\ RowInv(q) /\ RowStep(r, q) /\ SameClaim(q, r)
<1>1. \A q \in {[r EXCEPT !.fresh = b], [r EXCEPT !.old = b]} :
         /\ q \in Row /\ SameClaim(q, r) /\ q.status = r.status /\ q.reason = r.reason
         /\ q.batch = r.batch /\ q.expiry = r.expiry
  BY DEF Row, SameClaim
<1>2. QED BY <1>1 DEF RowInv, RowStep, SameClaim, Active

LEMMA HeartbeatStep ==
    ASSUME IInv, NEW w \in Workers, Heartbeat(w)
    PROVE  IInv' /\ RowsStep
<1> DEFINE j == wk[w].job
           r == [job[j] EXCEPT !.fresh = TRUE]
           seen == wk[w].seen \/ job[j].status = "cancel_requested"
           x == [wk[w] EXCEPT !.seen = seen]
<1>1. /\ wk[w].pc = "pipeline" /\ wk[w] \in WorkerRecord /\ Busy(wk[w]) /\ j \in Jobs
      /\ job[j] \in Row /\ RowInv(job[j])
  BY WorkerKnowsJob DEF Heartbeat
<1>2. tree' \in [Jobs -> BOOLEAN] /\ UNCHANGED <<del, sub, faults>>
  BY DEF IInv, TypeOK, Heartbeat
<1>3. job' = [job EXCEPT ![j] = r]
  BY DEF Heartbeat
<1>4. wk' = [wk EXCEPT ![w] = x]
  BY <1>1 DEF Heartbeat, WorkerRecord
<1>5. r \in Row /\ RowInv(r) /\ RowStep(job[j], r) /\ SameClaim(r, job[j])
  BY <1>1, FlagRow
<1>6. seen \in BOOLEAN
  BY <1>1 DEF WorkerRecord
<1> HIDE DEF seen, r
<1>7. x \in WorkerRecord /\ Busy(x) /\ KeepsClaim(wk[w], x)
  BY <1>1, <1>6 DEF WorkerRecord, Busy, KeepsClaim
<1> HIDE DEF x, j
<1>8. job' \in [Jobs -> Row] /\ RowsInv' /\ RowsStep /\ \A k \in Jobs : SameClaim(job'[k], job[k])
  BY <1>1, <1>3, <1>5, RowWritten DEF IInv, TypeOK
<1>9. QED BY <1>2, <1>4, <1>7, <1>8, WorkerAndRows

LEMMA PipelineReturnsStep ==
    ASSUME IInv, NEW w \in Workers, PipelineReturns(w)
    PROVE  IInv' /\ RowsStep
<1> DEFINE x == [wk[w] EXCEPT !.pc = "check"]
<1>1. wk[w].pc = "pipeline" /\ wk[w] \in WorkerRecord /\ Busy(wk[w])
  BY WorkerKnowsJob DEF PipelineReturns
<1>2. x \in WorkerRecord /\ Busy(x) /\ KeepsClaim(wk[w], x)
  BY <1>1 DEF WorkerRecord, WorkerStates, Busy, KeepsClaim, Publishing
<1>3. wk' = [wk EXCEPT ![w] = x]
  BY DEF PipelineReturns
<1> HIDE DEF x
<1>4. QED BY <1>2, <1>3, WorkerAlone DEF PipelineReturns, IInv, TypeOK

LEMMA ReplaceSegmentsStep ==
    ASSUME IInv, NEW w \in Workers, ReplaceSegments(w)
    PROVE  IInv' /\ RowsStep
<1> DEFINE j == wk[w].job
           n == Logged(job[j])
           r == [n EXCEPT !.draft = wk[w].attempt]
           x == [wk[w] EXCEPT !.pc = "qualified"]
<1>1. /\ wk[w].pc = "replace" /\ wk[w] \in WorkerRecord /\ Busy(wk[w]) /\ j \in Jobs
      /\ job[j] \in Row /\ RowInv(job[j])
  BY WorkerKnowsJob DEF ReplaceSegments
<1>2. /\ tree' \in [Jobs -> BOOLEAN] /\ UNCHANGED <<del, sub, faults>>
      /\ faults' \in 0..MaxFaults /\ del' \in [Deleters -> DeletionRecord]
  BY DEF IInv, TypeOK, ReplaceSegments
<1>3. CASE Holds(w, j) /\ job[j].status = "running"
  <2>1. job' = [job EXCEPT ![j] = r] /\ wk' = [wk EXCEPT ![w] = x]
    BY <1>3 DEF ReplaceSegments
  <2>2. wk[w].attempt \in 0..MaxAttempts
    BY <1>1 DEF WorkerRecord
  <2>3. n \in Row /\ n.status = "running" /\ n.reason = job[j].reason /\ SameClaim(n, job[j])
    BY <1>1, <1>3, LoggedRow DEF SameClaim
  <2> HIDE DEF n
  <2>4. /\ r \in Row /\ r.status = "running" /\ r.reason = job[j].reason
        /\ r.worker = job[j].worker /\ r.attempt = job[j].attempt /\ r.draft = wk[w].attempt
    BY <2>2, <2>3 DEF Row, SameClaim
  <2> HIDE DEF r
  <2>5. RowInv(r) /\ RowStep(job[j], r)
    BY <1>1, <1>3, <2>4 DEF RowInv, RowStep, Active, Unstarted
  <2>6. /\ x \in WorkerRecord /\ Busy(x) /\ x.job = j /\ x.attempt = wk[w].attempt
    BY <1>1 DEF WorkerRecord, WorkerStates, Busy
  <2> HIDE DEF x
  <2>7. \A k \in Jobs : /\ job'[k] = IF k = j THEN r ELSE job[k]
                        /\ job[k] \in Row /\ RowInv(job[k]) /\ RowStep(job[k], job[k])
    BY <2>1 DEF IInv, TypeOK, RowsInv, RowInv, RowStep, Active
  <2>8. job' \in [Jobs -> Row] /\ RowsInv' /\ RowsStep
    BY <1>1, <2>1, <2>4, <2>5, <2>7 DEF IInv, TypeOK, RowsInv, RowsStep
  <2>9. \A v \in Workers : wk'[v] = IF v = w THEN x ELSE wk[v]
    BY <2>1 DEF IInv, TypeOK
  <2>10. ClaimInv'
    <3> SUFFICES ASSUME NEW v \in Workers, NEW k \in Jobs, wk'[v].job = k, job'[k].worker = v
                 PROVE  /\ wk'[v].attempt = job'[k].attempt
                        /\ wk'[v].pc \in Publishing => job'[k].draft = job'[k].attempt
      BY DEF ClaimInv
    <3>1. wk[w].attempt = job[j].attempt
      BY <1>1, <1>3 DEF IInv, ClaimInv, Holds
    <3>2. CASE k = j
      <4>1. v = w
        BY <1>3, <2>4, <2>7, <3>2 DEF Holds
      <4>2. QED BY <2>4, <2>6, <2>7, <2>9, <3>1, <3>2, <4>1
    <3>3. CASE k # j
      BY <2>6, <2>7, <2>9, <3>3 DEF IInv, ClaimInv
    <3>4. QED BY <3>2, <3>3
  <2>11. /\ wk' \in [Workers -> WorkerRecord] /\ \A v \in Workers : Busy(wk'[v])
    BY <2>1, <2>6, <2>9 DEF IInv, TypeOK, Busy
  <2>12. QED BY <1>2, <2>8, <2>10, <2>11, Assembled
<1>4. CASE ~(Holds(w, j) /\ job[j].status = "running")
  <2>1. UNCHANGED job /\ Raised(w, FALSE)
    BY <1>4 DEF ReplaceSegments
  <2>2. QED BY <1>1, <1>2, <2>1, RaisedStep
<1>5. QED BY <1>3, <1>4

LEMMA CompleteJobStep ==
    ASSUME IInv, NEW w \in Workers, CompleteJob(w)
    PROVE  IInv' /\ RowsStep
<1> DEFINE j == wk[w].job
           n == Logged(job[j])
           r == [n EXCEPT !.status = "succeeded", !.worker = None, !.fresh = FALSE,
                          !.expiry = "later", !.reason = "none"]
<1>1. /\ wk[w].pc = "complete" /\ wk[w] \in WorkerRecord /\ Busy(wk[w]) /\ j \in Jobs
      /\ job[j] \in Row /\ RowInv(job[j])
  BY WorkerKnowsJob DEF CompleteJob
<1>2. /\ tree' \in [Jobs -> BOOLEAN] /\ UNCHANGED <<del, sub, faults>>
  BY DEF IInv, TypeOK, CompleteJob
<1>3. CASE /\ Holds(w, j) /\ job[j].status = "running"
           /\ job[j].stage = "export" /\ job[j].stageStatus = "succeeded"
  <2>1. Put(j, r) /\ wk' = [wk EXCEPT ![w] = IdleWorker]
    BY <1>3 DEF CompleteJob
  <2>2. n \in Row /\ n.draft = job[j].draft /\ n.attempt = job[j].attempt
    BY <1>1, LoggedRow
  <2>3. job[j].draft = job[j].attempt
    BY <1>1, <1>3 DEF IInv, ClaimInv, Publishing, Holds
  <2> HIDE DEF n
  <2>4. /\ r \in Row /\ r.status = "succeeded" /\ r.worker = None /\ r.reason = "none"
        /\ r.draft = r.attempt
    BY <2>2, <2>3 DEF Row, Terminal
  <2> HIDE DEF r, j
  <2>5. RowInv(r) /\ RowStep(job[j], r)
    BY <1>1, <1>3, <2>4 DEF RowInv, RowStep, Active, Unstarted, DeletionReasons
  <2>6. KeepsClaim(wk[w], IdleWorker)
    BY IdleTypes DEF KeepsClaim
  <2>7. QED BY <1>1, <1>2, <2>1, <2>4, <2>5, <2>6, IdleTypes, WorkerWrites
<1>4. CASE ~(/\ Holds(w, j) /\ job[j].status = "running"
             /\ job[j].stage = "export" /\ job[j].stageStatus = "succeeded")
  <2>1. UNCHANGED job /\ Raised(w, FALSE)
    BY <1>4 DEF CompleteJob
  <2>2. QED BY <1>1, <1>2, <2>1, RaisedStep
<1>5. QED BY <1>3, <1>4

LEMMA FinishCancellationStep ==
    ASSUME IInv, NEW w \in Workers, NEW wanted \in BOOLEAN, FinishCancellation(w, wanted)
    PROVE  IInv' /\ RowsStep
<1> DEFINE j == wk[w].job
           d == [wk[w] EXCEPT !.pc = "delete"]
           done == IF wanted THEN d ELSE IdleWorker
           raised == AfterRaise(wk[w], Exists(j))
           n == Logged(job[j])
           r == [n EXCEPT !.status = "canceled", !.stageStatus = "canceled",
                          !.worker = None, !.fresh = FALSE, !.expiry = "later"]
<1>1. /\ wk[w].pc = "finishing" /\ wk[w] \in WorkerRecord /\ Busy(wk[w]) /\ j \in Jobs
      /\ job[j] \in Row /\ RowInv(job[j])
  BY WorkerKnowsJob DEF FinishCancellation
<1>2. /\ tree' \in [Jobs -> BOOLEAN] /\ UNCHANGED <<del, sub, faults>>
  BY DEF IInv, TypeOK, FinishCancellation
<1>3. d \in WorkerRecord /\ Busy(d) /\ KeepsClaim(wk[w], d)
  BY <1>1 DEF WorkerRecord, WorkerStates, Busy, KeepsClaim, Publishing
<1>4. done \in WorkerRecord /\ Busy(done) /\ KeepsClaim(wk[w], done)
  BY <1>3, IdleTypes DEF KeepsClaim
<1>5. raised \in WorkerRecord /\ Busy(raised) /\ KeepsClaim(wk[w], raised)
  BY <1>1, AfterRaiseMoves DEF Busy, Exists
<1>6. \/ /\ job[j].status = "cancel_requested" /\ Put(j, r)
         /\ wk' = [wk EXCEPT ![w] = done]
      \/ UNCHANGED job /\ wk' = [wk EXCEPT ![w] = done]
      \/ UNCHANGED job /\ wk' = [wk EXCEPT ![w] = raised]
  BY DEF FinishCancellation
<1>7. n \in Row /\ n.reason = job[j].reason
  BY <1>1, LoggedRow
<1> HIDE DEF n, done, raised
<1>8. r \in Row /\ r.status = "canceled" /\ r.worker = None /\ r.reason = job[j].reason
  BY <1>7 DEF Row, Terminal
<1> HIDE DEF r, j
<1>9. CASE /\ job[j].status = "cancel_requested" /\ Put(j, r)
           /\ wk' = [wk EXCEPT ![w] = done]
  <2>1. RowInv(r) /\ RowStep(job[j], r)
    BY <1>1, <1>8, <1>9 DEF RowInv, RowStep, Active, Unstarted
  <2>2. QED BY <1>1, <1>2, <1>4, <1>8, <1>9, <2>1, WorkerWrites
<1>10. CASE UNCHANGED job /\ wk' = [wk EXCEPT ![w] = done]
  BY <1>2, <1>4, <1>10, WorkerAlone
<1>11. CASE UNCHANGED job /\ wk' = [wk EXCEPT ![w] = raised]
  BY <1>2, <1>5, <1>11, WorkerAlone
<1>12. QED BY <1>6, <1>9, <1>10, <1>11

LEMMA DeleteCanceledStep ==
    ASSUME IInv, NEW w \in Workers, DeleteCanceled(w)
    PROVE  IInv' /\ RowsStep
<1> DEFINE j == wk[w].job
           x == [wk[w] EXCEPT !.pc = "deleting"]
           raised == AfterRaise(wk[w], Exists(j))
<1>1. /\ wk[w].pc = "delete" /\ wk[w] \in WorkerRecord /\ Busy(wk[w]) /\ j \in Jobs
      /\ w \in Deleters
  BY WorkerKnowsJob DEF DeleteCanceled, Deleters
<1>2. /\ tree' \in [Jobs -> BOOLEAN] /\ UNCHANGED <<sub, faults>> /\ faults' \in 0..MaxFaults
  BY DEF IInv, TypeOK, DeleteCanceled
<1>3. CASE Removable(j)
  <2>1. /\ Reserve(w, job, Members(job, j), "owner_deleted", FALSE)
        /\ wk' = [wk EXCEPT ![w] = x]
    BY <1>3 DEF DeleteCanceled
  <2>2. x \in WorkerRecord /\ Busy(x) /\ KeepsClaim(wk[w], x)
    BY <1>1 DEF WorkerRecord, WorkerStates, Busy, KeepsClaim, Publishing
  <2>3. "owner_deleted" \in DeletionReasons
    BY DEF DeletionReasons
  <2> HIDE DEF x, j
  <2>4. /\ job' \in [Jobs -> Row] /\ RowsInv' /\ RowsStep
        /\ \A k \in Jobs : SameClaim(job'[k], job[k]) \/ job'[k].worker = None
        /\ del' \in [Deleters -> DeletionRecord]
        /\ \A q \in Deleters : del'[q].pc \in {"files", "rows"} =>
              \/ del[q].pc \in {"files", "rows"} /\ del'[q].group = del[q].group
              \/ \A k \in del'[q].group : Reserved(job'[k]) \/ job'[k].status = "deleted"
    BY <1>1, <1>3, <2>1, <2>3, ReserveGroup
  <2>5. /\ wk' \in [Workers -> WorkerRecord] /\ (\A v \in Workers : Busy(wk'[v]))
        /\ ClaimInv'
    BY <2>1, <2>2, <2>4, WorkerMoves DEF IInv
  <2>6. QED BY <1>2, <2>4, <2>5, Assembled
<1>4. CASE ~Removable(j)
  <2>1. UNCHANGED <<job, del>> /\ wk' = [wk EXCEPT ![w] = raised]
    BY <1>4 DEF DeleteCanceled
  <2>2. raised \in WorkerRecord /\ Busy(raised) /\ KeepsClaim(wk[w], raised)
    BY <1>1, AfterRaiseMoves DEF Busy, Exists
  <2> HIDE DEF raised
  <2>3. QED BY <1>2, <2>1, <2>2, WorkerAlone
<1>5. QED BY <1>3, <1>4

LEMMA HandleExceptionStep ==
    ASSUME IInv, NEW w \in Workers, HandleException(w)
    PROVE  IInv' /\ RowsStep
<1> DEFINE f == [wk[w] EXCEPT !.pc = "finishing", !.inHandler = TRUE, !.ack = TRUE,
                              !.retryable = FALSE]
           g == [wk[w] EXCEPT !.pc = "failing"]
<1>1. wk[w].pc = "handler" /\ wk[w] \in WorkerRecord /\ Busy(wk[w])
  BY WorkerKnowsJob DEF HandleException
<1>2. f \in WorkerRecord /\ Busy(f) /\ KeepsClaim(wk[w], f)
  BY <1>1 DEF WorkerRecord, WorkerStates, Busy, KeepsClaim, Publishing
<1>3. g \in WorkerRecord /\ Busy(g) /\ KeepsClaim(wk[w], g)
  BY <1>1 DEF WorkerRecord, WorkerStates, Busy, KeepsClaim, Publishing
<1>4. PICK x \in {f, g, IdleWorker} : wk' = [wk EXCEPT ![w] = x]
  BY DEF HandleException
<1> HIDE DEF f, g
<1>5. x \in WorkerRecord /\ Busy(x) /\ KeepsClaim(wk[w], x)
  BY <1>2, <1>3, <1>4, IdleTypes DEF KeepsClaim
<1>6. QED BY <1>4, <1>5, WorkerAlone DEF HandleException, IInv, TypeOK

LEMMA FailJobStep ==
    ASSUME IInv, NEW w \in Workers, FailJob(w)
    PROVE  IInv' /\ RowsStep
<1> DEFINE j == wk[w].job
           l == Logged(job[j])
           n == [l EXCEPT !.worker = None, !.fresh = FALSE, !.reason = "failure"]
           m == Logged(n)
           c == [n EXCEPT !.status = "canceled", !.stageStatus = "canceled", !.expiry = "later"]
           q == [m EXCEPT !.status = "queued", !.stageStatus = "pending", !.expiry = "none"]
           f == [n EXCEPT !.status = "failed", !.stageStatus = "failed", !.expiry = "later"]
           x == IF Exists(j) /\ ~(Holds(w, j) /\ job[j].status \in Active)
                THEN DownWorker ELSE IdleWorker
<1>1. /\ wk[w].pc = "failing" /\ j \in Jobs /\ job[j] \in Row /\ RowInv(job[j])
  BY WorkerKnowsJob DEF FailJob
<1>2. /\ tree' \in [Jobs -> BOOLEAN] /\ UNCHANGED <<del, sub, faults>>
      /\ wk' = [wk EXCEPT ![w] = x]
  BY DEF IInv, TypeOK, FailJob
<1>3. x \in WorkerRecord /\ Busy(x) /\ KeepsClaim(wk[w], x)
  BY IdleTypes DEF KeepsClaim
<1>4. \/ job[j].status = "cancel_requested" /\ Put(j, c)
      \/ job[j].status = "running" /\ job[j].attempt < MaxAttempts /\ Put(j, q)
      \/ job[j].status = "running" /\ Put(j, f)
      \/ UNCHANGED job
  BY DEF FailJob
<1>5. l \in Row /\ l.attempt = job[j].attempt
  BY <1>1, LoggedRow
<1> HIDE DEF l, x
<1>6. n \in Row /\ n.worker = None /\ n.reason = "failure" /\ n.attempt = job[j].attempt
  BY <1>5 DEF Row
<1> HIDE DEF n
<1>7. m \in Row /\ m.worker = None /\ m.reason = "failure" /\ m.attempt = job[j].attempt
  BY <1>6, LoggedRow
<1> HIDE DEF m
<1>8. c \in Row /\ c.status = "canceled" /\ c.worker = None /\ c.reason = "failure"
  BY <1>6 DEF Row, Terminal
<1>9. /\ q \in Row /\ q.status = "queued" /\ q.worker = None /\ q.reason = "failure"
      /\ q.expiry = "none" /\ q.attempt = job[j].attempt
  BY <1>7 DEF Row, Unstarted
<1>10. f \in Row /\ f.status = "failed" /\ f.worker = None /\ f.reason = "failure"
  BY <1>6 DEF Row, Terminal
<1> HIDE DEF c, q, f, j
<1>11. CASE job[j].status = "cancel_requested" /\ Put(j, c)
  <2>1. RowInv(c) /\ RowStep(job[j], c)
    BY <1>1, <1>8, <1>11 DEF RowInv, RowStep, Active, Unstarted, DeletionReasons
  <2>2. QED BY <1>1, <1>2, <1>3, <1>8, <1>11, <2>1, WorkerWrites
<1>12. CASE job[j].status = "running" /\ job[j].attempt < MaxAttempts /\ Put(j, q)
  <2>1. RowInv(q) /\ RowStep(job[j], q)
    BY <1>1, <1>9, <1>12 DEF RowInv, RowStep, Active, Unstarted, DeletionReasons
  <2>2. QED BY <1>1, <1>2, <1>3, <1>9, <1>12, <2>1, WorkerWrites
<1>13. CASE job[j].status = "running" /\ Put(j, f)
  <2>1. RowInv(f) /\ RowStep(job[j], f)
    BY <1>1, <1>10, <1>13 DEF RowInv, RowStep, Active, Unstarted, DeletionReasons
  <2>2. QED BY <1>1, <1>2, <1>3, <1>10, <1>13, <2>1, WorkerWrites
<1>14. CASE UNCHANGED job
  BY <1>2, <1>3, <1>14, WorkerAlone
<1>15. QED BY <1>4, <1>11, <1>12, <1>13, <1>14

LEMMA WorkerCrashStep ==
    ASSUME IInv, NEW w \in Workers, WorkerCrash(w)
    PROVE  IInv' /\ RowsStep
<1>1. job' \in [Jobs -> Row] /\ RowsInv' /\ RowsStep /\ \A k \in Jobs : SameClaim(job'[k], job[k])
  BY RowsUntouched DEF IInv, TypeOK, WorkerCrash, SameClaim
<1>2. /\ wk' = [wk EXCEPT ![w] = DownWorker] /\ KeepsClaim(wk[w], DownWorker)
      /\ w \in Deleters /\ del' = [del EXCEPT ![w] = NoDeletion]
  BY IdleTypes DEF WorkerCrash, KeepsClaim, Deleters
<1>3. /\ wk' \in [Workers -> WorkerRecord] /\ (\A v \in Workers : Busy(wk'[v]))
      /\ ClaimInv'
  BY <1>1, <1>2, IdleTypes, WorkerMoves DEF IInv
<1>4. tree' \in [Jobs -> BOOLEAN] /\ faults' \in 0..MaxFaults /\ UNCHANGED sub
  BY FaultsAssumption DEF IInv, TypeOK, WorkerCrash
<1>5. QED BY <1>1, <1>2, <1>3, <1>4, IdleTypes, DeleterMoves, Assembled DEF IInv

LEMMA WorkerRestartStep ==
    ASSUME IInv, NEW w \in Workers, WorkerRestart(w)
    PROVE  IInv' /\ RowsStep
<1> DEFINE x == [wk[w] EXCEPT !.pc = "starting"]
<1>1. wk[w].pc = "down" /\ wk[w] \in WorkerRecord /\ Busy(wk[w])
  BY DEF IInv, TypeOK, Busy, WorkerRestart
<1>2. x \in WorkerRecord /\ Busy(x) /\ KeepsClaim(wk[w], x)
  BY <1>1 DEF WorkerRecord, WorkerStates, Busy, KeepsClaim, Publishing
<1>3. wk' = [wk EXCEPT ![w] = x]
  BY DEF WorkerRestart
<1> HIDE DEF x
<1>4. QED BY <1>2, <1>3, WorkerAlone DEF WorkerRestart, IInv, TypeOK

-----------------------------------------------------------------------------
(* Time                                                                    *)

LEMMA TimeStepStep ==
    ASSUME IInv, TimeStep
    PROVE  IInv' /\ RowsStep
<1>1. UNCHANGED <<tree, wk, del, sub, faults>>
  BY DEF TimeStep, DeadlinePasses, HeartbeatLapses, ActiveCapPasses
<1>2. ASSUME NEW j \in Jobs, DeadlinePasses(j)
      PROVE  /\ job' \in [Jobs -> Row] /\ RowsInv' /\ RowsStep
             /\ \A k \in Jobs : SameClaim(job'[k], job[k])
  <2> DEFINE late(r) == [r EXCEPT !.expiry = "due"]
  <2>1. \A k \in Jobs : /\ job[k] \in Row /\ RowInv(job[k]) /\ RowStep(job[k], job[k])
                        /\ SameClaim(job[k], job[k])
    BY DEF IInv, TypeOK, RowsInv, RowInv, RowStep, SameClaim, Active
  <2>2. ASSUME NEW r \in Row
        PROVE  /\ late(r) \in Row /\ SameButExpiry(late(r), r)
    BY DEF Row, SameButExpiry, SameClaim
  <2>3. ASSUME NEW r \in Row, RowInv(r), r.expiry = "later"
        PROVE  RowInv(late(r)) /\ RowStep(r, late(r)) /\ SameClaim(late(r), r)
    BY <2>2, <2>3 DEF RowInv, RowStep, SameButExpiry, SameClaim, Active
  <2>4. /\ job' \in [Jobs -> Row]
        /\ \A k \in Jobs : (job'[k] = late(job[k]) /\ job[k].expiry = "later") \/ job'[k] = job[k]
    BY <1>2, <2>1, <2>2 DEF DeadlinePasses
  <2> HIDE DEF late
  <2>5. QED BY <2>1, <2>3, <2>4 DEF RowsInv, RowsStep
<1>3. ASSUME NEW j \in Jobs, HeartbeatLapses(j) \/ ActiveCapPasses(j)
      PROVE  /\ job' \in [Jobs -> Row] /\ RowsInv' /\ RowsStep
             /\ \A k \in Jobs : SameClaim(job'[k], job[k])
  <2>1. job[j] \in Row /\ RowInv(job[j])
    BY DEF IInv, TypeOK, RowsInv
  <2>2. PICK q \in {[job[j] EXCEPT !.fresh = FALSE], [job[j] EXCEPT !.old = TRUE]} :
           job' = [job EXCEPT ![j] = q]
    BY <1>3 DEF HeartbeatLapses, ActiveCapPasses
  <2>3. q \in Row /\ RowInv(q) /\ RowStep(job[j], q) /\ SameClaim(q, job[j])
    BY <2>1, <2>2, FlagRow
  <2>4. QED BY <2>2, <2>3, RowWritten DEF IInv, TypeOK
<1>4. /\ job' \in [Jobs -> Row] /\ RowsInv' /\ RowsStep
      /\ \A k \in Jobs : SameClaim(job'[k], job[k])
  BY <1>2, <1>3 DEF TimeStep
<1>5. QED BY <1>1, <1>4, OnlyRows DEF IInv, TypeOK

LEMMA StutterStep ==
    ASSUME IInv, UNCHANGED vars
    PROVE  IInv' /\ RowsStep
BY RequestReads DEF vars

-----------------------------------------------------------------------------
(* The theorems                                                            *)

\* Initially there are no rows, no claims and no deletions.
LEMMA InvInit == Init => IInv
<1> SUFFICES ASSUME Init PROVE IInv
  OBVIOUS
<1> DEFINE s == [IdleWorker EXCEPT !.pc = "starting"]
<1>1. s \in WorkerRecord /\ Busy(s) /\ s.job = None
  BY IdleTypes DEF WorkerRecord, WorkerStates, Busy
<1>2. UploadOK(sub)
  BY DEF Init, UploadOK, NoUpload
<1>3. job = [j \in Jobs |-> BlankRow] /\ wk = [w \in Workers |-> s]
      /\ del = [p \in Deleters |-> NoDeletion] /\ tree = [j \in Jobs |-> FALSE] /\ faults = 0
  BY DEF Init
<1> HIDE DEF s
<1>4. TypeOK
  <2>1. faults \in 0..MaxFaults
    BY <1>3, FaultsAssumption
  <2>2. del \in [Deleters -> DeletionRecord] /\ job \in [Jobs -> Row]
        /\ tree \in [Jobs -> BOOLEAN] /\ wk \in [Workers -> WorkerRecord]
    BY <1>1, <1>3, IdleTypes, BlankRows
  <2>3. \A w \in Workers : Busy(wk[w])
    BY <1>1, <1>3
  <2>4. QED BY <1>2, <2>1, <2>2, <2>3 DEF TypeOK, Busy, UploadOK
<1>5. RowsInv
  <2>1. RowInv(BlankRow)
    BY BlankRows DEF BlankRow, RowInv, Active, Unstarted, DeletionReasons
  <2>2. QED BY <1>3, <2>1 DEF RowsInv
<1>6. ClaimInv
  BY <1>1, <1>3, NamesAssumption DEF ClaimInv
<1>7. DeletionCoversReserved
  BY <1>3, IdleTypes DEF DeletionCoversReserved
<1>8. QED BY <1>4, <1>5, <1>6, <1>7 DEF IInv

\* Every step keeps the invariant and moves each row forward only.
LEMMA InvStep == IInv /\ [Next]_vars => IInv' /\ RowsStep
<1> SUFFICES ASSUME IInv, [Next]_vars PROVE IInv' /\ RowsStep
  OBVIOUS
<1>1. CASE SubmissionStep
  BY <1>1, CreateJobStep, IngestStreamStep, RegisterFileStep, EnqueueJobStep,
     DiscardUploadStep, ReconcileAfterDiscardStep DEF SubmissionStep
<1>2. CASE SubmitterCrash
  BY <1>2, CrashStep
<1>3. CASE OwnerStep
  BY <1>3, RequestCancelStep, RetryJobStep DEF OwnerStep
<1>4. CASE TimeStep
  BY <1>4, TimeStepStep
<1>5. ASSUME NEW p \in Deleters, DeletionStep(p)
      PROVE  IInv' /\ RowsStep
  BY <1>5, DeleteFilesStep, DeleteFilesFailsStep, DeleteRowsStep, ListExpiredStep,
     SweepExpiredStep, SweepStaleStep DEF DeletionStep
<1>6. ASSUME NEW p \in Threads, ThreadStep(p)
      PROVE  IInv' /\ RowsStep
  BY <1>6, DeleteRequestStep, CancelForDeleteStep, RemoveRequestedStep, CrashStep DEF ThreadStep
<1>7. ASSUME NEW w \in Workers, WorkerAdvances(w)
      PROVE  IInv' /\ RowsStep
  BY <1>7, EndMaintenanceStep, SetStageStep, CheckCancelStep, PipelineReturnsStep,
     ReplaceSegmentsStep, CompleteJobStep, FinishCancellationStep, DeleteCanceledStep,
     HandleExceptionStep, FailJobStep, WorkerRestartStep DEF WorkerAdvances
<1>8. ASSUME NEW w \in Workers, WorkerStep(w)
      PROVE  IInv' /\ RowsStep
  BY <1>7, <1>8, RecoverRunningJobsStep, ProgressStep, HeartbeatStep, WorkerCrashStep,
     ClaimNextStep, ProcessRaisesStep DEF WorkerStep
<1>9. CASE UNCHANGED vars
  BY <1>9, StutterStep
<1>10. QED BY <1>1, <1>2, <1>3, <1>4, <1>5, <1>6, <1>8, <1>9 DEF Next

\* The inductive invariant holds of every reachable state.
THEOREM Invariant == Spec => []IInv
BY InvInit, InvStep, PTL DEF Spec

\* TypeOK: the rows, the workers' memory and the deletions stay in their
\* domains (the table's CHECK constraints, domain.py).
THEOREM TypeCorrect == Spec => []TypeOK
<1>1. IInv => TypeOK
  BY DEF IInv
<1>2. QED BY <1>1, Invariant, PTL

\* Fenced: comparing the worker_id alone, as _require_worker does, keeps a
\* worker out of a row that was requeued behind its back.
THEOREM WorkerFence == Spec => []Fenced
<1>1. IInv => Fenced
  BY DEF IInv, ClaimInv, Fenced
<1>2. QED BY <1>1, Invariant, PTL

\* PublishedByLastAttempt: a succeeded job holds the segments its last
\* attempt wrote (replace_segments before complete_job).
THEOREM Publication == Spec => []PublishedByLastAttempt
<1>1. IInv => PublishedByLastAttempt
  BY DEF IInv, RowsInv, RowInv, PublishedByLastAttempt
<1>2. QED BY <1>1, Invariant, PTL

\* QueueCoherent: no requeue leaves a row that claim_next would never take.
THEOREM QueueNeverStrands == Spec => []QueueCoherent
<1>1. IInv => QueueCoherent
  BY DEF IInv, RowsInv, RowInv, QueueCoherent, Unstarted
<1>2. QED BY <1>1, Invariant, PTL

\* DeletionCoversReserved: between its reservation and its end a hard deletion
\* covers no row that can run again (_mark_deletion_group_locked).
THEOREM DeletionExclusive == Spec => []DeletionCoversReserved
<1>1. IInv => DeletionCoversReserved
  BY DEF IInv
<1>2. QED BY <1>1, Invariant, PTL

\* ReservationIsFinal: no retry, recovery or late worker transaction revives
\* a row whose deletion is reserved.
THEOREM ReservationFinality == Spec => ReservationIsFinal
<1>1. IInv /\ [Next]_vars =>
        [\A j \in Jobs : Reserved(job[j]) =>
            \/ job'[j].status = "deleted"
            \/ job'[j].status = "canceled" /\ Reserved(job'[j])]_vars
  BY InvStep DEF RowsStep, RowStep, Reserved
<1>2. QED BY <1>1, Invariant, PTL DEF Spec, ReservationIsFinal

\* CancelWins: a cancellation request beats a racing completion, failure or
\* crash recovery.
THEOREM CancellationWins == Spec => CancelWins
<1>1. IInv /\ [Next]_vars =>
        [\A j \in Jobs : job[j].status = "cancel_requested" =>
            job'[j].status \in {"cancel_requested", "canceled"}]_vars
  BY InvStep DEF RowsStep, RowStep
<1>2. QED BY <1>1, Invariant, PTL DEF Spec, CancelWins

\* DeletionSparesActive: no deletion reserves or removes the row of a running
\* job, alone or as part of its batch.
THEOREM ActiveJobsAreSpared == Spec => DeletionSparesActive
<1>1. IInv /\ [Next]_vars =>
        [\A j \in Jobs : job[j].status \in Active =>
            job'[j].status # "deleted" /\ ~Reserved(job'[j])]_vars
  BY InvStep DEF RowsStep, RowStep, Reserved
<1>2. QED BY <1>1, Invariant, PTL DEF Spec, DeletionSparesActive

-----------------------------------------------------------------------------
(* Deadlines of a batch                                                    *)

\* Some recording that was submitted in batch b is reserved or deleted.
Tainted(R, b) == \E k \in Jobs : BatchOf[k] = b /\ (Reserved(R[k]) \/ R[k].status = "deleted")

\* A recording is in the batch it was submitted in, or has left it.
OwnBatch(R) == \A j \in Jobs : R[j].batch \in {None, BatchOf[j]}

\* When a recording of b has a deadline, every recording of b is finished.
Shares(R, b) ==
    \/ Tainted(R, b)
    \/ \A j, m \in Jobs : R[j].batch = b /\ R[m].batch = b /\ R[j].expiry # "none" =>
                             R[m].status \in Terminal

BatchInv == OwnBatch(job) /\ \A b \in Batches : Shares(job, b)

\* Sharing the deadline of j touches the batch of j alone, and leaves it shared.
LEMMA CoordinateShares ==
    ASSUME NEW R \in [Jobs -> Row], OwnBatch(R), NEW j \in Jobs
    PROVE  /\ \A k \in Jobs : R[k].batch = None \/ R[k].batch # R[j].batch =>
                                 Coordinate(R, j)[k] = R[k]
           /\ R[j].batch # None => Shares(Coordinate(R, j), R[j].batch)
<1> DEFINE b == R[j].batch
           M == Members(R, j)
           d == IF \E m \in M : R[m].status \notin Terminal THEN "none"
                ELSE IF \A m \in M : R[m].expiry = "due" THEN "due"
                ELSE "later"
           C == [k \in Jobs |-> IF k \in M THEN [R[k] EXCEPT !.expiry = d] ELSE R[k]]
<1>1. Coordinate(R, j) = IF b = None \/ (\E m \in M : Reserved(R[m])) THEN R ELSE C
  BY DEF Coordinate
<1>2. b # None => \A k \in Jobs : k \in M <=> R[k].batch = b
  BY DEF Members
<1>3. M \subseteq Jobs
  BY DEF Members
<1>4. (\E m \in M : R[m].status \notin Terminal) => d = "none"
  OBVIOUS
<1>5. d \in {"none", "due", "later"}
  OBVIOUS
<1> HIDE DEF d, M
<1>6. \A k \in M : C[k].expiry = d /\ C[k].status = R[k].status /\ C[k].batch = R[k].batch
  BY <1>3 DEF Row
<1>7. \A k \in Jobs \ M : C[k] = R[k]
  OBVIOUS
<1>8. b # None /\ (\E m \in M : Reserved(R[m])) => Shares(R, b)
  BY <1>2, <1>3 DEF OwnBatch, Shares, Tainted
<1> HIDE DEF C
<1>9. b # None => Shares(C, b)
  <2> SUFFICES ASSUME b # None, NEW x \in Jobs, NEW m \in Jobs, C[x].batch = b, C[m].batch = b,
                      C[x].expiry # "none"
               PROVE  C[m].status \in Terminal
    BY DEF Shares
  <2>1. x \in M /\ m \in M
    BY <1>2, <1>7
  <2>2. QED BY <1>4, <1>6, <2>1
<1>10. QED BY <1>1, <1>2, <1>7, <1>8, <1>9

\* The same for the batches of all of S.
LEMMA BatchesShare ==
    ASSUME NEW R \in [Jobs -> Row], OwnBatch(R), NEW S \in SUBSET Jobs, NEW b \in Batches,
           Shares(R, b) \/ \E s \in S : R[s].batch = b
    PROVE  Shares(CoordinateBatches(R, S), b)
<1> DEFINE T == CoordinateBatches(R, S)
<1>1. b # None
  BY DEF Batches
<1>2. \A k \in Jobs : T[k] = IF \E s \in S : k \in Members(R, s) THEN Coordinate(R, k)[k] ELSE R[k]
  BY DEF CoordinateBatches
<1>3. \A k \in Jobs : T[k].batch = R[k].batch /\ T[k].status = R[k].status /\ T[k].reason = R[k].reason
  BY CoordinateBatchesRows DEF SameButExpiry
<1> HIDE DEF T
<1>4. ASSUME \E s \in S : R[s].batch = b PROVE Shares(T, b)
  <2> SUFFICES ASSUME ~Tainted(T, b), NEW x \in Jobs, NEW m \in Jobs, T[x].batch = b,
                      T[m].batch = b, T[x].expiry # "none"
               PROVE  T[m].status \in Terminal
    BY DEF Shares
  <2>1. x \in Jobs /\ R[x].batch = b /\ R[m].batch = b
    BY <1>3
  <2>2. T[x] = Coordinate(R, x)[x]
    BY <1>1, <1>2, <1>4, <2>1 DEF Members
  <2>3. ~Tainted(Coordinate(R, x), b)
    BY <1>3, CoordinateRows DEF Tainted, Reserved, SameButExpiry
  <2>4. Shares(Coordinate(R, x), b)
    BY <1>1, <2>1, CoordinateShares
  <2>5. Coordinate(R, x)[m].status = R[m].status /\ Coordinate(R, x)[m].batch = R[m].batch
        /\ Coordinate(R, x)[x].batch = R[x].batch
    BY CoordinateRows DEF SameButExpiry
  <2>6. QED BY <1>3, <2>1, <2>2, <2>3, <2>4, <2>5 DEF Shares
<1>5. ASSUME ~\E s \in S : R[s].batch = b PROVE Shares(T, b)
  <2>1. \A k \in Jobs : R[k].batch = b => T[k] = R[k]
    BY <1>1, <1>2, <1>5 DEF Members
  <2>2. Tainted(R, b) => Tainted(T, b)
    BY <1>3 DEF Tainted, Reserved
  <2>3. QED BY <1>3, <1>5, <2>1, <2>2 DEF Shares
<1>6. QED BY <1>4, <1>5 DEF T

-----------------------------------------------------------------------------
(* How a step may change the rows of batches                               *)

\* One row is written in the batch it was in, or is submitted in, and the
\* deadline of that batch is shared.
Writes == \E j \in Jobs : \E r \in Row : Put(j, r) /\ r.batch \in {job[j].batch, BatchOf[j]}

\* No row gets a deadline, enters a batch or is taken up again.
KeepsDeadline(a, b) ==
    /\ b.batch \in {a.batch, None}
    /\ b.batch # None => /\ b.expiry # "none" => a.expiry # "none"
                         /\ a.status \in Terminal => b.status \in Terminal
Keeps == \A k \in Jobs : KeepsDeadline(job[k], job'[k])

\* A group is reserved, and every row that changes is of that group.
Reserves ==
    \E M \in SUBSET Jobs : \A k \in Jobs :
        IF k \in M THEN Reserved(job'[k]) /\ job'[k].batch \in {job[k].batch, None}
        ELSE job'[k] = job[k]

\* Active rows of S are recovered, and then the batches of S share a deadline.
Recovers ==
    \E S \in SUBSET Jobs : \E R \in [Jobs -> Row] :
        /\ job' = CoordinateBatches(R, S)
        /\ \A k \in Jobs : R[k].batch = job[k].batch /\ (k \notin S => R[k] = job[k])

\* A batch that lost a recording to a deletion stays marked by it.
LEMMA TaintStays ==
    ASSUME RowsStep, NEW b, Tainted(job, b)
    PROVE  Tainted(job', b)
BY DEF RowsStep, RowStep, Tainted, Reserved

LEMMA KeptShares ==
    ASSUME BatchInv, RowsStep, Keeps
    PROVE  BatchInv'
<1>1. OwnBatch(job')
  BY DEF BatchInv, OwnBatch, Keeps, KeepsDeadline
<1>2. ASSUME NEW b \in Batches PROVE Shares(job', b)
  <2>1. CASE Tainted(job, b)
    BY <2>1, TaintStays DEF Shares
  <2>2. CASE ~Tainted(job, b)
    <3>1. b # None
      BY DEF Batches
    <3>2. QED BY <2>2, <3>1 DEF BatchInv, Shares, Keeps, KeepsDeadline
  <2>3. QED BY <2>1, <2>2
<1>3. QED BY <1>1, <1>2 DEF BatchInv

LEMMA ReservedShares ==
    ASSUME BatchInv, RowsStep, Reserves
    PROVE  BatchInv'
<1>1. PICK M \in SUBSET Jobs : \A k \in Jobs :
        IF k \in M THEN Reserved(job'[k]) /\ job'[k].batch \in {job[k].batch, None}
        ELSE job'[k] = job[k]
  BY DEF Reserves
<1>2. OwnBatch(job')
  BY <1>1 DEF BatchInv, OwnBatch
<1>3. ASSUME NEW b \in Batches PROVE Shares(job', b)
  <2>1. CASE \E m \in M : BatchOf[m] = b
    BY <1>1, <2>1 DEF Shares, Tainted
  <2>2. CASE ~\E m \in M : BatchOf[m] = b
    <3>1. b # None
      BY DEF Batches
    <3>2. \A k \in Jobs : job'[k].batch = b => job'[k] = job[k]
      BY <1>1, <1>2, <2>2, <3>1 DEF OwnBatch
    <3>3. Shares(job, b)
      BY DEF BatchInv
    <3>4. QED BY <3>2, <3>3, TaintStays DEF Shares
  <2>3. QED BY <2>1, <2>2
<1>4. QED BY <1>2, <1>3 DEF BatchInv

LEMMA WrittenShares ==
    ASSUME IInv, BatchInv, RowsStep, Writes
    PROVE  BatchInv'
<1>1. PICK j \in Jobs, r \in Row : Put(j, r) /\ r.batch \in {job[j].batch, BatchOf[j]}
  BY DEF Writes
<1> DEFINE R == [job EXCEPT ![j] = r]
<1>2. R \in [Jobs -> Row] /\ \A k \in Jobs : R[k] = IF k = j THEN r ELSE job[k]
  BY DEF IInv, TypeOK
<1>3. job' = Coordinate(R, j)
  BY <1>1 DEF Put
<1> HIDE DEF R
<1>4. OwnBatch(R)
  BY <1>1, <1>2 DEF BatchInv, OwnBatch
<1>5. OwnBatch(job')
  BY <1>2, <1>3, <1>4, CoordinateRows DEF OwnBatch, SameButExpiry
<1>6. ASSUME NEW b \in Batches PROVE Shares(job', b)
  <2>1. b # None
    BY DEF Batches
  <2>2. CASE r.batch = b
    BY <1>2, <1>3, <1>4, <2>1, <2>2, CoordinateShares
  <2>3. CASE r.batch # b
    <3>1. ASSUME NEW k \in Jobs, job'[k].batch = b PROVE job'[k] = job[k]
      <4>1. R[k].batch = b
        BY <1>2, <1>3, <3>1, CoordinateRows DEF SameButExpiry
      <4>2. k # j /\ job'[k] = R[k]
        BY <1>2, <1>3, <1>4, <2>3, <4>1, CoordinateShares
      <4>3. QED BY <1>2, <4>2
    <3>2. Shares(job, b)
      BY DEF BatchInv
    <3>3. QED BY <3>1, <3>2, TaintStays DEF Shares
  <2>4. QED BY <2>2, <2>3
<1>7. QED BY <1>5, <1>6 DEF BatchInv

LEMMA RecoveredShares ==
    ASSUME IInv, BatchInv, RowsStep, Recovers
    PROVE  BatchInv'
<1>1. PICK S \in SUBSET Jobs, R \in [Jobs -> Row] :
        /\ job' = CoordinateBatches(R, S)
        /\ \A k \in Jobs : R[k].batch = job[k].batch /\ (k \notin S => R[k] = job[k])
  BY DEF Recovers
<1>2. OwnBatch(R)
  BY <1>1 DEF BatchInv, OwnBatch
<1>3. \A k \in Jobs : SameButExpiry(job'[k], R[k])
  BY <1>1, CoordinateBatchesRows
<1>4. OwnBatch(job')
  BY <1>2, <1>3 DEF OwnBatch, SameButExpiry
<1>5. ASSUME NEW b \in Batches PROVE Shares(job', b)
  <2>1. CASE Tainted(job, b)
    BY <2>1, TaintStays DEF Shares
  <2>2. CASE ~Tainted(job, b) /\ ~\E s \in S : R[s].batch = b
    <3>1. Shares(job, b)
      BY DEF BatchInv
    <3>2. \A k \in Jobs : R[k].batch = b => R[k] = job[k]
      BY <1>1, <2>2
    <3>3. Shares(R, b)
      BY <2>2, <3>1, <3>2 DEF Shares
    <3>4. QED BY <1>1, <1>2, <3>3, BatchesShare
  <2>3. CASE \E s \in S : R[s].batch = b
    BY <1>1, <1>2, <2>3, BatchesShare
  <2>4. QED BY <2>1, <2>2, <2>3
<1>6. QED BY <1>4, <1>5 DEF BatchInv

-----------------------------------------------------------------------------
(* Which step does what                                                    *)

LEMMA Untouched == ASSUME UNCHANGED job PROVE Keeps
BY DEF Keeps, KeepsDeadline

\* A row that stays in its batch with its deadline.
LEMMA OneKept ==
    ASSUME IInv, NEW j \in Jobs, NEW r, job' = [job EXCEPT ![j] = r],
           r.batch = job[j].batch, r.expiry = job[j].expiry, r.status = job[j].status
    PROVE  Keeps
BY DEF IInv, TypeOK, Keeps, KeepsDeadline

LEMMA Requeued == "queued" \in Unstarted /\ "probe" \in Stages
BY DEF Unstarted, Stages

\* The writes of submission and of owners.
LEMMA SubmissionWrites ==
    ASSUME IInv, (\E j \in Jobs : CreateJob(j)) \/ EnqueueJob
    PROVE  Writes \/ Keeps
<1>1. CASE \E j \in Jobs : CreateJob(j)
  <2>1. PICK j \in Jobs : CreateJob(j)
    BY <1>1
  <2> DEFINE r == [BlankRow EXCEPT !.status = "created", !.batch = BatchOf[j]]
  <2>2. r \in Row /\ r.batch = BatchOf[j]
    BY BlankRows, BatchAssumption DEF Row, Unstarted
  <2>3. Put(j, r)
    BY <2>1 DEF CreateJob
  <2> HIDE DEF r
  <2>4. QED BY <2>2, <2>3 DEF Writes
<1>2. CASE EnqueueJob
  <2> DEFINE n == Logged(job[sub.job])
             r == [n EXCEPT !.status = "queued", !.stage = "probe", !.stageStatus = "pending"]
  <2>1. sub.job \in Jobs
    BY <1>2 DEF IInv, TypeOK, EnqueueJob
  <2>2. n \in Row /\ n.batch = job[sub.job].batch
    BY <2>1, LoggedRow DEF IInv, TypeOK
  <2>3. Put(sub.job, r) \/ UNCHANGED job
    BY <1>2 DEF EnqueueJob
  <2> HIDE DEF n
  <2>4. r.batch = n.batch
    BY <2>2 DEF Row
  <2>5. r \in Row
    BY <2>2, Requeued DEF Row
  <2> HIDE DEF r
  <2>6. QED BY <2>2, <2>5, <2>1, <2>3, <2>4, Untouched DEF Writes
<1>3. QED BY <1>1, <1>2

LEMMA CancelWrites ==
    ASSUME IInv, NEW j \in Jobs, NEW why \in {"owner_requested", "owner_delete"},
           CancelEffect(j, why)
    PROVE  Writes \/ Keeps
<1> DEFINE n == [Logged(job[j]) EXCEPT !.asked = IF why = "owner_delete" THEN "last" ELSE @]
           c == [n EXCEPT !.status = "canceled", !.stageStatus = "canceled", !.expiry = "later"]
           q == [n EXCEPT !.status = "cancel_requested"]
<1>1. job[j] \in Row
  BY DEF IInv, TypeOK
<1>2. n \in Row /\ n.batch = job[j].batch
  BY <1>1, LoggedRow DEF Row
<1>3. Put(j, c) \/ Put(j, q) \/ Put(j, job[j]) \/ UNCHANGED job
  BY DEF CancelEffect
<1> HIDE DEF n
<1>4. c \in Row /\ c.batch = n.batch
  BY <1>2 DEF Row, Terminal
<1>5. q \in Row /\ q.batch = n.batch
  BY <1>2 DEF Row, Active
<1> HIDE DEF c, q
<1>6. QED BY <1>1, <1>2, <1>3, <1>4, <1>5, Untouched DEF Writes

LEMMA RetryWrites == ASSUME IInv, NEW j \in Jobs, RetryJob(j) PROVE Writes
<1> DEFINE n == Logged(job[j])
           r == [n EXCEPT !.status = "queued", !.stage = "probe", !.stageStatus = "pending",
                          !.worker = None, !.fresh = FALSE, !.reason = "none",
                          !.expiry = "none"]
<1>1. n \in Row /\ n.batch = job[j].batch
  BY LoggedRow DEF IInv, TypeOK
<1>2. Put(j, r)
  BY DEF RetryJob
<1> HIDE DEF n
<1>3. r.batch = n.batch
  BY <1>1 DEF Row
<1>4. r \in Row
  BY <1>1, Requeued DEF Row
<1> HIDE DEF r
<1>5. QED BY <1>1, <1>4, <1>2, <1>3 DEF Writes

\* The writes of a worker.
LEMMA ClaimWrites == ASSUME IInv, NEW w \in Workers, NEW j \in Jobs, ClaimNext(w, j) PROVE Writes
<1> DEFINE n == Logged(job[j])
           r == [n EXCEPT !.status = "running", !.stageStatus = "running", !.attempt = @ + 1,
                          !.worker = w, !.fresh = TRUE, !.reason = "none"]
<1>1. job[j] \in Row
  BY DEF IInv, TypeOK
<1>2. n \in Row /\ n.batch = job[j].batch /\ n.attempt = job[j].attempt
  BY <1>1, LoggedRow
<1>3. n.attempt + 1 \in 0..MaxAttempts
  BY <1>1, <1>2, AttemptsAssumption DEF ClaimNext, Row
<1>4. Put(j, r)
  BY DEF ClaimNext
<1> HIDE DEF n
<1>5. r \in Row /\ r.batch = job[j].batch
  BY <1>2, <1>3 DEF Row, Active
<1> HIDE DEF r
<1>6. QED BY <1>4, <1>5 DEF Writes

LEMMA StageWrites ==
    ASSUME IInv, NEW w \in Workers, SetStage(w) \/ Progress(w)
    PROVE  Writes \/ Keeps
<1> DEFINE j == wk[w].job
<1>1. wk[w].pc \in {"claimed", "probing", "quality", "qualified", "export", "writing", "pipeline"}
  BY DEF SetStage, Script, Progress
<1>2. j \in Jobs /\ job[j] \in Row
  BY <1>1, WorkerKnowsJob
<1>3. \/ UNCHANGED job
      \/ \E stage \in Stages, to \in {"running", "succeeded"} : Put(j, Staged(job[j], stage, to))
  <2>1. CASE SetStage(w)
    <3> DEFINE s == Script[wk[w].pc]
    <3>1. wk[w].pc \in {"claimed", "probing", "quality", "qualified", "export", "writing"}
      BY <2>1 DEF SetStage, Script
    <3>2. s.stage \in Stages /\ s.as \in {"running", "succeeded"}
      BY <3>1 DEF Script, Stages
    <3>3. Put(j, Staged(job[j], s.stage, s.as)) \/ UNCHANGED job
      BY <2>1 DEF SetStage
    <3> HIDE DEF s
    <3>4. QED BY <3>2, <3>3
  <2>2. CASE Progress(w)
    BY <2>2 DEF Progress, Stages
  <2>3. QED BY <2>1, <2>2
<1>4. ASSUME NEW stage \in Stages, NEW to \in {"running", "succeeded"}
      PROVE  Staged(job[j], stage, to) \in Row /\ Staged(job[j], stage, to).batch = job[j].batch
  <2> DEFINE n == Logged(job[j])
  <2>1. n \in Row /\ n.batch = job[j].batch
    BY <1>2, LoggedRow
  <2>2. Staged(job[j], stage, to) = [n EXCEPT !.stage = stage, !.stageStatus = to, !.fresh = TRUE]
    BY DEF Staged
  <2> HIDE DEF n
  <2>3. [n EXCEPT !.stage = stage, !.stageStatus = to, !.fresh = TRUE].batch = n.batch
    BY <2>1 DEF Row
  <2>4. [n EXCEPT !.stage = stage, !.stageStatus = to, !.fresh = TRUE] \in Row
    BY <2>1, StagedType
  <2>5. QED BY <2>1, <2>2, <2>3, <2>4
<1> HIDE DEF j
<1>5. QED BY <1>2, <1>3, <1>4, Untouched DEF Writes

LEMMA EndWrites ==
    ASSUME IInv, NEW w \in Workers,
           CompleteJob(w) \/ FailJob(w) \/ \E wanted \in BOOLEAN : FinishCancellation(w, wanted)
    PROVE  Writes \/ Keeps
<1> DEFINE j == wk[w].job
           l == Logged(job[j])
           s == [l EXCEPT !.status = "succeeded", !.worker = None, !.fresh = FALSE,
                          !.expiry = "later", !.reason = "none"]
           a == [l EXCEPT !.status = "canceled", !.stageStatus = "canceled",
                          !.worker = None, !.fresh = FALSE, !.expiry = "later"]
           n == [l EXCEPT !.worker = None, !.fresh = FALSE, !.reason = "failure"]
           m == Logged(n)
           c == [n EXCEPT !.status = "canceled", !.stageStatus = "canceled", !.expiry = "later"]
           q == [m EXCEPT !.status = "queued", !.stageStatus = "pending", !.expiry = "none"]
           f == [n EXCEPT !.status = "failed", !.stageStatus = "failed", !.expiry = "later"]
<1>1. wk[w].pc \in {"complete", "failing", "finishing"}
  BY DEF CompleteJob, FailJob, FinishCancellation
<1>2. j \in Jobs /\ job[j] \in Row
  BY <1>1, WorkerKnowsJob
<1>3. \/ Put(j, s) \/ Put(j, a) \/ Put(j, c) \/ Put(j, q) \/ Put(j, f)
      \/ UNCHANGED job
  BY DEF CompleteJob, FailJob, FinishCancellation
<1>4. l \in Row /\ l.batch = job[j].batch
  BY <1>2, LoggedRow
<1> HIDE DEF l
<1>5. s \in Row /\ s.batch = l.batch
  BY <1>4 DEF Row, Terminal
<1>6. a \in Row /\ a.batch = l.batch
  BY <1>4 DEF Row, Terminal
<1>7. n \in Row /\ n.batch = l.batch
  BY <1>4 DEF Row
<1> HIDE DEF s, a, n
<1>8. m \in Row /\ m.batch = n.batch
  BY <1>7, LoggedRow
<1> HIDE DEF m
<1>9. c \in Row /\ c.batch = n.batch
  BY <1>7 DEF Row, Terminal
<1>10. f \in Row /\ f.batch = n.batch
  BY <1>7 DEF Row, Terminal
<1>11. q \in Row /\ q.batch = m.batch
  BY <1>8 DEF Row, Unstarted
<1> HIDE DEF c, q, f, j
<1>12. QED BY <1>2, <1>3, <1>4, <1>5, <1>6, <1>7, <1>8, <1>9, <1>10, <1>11, Untouched DEF Writes

\* A step that only shares the deadline of one batch writes the row it found.
LEMMA CoordinatedWrites ==
    ASSUME IInv, NEW j \in Jobs, job' = Coordinate(job, j)
    PROVE  Writes
<1>1. job[j] \in Row /\ [job EXCEPT ![j] = job[j]] = job
  BY DEF IInv, TypeOK
<1>2. QED BY <1>1 DEF Writes, Put

\* Steps that keep what deadlines rest on.
LEMMA FlagsKept ==
    ASSUME IInv,
           \/ RegisterFile \/ TimeStep
           \/ \E w \in Workers : Heartbeat(w) \/ ReplaceSegments(w)
           \/ \E p \in Deleters : DeleteRows(p)
    PROVE  Keeps
<1>1. CASE RegisterFile
  <2> DEFINE n == Logged(job[sub.job])
             r == [n EXCEPT !.hasFile = TRUE]
  <2>1. sub.job \in Jobs /\ job[sub.job] \in Row
    BY <1>1 DEF IInv, TypeOK, RegisterFile
  <2>2. /\ n \in Row /\ n.batch = job[sub.job].batch /\ n.expiry = job[sub.job].expiry
        /\ n.status = job[sub.job].status
    BY <2>1, LoggedRow
  <2>3. job' = [job EXCEPT ![sub.job] = r] \/ UNCHANGED job
    BY <1>1 DEF RegisterFile
  <2> HIDE DEF n
  <2>4. /\ r.batch = job[sub.job].batch /\ r.expiry = job[sub.job].expiry
        /\ r.status = job[sub.job].status
    BY <2>2 DEF Row
  <2> HIDE DEF r
  <2>5. QED BY <2>1, <2>3, <2>4, OneKept, Untouched
<1>2. CASE \E w \in Workers : Heartbeat(w)
  <2>1. PICK w \in Workers : Heartbeat(w)
    BY <1>2
  <2>2. wk[w].job \in Jobs /\ job[wk[w].job] \in Row
    BY <2>1, WorkerKnowsJob DEF Heartbeat
  <2> DEFINE r == [job[wk[w].job] EXCEPT !.fresh = TRUE]
  <2>3. job' = [job EXCEPT ![wk[w].job] = r]
    BY <2>1 DEF Heartbeat
  <2>4. /\ r.batch = job[wk[w].job].batch /\ r.expiry = job[wk[w].job].expiry
        /\ r.status = job[wk[w].job].status
    BY <2>2 DEF Row
  <2> HIDE DEF r
  <2>5. QED BY <2>2, <2>3, <2>4, OneKept
<1>3. CASE \E w \in Workers : ReplaceSegments(w)
  <2>1. PICK w \in Workers : ReplaceSegments(w)
    BY <1>3
  <2>2. wk[w].job \in Jobs /\ job[wk[w].job] \in Row
    BY <2>1, WorkerKnowsJob DEF ReplaceSegments
  <2> DEFINE n == Logged(job[wk[w].job])
             r == [n EXCEPT !.draft = wk[w].attempt]
  <2>3. /\ n \in Row /\ n.batch = job[wk[w].job].batch /\ n.expiry = job[wk[w].job].expiry
        /\ n.status = job[wk[w].job].status
    BY <2>2, LoggedRow
  <2>4. job' = [job EXCEPT ![wk[w].job] = r] \/ UNCHANGED job
    BY <2>1 DEF ReplaceSegments
  <2> HIDE DEF n
  <2>5. /\ r.batch = job[wk[w].job].batch /\ r.expiry = job[wk[w].job].expiry
        /\ r.status = job[wk[w].job].status
    BY <2>3 DEF Row
  <2> HIDE DEF r
  <2>6. QED BY <2>2, <2>4, <2>5, OneKept, Untouched
<1>4. CASE \E j \in Jobs : HeartbeatLapses(j) \/ ActiveCapPasses(j)
  <2>1. PICK j \in Jobs : HeartbeatLapses(j) \/ ActiveCapPasses(j)
    BY <1>4
  <2>2. job[j] \in Row
    BY DEF IInv, TypeOK
  <2>3. PICK r \in {[job[j] EXCEPT !.fresh = FALSE], [job[j] EXCEPT !.old = TRUE]} :
           job' = [job EXCEPT ![j] = r]
    BY <2>1 DEF HeartbeatLapses, ActiveCapPasses
  <2>4. r.batch = job[j].batch /\ r.expiry = job[j].expiry /\ r.status = job[j].status
    BY <2>2, <2>3 DEF Row
  <2>5. QED BY <2>3, <2>4, OneKept
<1>5. CASE \E j \in Jobs : DeadlinePasses(j)
  <2>1. \A k \in Jobs : \/ job'[k] = job[k]
                        \/ job[k].expiry = "later" /\ job'[k] = [job[k] EXCEPT !.expiry = "due"]
    BY <1>5 DEF DeadlinePasses
  <2>2. SUFFICES ASSUME NEW k \in Jobs PROVE KeepsDeadline(job[k], job'[k])
    BY DEF Keeps
  <2>3. CASE job'[k] = job[k]
    BY <2>3 DEF KeepsDeadline
  <2>4. CASE job[k].expiry = "later" /\ job'[k] = [job[k] EXCEPT !.expiry = "due"]
    <3>1. job[k] \in Row
      BY DEF IInv, TypeOK
    <3>2. /\ job'[k].batch = job[k].batch /\ job'[k].status = job[k].status
          /\ job[k].expiry # "none"
      BY <2>4, <3>1 DEF Row
    <3>3. QED BY <3>2 DEF KeepsDeadline
  <2>5. QED BY <2>1, <2>3, <2>4
<1>6. CASE \E p \in Deleters : DeleteRows(p)
  <2> DEFINE gone == [BlankRow EXCEPT !.status = "deleted"]
  <2>1. gone.batch = None
    BY DEF BlankRow
  <2>2. \A k \in Jobs : job'[k] = job[k] \/ job'[k] = gone
    BY <1>6 DEF DeleteRows
  <2> HIDE DEF gone
  <2>3. QED BY <2>1, <2>2 DEF Keeps, KeepsDeadline
<1>7. QED BY <1>1, <1>2, <1>3, <1>4, <1>5, <1>6 DEF TimeStep

\* What a reservation makes of the rows it is given.
LEMMA MarkedRows ==
    ASSUME NEW R \in [Jobs -> Row], NEW M \in SUBSET Jobs, NEW reason \in DeletionReasons,
           job' = Marked(R, M, reason),
           \A k \in Jobs : R[k].batch \in {job[k].batch, None} /\ (k \notin M => R[k] = job[k])
    PROVE  Reserves
<1>1. ASSUME NEW k \in M PROVE Reserved(job'[k]) /\ job'[k].batch = R[k].batch
  <2>1. job'[k] = [R[k] EXCEPT !.status = "canceled", !.stageStatus = "canceled",
                              !.worker = None, !.fresh = FALSE,
                              !.expiry = "due", !.reason = reason]
    BY DEF Marked
  <2>2. R[k] \in Row
    OBVIOUS
  <2>3. job'[k].reason = reason /\ job'[k].batch = R[k].batch
    BY <2>1, <2>2 DEF Row
  <2>4. QED BY <2>3 DEF Reserved
<1>2. \A k \in Jobs \ M : job'[k] = job[k]
  BY DEF Marked
<1>3. QED BY <1>1, <1>2 DEF Reserves

LEMMA DeletionReserves ==
    ASSUME IInv, BatchInv,
           \/ \E p \in Threads : RemoveRequested(p)
           \/ \E p \in Deleters, j \in Jobs : SweepStale(p, j) \/ SweepExpired(p, j)
           \/ \E w \in Workers : DeleteCanceled(w)
           \/ DiscardUpload
    PROVE  Reserves \/ Writes \/ Keeps
<1>0. /\ job \in [Jobs -> Row] /\ \A j \in Jobs : Members(job, j) \in SUBSET Jobs
      /\ {"owner_deleted", "active_lifetime_expired", "retention_expired"} = DeletionReasons
  BY DEF IInv, TypeOK, Members, DeletionReasons
<1>1. CASE \E p \in Threads : RemoveRequested(p)
  <2>1. PICK p \in Threads : RemoveRequested(p)
    BY <1>1
  <2>2. del[p].group \subseteq Jobs
    BY DEF IInv, TypeOK, DeletionRecord, Deleters
  <2>3. UNCHANGED job \/ \E j \in Jobs : job' = Marked(job, Members(job, j), "owner_deleted")
    BY <2>1, <2>2 DEF RemoveRequested, Reserve
  <2>4. QED BY <1>0, <2>3, MarkedRows, Untouched
<1>2. CASE \E p \in Deleters, j \in Jobs : SweepStale(p, j)
  <2>1. \E j \in Jobs : job' = Marked(job, Members(job, j), "active_lifetime_expired")
    BY <1>2 DEF SweepStale, Reserve
  <2>2. QED BY <1>0, <2>1, MarkedRows
<1>3. CASE \E p \in Deleters, j \in Jobs : SweepExpired(p, j)
  <2>1. PICK j \in Jobs : \E p \in Deleters : SweepExpired(p, j)
    BY <1>3
  <2> DEFINE R == Coordinate(job, j)
             M == Members(R, j)
  <2>2. job' = R \/ job' = Marked(R, M, "retention_expired")
    BY <2>1 DEF SweepExpired, Reserve
  <2>3. M \in SUBSET Jobs
    BY DEF Members
  <2>4. R \in [Jobs -> Row] /\ \A k \in Jobs : R[k].batch = job[k].batch
    BY <1>0, CoordinateRows DEF SameButExpiry
  <2>5. ASSUME NEW k \in Jobs, k \notin M PROVE R[k] = job[k]
    <3>1. job[j].batch = None \/ job[k].batch # job[j].batch
      BY <2>4, <2>5 DEF Members
    <3>2. job[j].batch = None => R = job
      BY DEF Coordinate
    <3>3. job[k].batch # job[j].batch => R[k] = job[k]
      BY <1>0, CoordinateShares DEF BatchInv
    <3>4. QED BY <3>1, <3>2, <3>3
  <2> HIDE DEF M
  <2>6. CASE job' = R
    BY <2>6, CoordinatedWrites
  <2> HIDE DEF R
  <2>7. CASE job' = Marked(R, M, "retention_expired")
    BY <1>0, <2>3, <2>4, <2>5, <2>7, MarkedRows
  <2>8. QED BY <2>2, <2>6, <2>7
<1>4. CASE \E w \in Workers : DeleteCanceled(w)
  <2>1. PICK w \in Workers : DeleteCanceled(w)
    BY <1>4
  <2>2. wk[w].job \in Jobs
    BY <2>1, WorkerKnowsJob DEF DeleteCanceled
  <2>3. UNCHANGED job \/ \E j \in Jobs : job' = Marked(job, Members(job, j), "owner_deleted")
    BY <2>1, <2>2 DEF DeleteCanceled, Reserve
  <2>4. QED BY <1>0, <2>3, MarkedRows, Untouched
<1>5. CASE DiscardUpload
  <2> DEFINE R == [job EXCEPT ![sub.job].batch = None]
  <2>1. sub.job \in Jobs /\ job[sub.job] \in Row
    BY <1>5 DEF IInv, TypeOK, DiscardUpload
  <2>2. UNCHANGED job \/ job' = Marked(R, {sub.job}, "owner_deleted")
    BY <1>5 DEF DiscardUpload, Reserve
  <2>3. /\ R \in [Jobs -> Row]
        /\ \A k \in Jobs : R[k].batch \in {job[k].batch, None} /\ (k \notin {sub.job} => R[k] = job[k])
    BY <1>0, <2>1 DEF Row
  <2> HIDE DEF R
  <2>4. QED BY <1>0, <2>1, <2>2, <2>3, MarkedRows, Untouched
<1>6. QED BY <1>1, <1>2, <1>3, <1>4, <1>5

LEMMA RecoveryRecovers ==
    ASSUME IInv,
           \/ \E w \in Workers : RecoverRunningJobs(w)
           \/ \E p \in Deleters : ListExpired(p)
           \/ ReconcileAfterDiscard
    PROVE  Recovers
<1>1. job \in [Jobs -> Row]
  BY DEF IInv, TypeOK
<1>2. CASE (\E p \in Deleters : ListExpired(p)) \/ ReconcileAfterDiscard
  <2>1. job' = CoordinateBatches(job, Jobs)
    BY <1>2 DEF ListExpired, ReconcileAfterDiscard
  <2>2. QED BY <1>1, <2>1 DEF Recovers
<1>3. CASE \E w \in Workers : RecoverRunningJobs(w)
  <2> DEFINE S == {j \in Jobs : job[j].status \in Active /\ ~job[j].fresh}
             R == [j \in Jobs |-> IF j \in S THEN Recovered(job[j]) ELSE job[j]]
  <2>1. job' = CoordinateBatches(R, S)
    BY <1>3 DEF RecoverRunningJobs
  <2>2. ASSUME NEW j \in Jobs, job[j].status \in Active
        PROVE  Recovered(job[j]) \in Row /\ Recovered(job[j]).batch = job[j].batch
    <3>1. job[j] \in Row /\ RowInv(job[j])
      BY DEF IInv, TypeOK, RowsInv
    <3>2. Recovered(job[j]) \in Row
      BY <2>2, <3>1, RecoveredRow
    <3>3. Recovered(job[j]).batch = job[j].batch
      <4> DEFINE l == Logged(job[j])
                 n == [l EXCEPT !.worker = None, !.fresh = FALSE, !.reason = "none"]
      <4>1. l \in Row /\ l.batch = job[j].batch
        BY <3>1, LoggedRow
      <4> HIDE DEF l
      <4>2. n \in Row /\ n.batch = job[j].batch
        BY <4>1 DEF Row
      <4>3. Recovered(job[j]) \in
              {[n EXCEPT !.status = "canceled", !.stageStatus = "canceled", !.expiry = "later"],
               [n EXCEPT !.status = "queued", !.stageStatus = "pending", !.expiry = "none"],
               [n EXCEPT !.status = "failed", !.stageStatus = "failed", !.expiry = "later",
                         !.reason = "failure"]}
        BY DEF Recovered, l
      <4> HIDE DEF n
      <4>4. QED BY <4>2, <4>3 DEF Row
    <3>4. QED BY <3>2, <3>3
  <2>3. \A k \in S : job[k].status \in Active
    OBVIOUS
  <2>4. S \in SUBSET Jobs
    OBVIOUS
  <2> HIDE DEF S
  <2>5. /\ R \in [Jobs -> Row]
        /\ \A k \in Jobs : R[k].batch = job[k].batch /\ (k \notin S => R[k] = job[k])
    BY <1>1, <2>2, <2>3
  <2> HIDE DEF R
  <2>6. QED BY <2>1, <2>4, <2>5 DEF Recovers
<1>4. QED BY <1>2, <1>3

LEMMA BatchStep == IInv /\ BatchInv /\ [Next]_vars => BatchInv'
<1> SUFFICES ASSUME IInv, BatchInv, [Next]_vars PROVE BatchInv'
  OBVIOUS
<1>1. RowsStep
  BY InvStep
<1>2. Writes \/ Keeps \/ Reserves \/ Recovers
  <2>1. CASE SubmissionStep
    <3>1. (\E stored \in BOOLEAN : IngestStream(stored)) => Keeps
      BY Untouched DEF IngestStream
    <3>2. QED BY <2>1, <3>1, SubmissionWrites, FlagsKept, DeletionReserves, RecoveryRecovers
          DEF SubmissionStep
  <2>2. CASE SubmitterCrash \/ UNCHANGED vars
    BY <2>2, Untouched DEF SubmitterCrash, vars
  <2>3. CASE OwnerStep
    BY <2>3, CancelWrites, RetryWrites DEF OwnerStep, RequestCancel
  <2>4. CASE TimeStep
    BY <2>4, FlagsKept
  <2>5. ASSUME NEW p \in Deleters, DeletionStep(p) PROVE Writes \/ Keeps \/ Reserves \/ Recovers
    <3>1. DeleteFiles(p) \/ DeleteFilesFails(p) => Keeps
      BY Untouched DEF DeleteFiles, DeleteFilesFails
    <3>2. QED BY <2>5, <3>1, FlagsKept, DeletionReserves, RecoveryRecovers DEF DeletionStep
  <2>6. ASSUME NEW p \in Threads, ThreadStep(p) PROVE Writes \/ Keeps \/ Reserves \/ Recovers
    <3>1. ASSUME NEW j \in Jobs, DeleteRequest(p, j) PROVE Writes
      BY <3>1, CoordinatedWrites DEF DeleteRequest
    <3>2. ThreadCrash(p) => Keeps
      BY Untouched DEF ThreadCrash
    <3>3. CancelForDelete(p) => Writes \/ Keeps
      <4>1. del[p].group \subseteq Jobs
        BY DEF IInv, TypeOK, DeletionRecord, Deleters
      <4>2. QED BY <4>1, CancelWrites DEF CancelForDelete
    <3>4. QED BY <2>6, <3>1, <3>2, <3>3, DeletionReserves DEF ThreadStep
  <2>7. ASSUME NEW w \in Workers, WorkerStep(w) PROVE Writes \/ Keeps \/ Reserves \/ Recovers
    <3>1. EndMaintenance(w) \/ CheckCancel(w) \/ PipelineReturns(w) \/ HandleException(w)
          \/ WorkerRestart(w) \/ WorkerCrash(w) \/ (\E r \in BOOLEAN : ProcessRaises(w, r)) => Keeps
      BY Untouched DEF EndMaintenance, CheckCancel, PipelineReturns, HandleException,
         WorkerRestart, WorkerCrash, ProcessRaises
    <3>2. QED BY <2>7, <3>1, StageWrites, EndWrites, ClaimWrites, FlagsKept, DeletionReserves,
             RecoveryRecovers DEF WorkerStep, WorkerAdvances
  <2>8. QED BY <2>1, <2>2, <2>3, <2>4, <2>5, <2>6, <2>7 DEF Next
<1>3. QED BY <1>1, <1>2, KeptShares, WrittenShares, ReservedShares, RecoveredShares

\* BatchSharesDeadline: while one recording of a batch is unfinished no sibling
\* has a deadline, unless part of the batch was deleted
\* (_coordinate_batch_retention_locked).
THEOREM BatchDeadline == Spec => []BatchSharesDeadline
<1>1. Init => BatchInv
  BY BlankRows DEF Init, BatchInv, OwnBatch, Shares, Batches
<1>2. ASSUME IInv, BatchInv PROVE BatchSharesDeadline
  <2> SUFFICES ASSUME NEW j \in Jobs, job[j].batch # None, job[j].expiry # "none"
               PROVE  \/ \A m \in Members(job, j) : job[m].status \in Terminal
                      \/ \E k \in Jobs : /\ BatchOf[k] = job[j].batch
                                         /\ (Reserved(job[k]) \/ job[k].status = "deleted")
    BY DEF BatchSharesDeadline
  <2>1. job[j].batch \in Batches
    BY <1>2, BatchAssumption DEF BatchInv, OwnBatch, Batches
  <2>2. Shares(job, job[j].batch)
    BY <1>2, <2>1 DEF BatchInv
  <2>3. QED BY <2>2 DEF Shares, Tainted, Members
<1>3. QED BY <1>1, <1>2, BatchStep, Invariant, PTL DEF Spec
=============================================================================
