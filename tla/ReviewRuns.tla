----------------------------- MODULE ReviewRuns -----------------------------
(***************************************************************************)
(* An every-source review run over the sources of SourceIntake             *)
(* (workflow_jobs.py, workbench.py, workspace_store.py,                    *)
(* full_text_review.py and full_text_review_budget.py of                   *)
(* src/case_intelligence).                                                 *)
(*                                                                         *)
(* A run freezes the searchable sources and decides on each.  It reads     *)
(* selected passages, or all text range by range into a ledger that        *)
(* outlives the attempt.  The run's coordinator thread hands sources to a  *)
(* pool and records what comes back, in the order it comes back; each      *)
(* transaction is one action, and between them sources change, people      *)
(* cancel, lose access or adjudicate, and processes stop and start.        *)
(*                                                                         *)
(* A thread may outlive its process, when close() has waited for it in     *)
(* vain, and then meets the next attempt.                                  *)
(***************************************************************************)
EXTENDS SourceIntake

CONSTANTS
    Ranges,          \* text ranges of each document
    ReviewWorkers,
    Reviewers,       \* people who adjudicate, other than the run's creator
    MaxCalls,        \* policy.max_calls
    MaxControls      \* charge_control: recoveries and retries the ledger has room for

Modes == {"selected_passages", "full_text"}

ASSUME ReviewAssumption == /\ Ranges \in [Docs -> Nat \ {0}]
                           /\ MaxCalls \in Nat /\ MaxControls \in Nat
                           /\ Modes \cup {"cancels", "retries", "deletions", "saves",
                                            "access"} \subseteq Events
                           /\ ReviewWorkers \subseteq Holders

VARIABLES
    run,      \* the row of workbench_review_run, with its text review budget
    dec,      \* rows of workbench_review_decision, by document
    led,      \* rows of the text ledger, by document
    rw,       \* what each coordinator thread and its pool hold in memory
    page,     \* the decision each reviewer has open
    access    \* whether the creator may work in the matter

reviewVars == <<run, dec, led, rw, page, access>>

-----------------------------------------------------------------------------
(* Rows and memory                                                         *)

Verdicts == {"included", "excluded", "needs_attention"}
Humans   == {"none", "agree", "dispute"}

Run == [state : {"none", "queued", "running", "succeeded", "failed", "cancelled",
                 "deleted"},
        mode  : Modes,
        cancel : BOOLEAN, attempts : Nat,
        reviewed : Int, included : Int, excluded : Int, attention : Int,
        calls : 0..MaxCalls, controls : 0..MaxControls,
        limit : BOOLEAN]                        \* limit_reason is set

Decision == [basis   : Bases \cup {None},       \* None: not in the population
             machine : Verdicts \cup {"pending"},
             human   : Humans]

Outcomes == {"pending", "include", "exclude", "failed", "invalidated"}

Source(d) == [state  : {"none", "unavailable", "pending", "inventoried", "invalidated"},
              ranges : {<<>>} \cup [1..Ranges[d] -> Outcomes]]

Task == [pc     : {"none", "begin", "classify", "inventory", "scan", "call", "close",
                   "done", "raised"},
         units  : Nat,                          \* source_identity
         result : Verdicts \cup {None}]

Worker == [pc : {"dead", "idle", "loop", "batch", "drain", "finishing", "failing"},
           attempt : Nat,
           stop    : BOOLEAN,                   \* _stop is set
           old     : BOOLEAN,                   \* its process has ended
           why     : {"error", "cancelled"},
           task    : [Docs -> Task],
           seen    : SUBSET Docs]               \* decisions finish has checked

NoTask == [pc |-> "none", units |-> 0, result |-> None]
Idle   == [pc |-> "idle", attempt |-> 0, stop |-> FALSE, old |-> FALSE, why |-> "error",
           task |-> [d \in Docs |-> NoTask], seen |-> {}]
Dead   == [Idle EXCEPT !.pc = "dead"]
BlankRun == [state |-> "none", mode |-> "selected_passages", cancel |-> FALSE,
             attempts |-> 0, reviewed |-> 0, included |-> 0, excluded |-> 0,
             attention |-> 0, calls |-> 0, controls |-> 0, limit |-> FALSE]
NoDecision == [basis |-> None, machine |-> "pending", human |-> "none"]
NoSource   == [state |-> "none", ranges |-> <<>>]

Population == {d \in Docs : dec[d].basis # None}
Pending    == {d \in Population : dec[d].machine = "pending"}
FullText   == run.mode = "full_text"

\* The catalog shows the version and the text that were frozen.
Unchanged(d) == doc[d].state = "ready" /\ doc[d].basis = dec[d].basis

\* current_source: the same file of units as when the thread began
Same(w, d) == doc[d].state = "ready" /\ doc[d].units = rw[w].task[d].units

\* cancelled() of _process_run
Cancelled(w) == rw[w].stop \/ run.cancel \/ run.state \in {"cancelled", "deleted"}

\* Mutant: the attempt is not compared.
HoldsAny(w) == run.state = "running"

\* The worker's attempt is the one that runs.
Holds(w) == run.state = "running" /\ run.attempts = rw[w].attempt

\* FullTextReviewLedger.writing, and what record_review_decision demands
MayWrite(w) == Holds(w) /\ ~run.cancel /\ access

ReviewInit ==
    /\ run    = BlankRun
    /\ dec    = [d \in Docs |-> NoDecision]
    /\ led    = [d \in Docs |-> NoSource]
    /\ rw     = [w \in ReviewWorkers |-> Idle]
    /\ page   = [r \in Reviewers |-> None]
    /\ access = TRUE

-----------------------------------------------------------------------------
(* The row of a run                                                        *)

\* What a verdict adds to the counters of r; n is -1 when it is taken back.
Counted(r, v, n) ==
    [r EXCEPT !.reviewed  = @ + n,
              !.included  = @ + (IF v = "included" THEN n ELSE 0),
              !.excluded  = @ + (IF v = "excluded" THEN n ELSE 0),
              !.attention = @ + (IF v = "needs_attention" THEN n ELSE 0)]

\* Mutant: the verdict that is taken back stays counted.
DemotedOnce(r, v) == Counted([r EXCEPT !.reviewed = @ - 1], "needs_attention", 1)

\* A decision with verdict v becomes one that needs attention.
Demoted(r, v) == Counted(Counted(r, v, -1), "needs_attention", 1)

\* Mutant: the control charges are not counted against their share.
ChargesFreely(r) == ~r.limit

\* charge_control_locked, for a run that has a budget
MayCharge(r) == r.mode = "full_text" => r.controls < MaxControls /\ ~r.limit

Charged(r) == [r EXCEPT !.controls = IF r.mode = "full_text" THEN @ + 1 ELSE @]

\* fail_review_run
FailState(r, why) == IF r.cancel \/ why = "cancelled" THEN "cancelled" ELSE "failed"

\* Every write of a decision gives it a later updated_at: _review_decision_time.
Restamp(ds) ==
    page' = [r \in Reviewers |-> IF page[r] # None /\ page[r].doc \in ds
                                 THEN [page[r] EXCEPT !.current = FALSE] ELSE page[r]]

-----------------------------------------------------------------------------
(* Requests                                                                *)

\* queue_review_run, admit_locked, enable_locked
QueueRun(mode) ==
    LET ready == {d \in Docs : doc[d].state = "ready"}
    IN  /\ boot = "up" /\ access /\ run.state = "none" /\ ready # {}
        /\ Spend(mode)
        /\ run' = [run EXCEPT !.state = "queued", !.mode = mode]
        /\ dec' = [d \in Docs |-> [NoDecision EXCEPT !.basis =
                      IF d \in ready THEN doc[d].basis ELSE None]]
        /\ led' = [d \in Docs |-> [NoSource EXCEPT !.state =
                      IF mode = "selected_passages" \/ ~Exists(d) THEN "none"
                      ELSE IF d \in ready THEN "pending" ELSE "unavailable"]]
        /\ UNCHANGED <<sourceVars, rw, page, access>>

\* cancel_review_run
CancelRun ==
    /\ boot = "up" /\ access
    /\ run.state \in {"queued", "running"} /\ ~run.cancel
    /\ Spend("cancels")
    /\ run' = [run EXCEPT !.cancel = TRUE,
                          !.state  = IF @ = "queued" THEN "cancelled" ELSE @]
    /\ UNCHANGED <<sourceVars, dec, led, rw, page, access>>

\* retry_review_run, reacquire_locked
RetryRun ==
    /\ boot = "up" /\ access
    /\ run.state \in {"failed", "cancelled"} /\ MayCharge(run)
    /\ Spend("retries")
    /\ run' = [Charged(run) EXCEPT !.state = "queued", !.cancel = FALSE]
    /\ UNCHANGED <<sourceVars, dec, led, rw, page, access>>

\* FullTextReviewLedger.delete; the rows go with the run
DeleteRun ==
    /\ boot = "up" /\ access
    /\ run.state \in {"succeeded", "failed", "cancelled"} /\ FullText
    /\ Spend("deletions")
    /\ run'  = [BlankRun EXCEPT !.state = "deleted"]
    /\ dec'  = [d \in Docs |-> NoDecision]
    /\ led'  = [d \in Docs |-> NoSource]
    /\ page' = [r \in Reviewers |-> None]
    /\ UNCHANGED <<sourceVars, rw, access>>

\* _authorize_export_read, membership: what they answer changes
ChangeAccess ==
    /\ Spend("access")
    /\ access' = ~access
    /\ UNCHANGED <<sourceVars, run, dec, led, rw, page>>

\* review_decisions: a reviewer has a decision on the screen
OpenPage(r, d) ==
    /\ boot = "up" /\ d \in Population /\ left["saves"] > 0
    /\ page' = [page EXCEPT ![r] = [doc |-> d, machine |-> dec[d].machine,
                                    human |-> dec[d].human, current |-> TRUE]]
    /\ UNCHANGED <<intakeVars, run, dec, led, rw, access>>

\* Mutant: the page's updated_at is not compared.
AcceptedAnyway(p) == TRUE

\* expected_updated_at is the updated_at of the row
Accepted(p) == p.current

\* adjudicate_review_decision
Adjudicate(r, h) ==
    LET d == page[r].doc
    IN  /\ boot = "up" /\ page[r] # None
        /\ Accepted(page[r]) /\ dec[d].machine # "pending"
        /\ Spend("saves")
        /\ dec' = [dec EXCEPT ![d].human = h]
        /\ Restamp({d})
        /\ UNCHANGED <<sourceVars, run, led, rw, access>>

-----------------------------------------------------------------------------
(* The pool: one source                                                    *)

\* Thread w goes on with d; what it leaves alone of the rest.
TaskTo(w, d, t) == rw' = [rw EXCEPT ![w].task[d] = t]
Step(w, d, pc)  == TaskTo(w, d, [rw[w].task[d] EXCEPT !.pc = pc])
Answer(w, d, v) == TaskTo(w, d, [NoTask EXCEPT !.pc = "done", !.result = v])

\* What thread w has handed out and not yet dealt with.
InPool(w) == {d \in Docs : rw[w].task[d].pc # "none"}

Reading == {"begin", "classify", "inventory", "scan", "call", "close"}

InTask(w, d, pcs) == rw[w].pc \in {"batch", "drain"} /\ rw[w].task[d].pc \in pcs

\* safe_point and its like: WorkflowFailure leaves the source undecided
Raise(w, d) ==
    /\ InTask(w, d, Reading)
    /\ \/ Cancelled(w)
       \/ ~access /\ rw[w].task[d].pc \in {"begin", "classify"}
    /\ TaskTo(w, d, [NoTask EXCEPT !.pc = "raised"])
    /\ UNCHANGED <<intakeVars, run, dec, led, page, access>>

\* writing refuses; any exception but WorkflowFailure is a source's own failure
RefuseWrite(w, d) ==
    /\ InTask(w, d, {"inventory", "scan", "call", "close"})
    /\ ~Cancelled(w) /\ ~MayWrite(w)
    /\ Answer(w, d, "needs_attention")
    /\ UNCHANGED <<intakeVars, run, dec, led, page, access>>

\* A step of a source that is not interrupted.
Reads(w, d, pc) == /\ InTask(w, d, {pc}) /\ ~Cancelled(w) /\ access
                   /\ pc \in {"begin", "classify"} \/ MayWrite(w)

\* _invalidate_locked
Invalid(d) == [state |-> "invalidated",
               ranges |-> [i \in DOMAIN led[d].ranges |-> "invalidated"]]

\* The frozen source is gone or changed before it is read.
BeginStale(w, d) ==
    /\ Reads(w, d, "begin") /\ ~Unchanged(d)
    /\ led' = IF FullText /\ MayWrite(w) THEN [led EXCEPT ![d] = Invalid(d)] ELSE led
    /\ Answer(w, d, "needs_attention")
    /\ UNCHANGED <<intakeVars, run, dec, page, access>>

\* _process_review_decision, _process_text_source: the source is as it was frozen
Begin(w, d) ==
    /\ Reads(w, d, "begin") /\ Unchanged(d)
    /\ TaskTo(w, d, [NoTask EXCEPT !.pc = IF FullText THEN "inventory" ELSE "classify",
                                   !.units = doc[d].units])
    /\ UNCHANGED <<intakeVars, run, dec, led, page, access>>

\* _process_review_decision: passages are found, classified and looked at again
Classify(w, d) ==
    /\ Reads(w, d, "classify")
    /\ \E v \in (IF doc[d].state = "ready" THEN Verdicts ELSE {"needs_attention"}) :
         Answer(w, d, v)
    /\ UNCHANGED <<intakeVars, run, dec, led, page, access>>

\* TextReviewLimit: process_text_source keeps the reason and the run ends
HitLimit(w, d) ==
    /\ run' = [run EXCEPT !.limit = TRUE]
    /\ TaskTo(w, d, [NoTask EXCEPT !.pc = "raised"])

RangesHeld == Cardinality(UNION {{d} \X DOMAIN led[d].ranges : d \in Docs})

\* inventory: the ranges of a source are laid down and the inventory is sealed
Inventory(w, d) ==
    /\ Reads(w, d, "inventory")
    /\ IF led[d].state # "pending"
       THEN Step(w, d, "scan") /\ UNCHANGED <<run, led>>
       ELSE IF ~(Unchanged(d) /\ Same(w, d))
       THEN /\ led' = [led EXCEPT ![d] = Invalid(d)]
            /\ Step(w, d, "scan")
            /\ UNCHANGED run
       ELSE IF RangesHeld + Ranges[d] > MaxCalls
       THEN HitLimit(w, d) /\ UNCHANGED led
       ELSE /\ led' = [led EXCEPT ![d] = [state  |-> "inventoried",
                                          ranges |-> [i \in 1..Ranges[d] |-> "pending"]]]
            /\ Step(w, d, "scan")
            /\ UNCHANGED run
    /\ UNCHANGED <<intakeVars, dec, page, access>>

Unread(d) == {i \in DOMAIN led[d].ranges : led[d].ranges[i] = "pending"}
NextRange(d) == CHOOSE i \in Unread(d) : \A k \in Unread(d) : i <= k

\* The source changed while its ranges are read; what was found in it goes.
Discard(w, d) ==
    /\ led' = [led EXCEPT ![d] = Invalid(d)]
    /\ Step(w, d, "close")

\* charge_call: paid for before the classifier is asked
Scan(w, d) ==
    /\ Reads(w, d, "scan")
    /\ IF led[d].ranges # <<>> /\ ~Same(w, d)
       THEN Discard(w, d) /\ UNCHANGED run
       ELSE /\ UNCHANGED led
            /\ IF Unread(d) = {} THEN Step(w, d, "close") /\ UNCHANGED run
               ELSE IF run.calls = MaxCalls THEN HitLimit(w, d)
               ELSE run' = [run EXCEPT !.calls = @ + 1] /\ Step(w, d, "call")
    /\ UNCHANGED <<intakeVars, dec, page, access>>

\* record: source_current_locked and current_source
Keeps(w, d) == Unchanged(d) /\ Same(w, d)

\* record: one range has its outcome
ReadRange(w, d) ==
    /\ Reads(w, d, "call") /\ guard = None
    /\ IF Keeps(w, d) /\ Unread(d) # {}
       THEN /\ \E o \in {"include", "exclude", "failed"} :
                 led' = [led EXCEPT ![d].ranges[NextRange(d)] = o]
            /\ Step(w, d, "scan")
       ELSE Discard(w, d)
    /\ UNCHANGED <<intakeVars, run, dec, page, access>>

\* Mutant: a range that could not be classified does not count.
SaysLoosely(l) ==
    LET found == {l.ranges[i] : i \in DOMAIN l.ranges}
    IN  IF "include" \in found THEN "included"
        ELSE IF l.state # "inventoried" THEN "needs_attention" ELSE "excluded"

\* _process_text_source, label
Says(l) ==
    LET found == {l.ranges[i] : i \in DOMAIN l.ranges}
    IN  IF "include" \in found THEN "included"
        ELSE IF l.state # "inventoried" \/ found # {"exclude"} THEN "needs_attention"
        ELSE "excluded"

\* _process_text_source, after the last range: the source is looked at again
CloseSource(w, d) ==
    /\ Reads(w, d, "close") /\ guard = None
    /\ led' = IF Unchanged(d) /\ Same(w, d) THEN led ELSE [led EXCEPT ![d] = Invalid(d)]
    /\ Answer(w, d, Says(led'[d]))
    /\ UNCHANGED <<intakeVars, run, dec, page, access>>

-----------------------------------------------------------------------------
(* The coordinator: one run                                                *)

Rest(w) == IF rw[w].old THEN Dead ELSE [Idle EXCEPT !.stop = rw[w].stop]

WorkerTo(w, pc) == rw' = [rw EXCEPT ![w].pc = pc]

\* Gives up; the executor first waits for what is still in the pool.
GiveUp(w, pc, why) ==
    rw' = [rw EXCEPT ![w].pc = pc, ![w].why = why, ![w].seen = {}]

\* claim_review_run
ClaimRun(w) ==
    /\ boot = "up" /\ rw[w].pc = "idle" /\ ~rw[w].stop
    /\ run.state = "queued"
    /\ run' = [run EXCEPT !.state = "running", !.attempts = @ + 1, !.cancel = FALSE]
    /\ rw'  = [rw EXCEPT ![w].pc = "loop", ![w].attempt = run.attempts + 1]
    /\ UNCHANGED <<intakeVars, dec, led, page, access>>

\* _process_run: the next batch, pending_review_decisions
Batch(w) ==
    /\ rw[w].pc = "loop" /\ ~Cancelled(w) /\ Pending # {}
    /\ rw' = [rw EXCEPT ![w].pc = "batch",
                        ![w].task = [d \in Docs |-> IF d \in Pending
                                        THEN [NoTask EXCEPT !.pc = "begin"] ELSE NoTask]]
    /\ UNCHANGED <<intakeVars, run, dec, led, page, access>>

\* record_review_decision: a verdict on a source that changed needs attention
Recorded(d, v) == IF Unchanged(d) THEN v ELSE "needs_attention"

\* _record_review_decision, record_review_decision
Record(w, d) ==
    LET v == Recorded(d, rw[w].task[d].result)
    IN  /\ rw[w].pc = "batch" /\ rw[w].task[d].pc = "done"
        /\ guard = None
        /\ MayWrite(w)
        /\ TaskTo(w, d, NoTask)
        /\ IF dec[d].machine = "pending"
           THEN /\ dec' = [dec EXCEPT ![d].machine = v]
                /\ run' = Counted(run, v, 1)
                /\ Restamp({d})
           ELSE UNCHANGED <<dec, run, page>>
        /\ UNCHANGED <<intakeVars, led, access>>

\* What record raises, and WorkflowFailure, end the batch.
BreakOff(w, d) ==
    /\ rw[w].pc = "batch"
    /\ \/ rw[w].task[d].pc = "done" /\ ~MayWrite(w) /\ GiveUp(w, "drain", "error")
       \/ /\ rw[w].task[d].pc = "raised"
          /\ GiveUp(w, "drain", IF Cancelled(w) THEN "cancelled" ELSE "error")
    /\ UNCHANGED <<intakeVars, run, dec, led, page, access>>

\* The batch is through, or the pool has come to rest; late results are dropped.
EndBatch(w) ==
    /\ \/ /\ rw[w].pc = "batch" /\ \A d \in Docs : rw[w].task[d].pc = "none"
          /\ WorkerTo(w, "loop")
       \/ /\ rw[w].pc = "drain"
          /\ \A d \in Docs : rw[w].task[d].pc \in {"none", "done", "raised"}
          /\ rw' = [rw EXCEPT ![w].pc = "failing", ![w].task = [d \in Docs |-> NoTask]]
    /\ UNCHANGED <<intakeVars, run, dec, led, page, access>>

\* _process_run between batches: _WorkflowCancelled
Interrupted(w) ==
    /\ rw[w].pc = "loop" /\ Cancelled(w)
    /\ GiveUp(w, "failing", "cancelled")
    /\ UNCHANGED <<intakeVars, run, dec, led, page, access>>

\* A thread whose process has ended holds a lock that binds nobody.
TakeGuard(w) == guard = None /\ guard' = IF rw[w].old THEN None ELSE w
FreeGuard(w) == guard' = IF guard = w THEN None ELSE guard

\* _finish_review_run takes the guard
BeginFinish(w) ==
    /\ rw[w].pc = "loop" /\ ~Cancelled(w) /\ Pending = {}
    /\ TakeGuard(w)
    /\ WorkerTo(w, "finishing")
    /\ UNCHANGED <<boot, doc, job, copies, iw, left, run, dec, led, page, access>>

\* _finish_review_run, one decision: mark_review_decision_source_changed has
\* no attempt to compare, FullTextReviewLedger.invalidate does not mind a
\* cancellation
CheckSource(w, d) ==
    /\ rw[w].pc = "finishing" /\ d \in Population \ rw[w].seen
    /\ rw' = [rw EXCEPT ![w].seen = @ \cup {d}]
    /\ IF Unchanged(d) THEN UNCHANGED <<run, dec, led, page>>
       ELSE /\ run.state = "running" /\ dec[d].machine # "pending"
            /\ FullText => Holds(w) /\ access
            /\ led' = IF FullText THEN [led EXCEPT ![d] = Invalid(d)] ELSE led
            /\ run' = Demoted(run, dec[d].machine)
            /\ dec' = [dec EXCEPT ![d].machine = "needs_attention"]
            /\ Restamp({d})
    /\ UNCHANGED <<intakeVars, access>>

\* finish_review_run
FinishRun(w) ==
    /\ rw[w].pc = "finishing" /\ rw[w].seen = Population
    /\ Holds(w) /\ Pending = {}
    /\ run.cancel \/ access
    /\ run' = [run EXCEPT !.state = IF run.cancel THEN "cancelled" ELSE "succeeded"]
    /\ rw'  = [rw EXCEPT ![w] = Rest(w)]
    /\ FreeGuard(w)
    /\ UNCHANGED <<boot, doc, job, copies, iw, left, dec, led, page, access>>

\* What _finish_review_run and the methods it calls raise.
FinishRaises(w) ==
    /\ rw[w].pc = "finishing"
    /\ \/ ~access \/ ~Holds(w) \/ Pending # {}
    /\ GiveUp(w, "failing", "error")
    /\ FreeGuard(w)
    /\ UNCHANGED <<boot, doc, job, copies, iw, left, run, dec, led, page, access>>

\* _fail, fail_review_run with expected_attempt
FailRun(w) ==
    /\ rw[w].pc = "failing"
    /\ run' = IF Holds(w) THEN [run EXCEPT !.state = FailState(run, rw[w].why)] ELSE run
    /\ rw'  = [rw EXCEPT ![w] = Rest(w)]
    /\ UNCHANGED <<intakeVars, dec, led, page, access>>

-----------------------------------------------------------------------------
(* The process                                                             *)

\* close of both coordinators
StopRun ==
    /\ Stop
    /\ rw' = [w \in ReviewWorkers |-> [rw[w] EXCEPT !.stop = @ \/ rw[w].pc # "dead"]]
    /\ UNCHANGED <<run, dec, led, page, access>>

\* The process ends; close() leaves threads behind that do not come to an end.
DownRun ==
    /\ Down
    /\ \E left_behind \in SUBSET {w \in ReviewWorkers : rw[w].stop /\ rw[w].pc # "idle"} :
         rw' = [w \in ReviewWorkers |->
                  IF w \in left_behind THEN [rw[w] EXCEPT !.old = TRUE] ELSE Dead]
    /\ UNCHANGED <<run, dec, led, page, access>>

\* Mutant: recovery forgets that the run was to be cancelled.
RecoveredAnyway(r) == [r EXCEPT !.state = "queued"]

\* recover_running_review_runs, for one running run
Recovered(r) ==
    IF r.cancel THEN [r EXCEPT !.state = "cancelled"]
    ELSE IF ~MayCharge(r) THEN [r EXCEPT !.state = "failed", !.limit = TRUE]
    ELSE [Charged(r) EXCEPT !.state = "queued"]

\* ReviewCoordinator.__init__
RecoverRuns ==
    /\ boot = "ingesting"
    /\ boot' = "up"
    /\ run' = IF run.state = "running" THEN Recovered(run) ELSE run
    /\ rw'  = [w \in ReviewWorkers |-> IF rw[w].pc = "dead" THEN Idle ELSE rw[w]]
    /\ UNCHANGED <<doc, job, copies, iw, guard, left, dec, led, page, access>>

Review(w, d) == \/ Raise(w, d) \/ RefuseWrite(w, d) \/ BeginStale(w, d) \/ Begin(w, d)
                \/ Classify(w, d) \/ Inventory(w, d) \/ Scan(w, d) \/ ReadRange(w, d)
                \/ CloseSource(w, d) \/ Record(w, d) \/ BreakOff(w, d)

Coordinate(w) == \/ ClaimRun(w) \/ Batch(w) \/ EndBatch(w) \/ Interrupted(w)
                 \/ BeginFinish(w) \/ FinishRun(w) \/ FinishRaises(w) \/ FailRun(w)

Request == \/ \E mode \in Modes : QueueRun(mode)
           \/ CancelRun \/ RetryRun \/ DeleteRun \/ ChangeAccess
           \/ \E r \in Reviewers : \/ \E d \in Docs : OpenPage(r, d)
                                   \/ \E h \in Humans \ {"none"} : Adjudicate(r, h)

ReviewStep == \/ Request
              \/ \E w \in ReviewWorkers : \/ Coordinate(w)
                                          \/ \E d \in InPool(w) : Review(w, d)
                                          \/ \E d \in Population : CheckSource(w, d)

-----------------------------------------------------------------------------
(* Properties                                                              *)

ReviewTypeOK ==
    /\ run \in Run
    /\ dec \in [Docs -> Decision]
    /\ DOMAIN led = Docs /\ \A d \in Docs : led[d] \in Source(d)
    /\ rw \in [ReviewWorkers -> Worker]
    /\ page \in [Reviewers -> {None} \cup [doc : Docs, machine : Verdicts \cup {"pending"},
                                           human : Humans, current : BOOLEAN]]
    /\ access \in BOOLEAN

Deciding(v) == {d \in Population : dec[d].machine = v}

\* The counters of a run, which every write moves by increments, say how many
\* decisions of each kind its rows hold (record_review_decision,
\* mark_review_decision_source_changed), through restarts and retries.
CountersAgree ==
    /\ run.reviewed  = Cardinality(Population \ Pending)
    /\ run.included  = Cardinality(Deciding("included"))
    /\ run.excluded  = Cardinality(Deciding("excluded"))
    /\ run.attention = Cardinality(Deciding("needs_attention"))

\* The ledger bears the decision out: one range that was included, or every
\* range of the source excluded.
Supported(d) ==
    IF dec[d].machine = "included"
    THEN \E i \in DOMAIN led[d].ranges : led[d].ranges[i] = "include"
    ELSE led[d].ranges = [i \in 1..Ranges[d] |-> "exclude"]

Succeeds(w) == /\ rw[w].pc = "finishing" /\ rw'[w].pc # "finishing"
               /\ run.state = "running" /\ run'.state = "succeeded"

\* When a run succeeds, every inclusion and every exclusion in it is about the
\* version and the text that were frozen and are searchable at that moment,
\* and in a full-text run the ledger bears it out, whatever attempt read
\* the ranges and whatever happened to the sources meanwhile
\* (_finish_review_run).  A thread that outlived its process is excepted: the
\* lock it holds keeps nobody from the sources.
VerdictsStand ==
    [][\A w \in ReviewWorkers : Succeeds(w) /\ ~rw[w].old =>
         \A d \in Population : dec[d].machine \in {"included", "excluded"} =>
             /\ Unchanged(d)
             /\ FullText => Supported(d)]_reviewVars

\* A running run that was asked to stop ends cancelled, also after a restart,
\* and until then decides on no further source.
CancelWins ==
    [][run.state = "running" /\ run.cancel =>
         /\ run'.state \in {"running", "cancelled"}
         /\ \A d \in Docs : dec'[d].machine \in {dec[d].machine, "needs_attention"}
         /\ Population' \ Pending' = Population \ Pending]_reviewVars

\* A thread of an earlier attempt changes neither the state of the run, nor
\* the ledger, nor a decision that is still open ("Source decisions and
\* terminal saves are also fenced by attempt", docs/FULL_TEXT_REVIEW.md).
AttemptsAreFenced ==
    [][\A w \in ReviewWorkers :
         /\ rw'[w] # rw[w]
         /\ rw[w].pc \notin {"dead", "idle"}
         /\ rw[w].attempt # run.attempts \/ run.state # "running"
         => /\ run'.state = run.state
            /\ led' = led
            /\ Pending' = Pending]_reviewVars

\* A person's judgement lands on the machine decision, and on the earlier
\* judgement, that the person had on the screen.
AdjudicatesWhatItSaw ==
    [][\A d \in Docs : dec'[d].human \notin {dec[d].human, "none"} =>
         \E r \in Reviewers :
            /\ page[r] # None /\ page[r].doc = d
            /\ page[r].machine = dec[d].machine
            /\ page[r].human = dec[d].human]_reviewVars
=============================================================================
