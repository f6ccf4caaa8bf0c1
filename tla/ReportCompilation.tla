------------------------- MODULE ReportCompilation -------------------------
(***************************************************************************)
(* The queue of report compilations (report_compilation_jobs.py and        *)
(* report_compilation_flow.py of src/case_intelligence).                   *)
(*                                                                         *)
(* A worker is one process with one compiling thread and the heartbeat     *)
(* thread it starts for each job.  Processes share the control database; a *)
(* claim gives a random lease token and a lease that the heartbeat renews. *)
(* Each method of ReportCompilationJobs is one transaction, so one action. *)
(* What a worker snapshots, records, compiles and saves are separate       *)
(* steps.  Time appears as leases that lapse.  Renewing a lease changes    *)
(* nothing here, and what makes the heartbeat give up the next transaction *)
(* of the thread finds as well.                                            *)
(*                                                                         *)
(* The guards that a snapshot holds are locks of its process: they keep    *)
(* back the edits that this process serves, and no others.                 *)
(***************************************************************************)
EXTENDS Integers, FiniteSets

CONSTANTS
    Jobs,            \* requests, named by their request keys
    ActorOf,         \* the reviewer who makes each request
    Actors,
    Workers,
    ActorLimit,      \* policy.actor_active_limit
    PendingLimit,    \* policy.pending_limit
    MaxAttempts,     \* policy.maximum_attempts
    MaxRetries,      \* bound on retries of one job
    MaxEdits,        \* bound on changes of the selected work
    MaxEnds,         \* bound on shutdowns and crashes of processes
    None

ASSUME ActorAssumption  == ActorOf \in [Jobs -> Actors]
ASSUME PolicyAssumption == /\ ActorLimit \in Nat \ {0} /\ PendingLimit \in Nat \ {0}
                           /\ MaxAttempts \in Nat \ {0}
ASSUME BoundAssumption  == /\ MaxRetries \in Nat /\ MaxEdits \in Nat
                           /\ MaxEnds \in Nat
ASSUME NoneAssumption   == None \notin Jobs

VARIABLES
    job,       \* rows of workbench_report_compilation_job
    reports,   \* reports[j]: the leases under which reports of j were saved
    basis,     \* version of the selected work, and the process that wrote it
    access,    \* reviewers with effective access to the matter
    wk,        \* what each process holds in memory
    used       \* how much of each bound is used up

vars == <<job, reports, basis, access, wk, used>>

-----------------------------------------------------------------------------
(* Rows and memory                                                         *)

Active   == {"queued", "running"}
Versions == 1..(MaxEdits + 1)

\* A claim that is not one of the MaxAttempts follows a retry or a shutdown.
Tokens == 1..(MaxAttempts * (MaxRetries + 1) + MaxEnds)

Row == [state    : Active \cup {"none", "succeeded", "failed", "cancelled"},
        cancel   : BOOLEAN,                  \* cancellation_requested
        attempts : 0..MaxAttempts,
        token    : Tokens \cup {None},       \* lease_token
        live     : BOOLEAN,                  \* now < lease_expires_at
        print    : Versions \cup {None},     \* input_fingerprint
        report   : BOOLEAN]                  \* report_id

Memory == [pc    : {"dead", "idle", "claimed", "started", "resolved", "compiling",
                    "compiled", "saving", "failing"},
           job   : Jobs \cup {None},
           token : Tokens \cup {None},
           print : Versions \cup {None},     \* of the snapshot that is compiled
           stop  : {"no", "asked", "done"},  \* how far close() has come
           why   : {"error", "stopped"}]     \* what the exception was about

Used == [claims  : [Jobs -> 0..(MaxAttempts * (MaxRetries + 1) + MaxEnds)],
         retries : [Jobs -> 0..MaxRetries],
         ends    : 0..MaxEnds]

BlankRow == [state |-> "none", cancel |-> FALSE, attempts |-> 0, token |-> None,
             live |-> FALSE, print |-> None, report |-> FALSE]

Idle == [pc |-> "idle", job |-> None, token |-> None, print |-> None,
         stop |-> "no", why |-> "error"]
Dead == [Idle EXCEPT !.pc = "dead"]

Access(j) == ActorOf[j] \in access

\* _admit
Admitted(j) ==
    LET active == {k \in Jobs : job[k].state \in Active}
    IN  /\ Cardinality(active) < PendingLimit
        /\ Cardinality({k \in active : ActorOf[k] = ActorOf[j]}) < ActorLimit

\* Mutant: the lease token is not compared.
OwnedByAny(w) == job[wk[w].job].state = "running" /\ job[wk[w].job].live

\* _owned with allow_cancelled
Owned(w) ==
    LET r == job[wk[w].job]
    IN  r.state = "running" /\ r.token = wk[w].token /\ r.live

\* Mutant: a cancellation is not looked at.
OwnedRegardless(w) == Owned(w)

\* _owned
OwnedUncancelled(w) == Owned(w) /\ ~job[wk[w].job].cancel

\* cancelled() of _run, but for the heartbeat's flag
Cancelled(w) ==
    wk[w].stop # "no" \/ ~OwnedUncancelled(w) \/ ~Access(wk[w].job)

Init ==
    /\ job     = [j \in Jobs |-> BlankRow]
    /\ reports = [j \in Jobs |-> {}]
    /\ basis   = [version |-> 1, by |-> None]
    /\ access  = Actors
    /\ wk      = [w \in Workers |-> Dead]
    /\ used    = [claims  |-> [j \in Jobs |-> 0], retries |-> [j \in Jobs |-> 0],
                  ends |-> 0]

-----------------------------------------------------------------------------
(* Reviewers                                                               *)

\* queue; a request key that was used before returns its row
Queue(j) ==
    /\ job[j].state = "none" /\ Access(j) /\ Admitted(j)
    /\ job' = [job EXCEPT ![j].state = "queued"]
    /\ UNCHANGED <<reports, basis, access, wk, used>>

\* cancel
Cancel(j) ==
    /\ job[j].state \in Active /\ Access(j)
    /\ job' = [job EXCEPT ![j].cancel = TRUE,
                          ![j].state  = IF @ = "queued" THEN "cancelled" ELSE @]
    /\ UNCHANGED <<reports, basis, access, wk, used>>

\* Mutant: every finished compilation can be run again.
OverAnyway(r) == r.state \in {"failed", "cancelled", "succeeded"}

\* Whether a compilation is over without a report.
Over(r) == r.state \in {"failed", "cancelled"} \/ (r.state = "succeeded" /\ ~r.report)

MayRetry(j) == Over(job[j]) /\ Admitted(j)

\* retry
Retry(j) ==
    /\ Access(j) /\ MayRetry(j) /\ used.retries[j] < MaxRetries
    /\ job' = [job EXCEPT ![j] = [BlankRow EXCEPT !.state = "queued",
                                                  !.report = job[j].report]]
    /\ used' = [used EXCEPT !.retries[j] = @ + 1]
    /\ UNCHANGED <<reports, basis, access, wk>>

\* Process p changes a selected record or a source it cites.
Edit(p) ==
    /\ basis.version \in 1..MaxEdits
    /\ wk[p].pc \notin {"dead", "saving"}
    /\ basis' = [version |-> basis.version + 1, by |-> p]
    /\ UNCHANGED <<job, reports, access, wk, used>>

\* delete_report; the row keeps its state and loses its report_id
DeleteReport(j) ==
    /\ reports[j] # {} /\ access # {}
    /\ reports' = [reports EXCEPT ![j] = {}]
    /\ job' = [job EXCEPT ![j].report = FALSE]
    /\ UNCHANGED <<basis, access, wk, used>>

\* Membership is revoked or given back.
ChangeAccess(a) ==
    /\ access' = IF a \in access THEN access \ {a} ELSE access \cup {a}
    /\ UNCHANGED <<job, reports, basis, wk, used>>

-----------------------------------------------------------------------------
(* Leases                                                                  *)

\* Nobody renewed the lease in time.
Lapse(j) ==
    /\ job[j].state = "running" /\ job[j].live
    /\ job' = [job EXCEPT ![j].live = FALSE]
    /\ UNCHANGED <<reports, basis, access, wk, used>>

\* Without the lease.
Free(r) == [r EXCEPT !.token = None, !.live = FALSE]

\* Mutant: recovery leaves the fingerprint of the lost attempt.
RecoveredKeepingPrint(r) ==
    IF r.state = "running" /\ ~r.live
    THEN [Free(r) EXCEPT !.state = IF r.cancel THEN "cancelled"
                                   ELSE IF r.attempts >= MaxAttempts THEN "failed" ELSE "queued"]
    ELSE r

\* Mutant: recovery queues a job that is to be cancelled.
RecoveredAlways(r) ==
    IF r.state = "running" /\ ~r.live
    THEN [Free(r) EXCEPT !.print = None, !.cancel = FALSE,
                         !.state = IF r.attempts >= MaxAttempts THEN "failed" ELSE "queued"]
    ELSE r

\* Mutant: leases that lapsed are left alone.
RecoveredNever(r) == r

\* _recover, first statement: leases that expired
Recovered(r) ==
    IF r.state = "running" /\ ~r.live
    THEN [Free(r) EXCEPT !.print = None,
                         !.state = IF r.cancel THEN "cancelled"
                                   ELSE IF r.attempts >= MaxAttempts THEN "failed" ELSE "queued"]
    ELSE r

\* _recover, second statement: reviewers without access
Swept(j) ==
    LET r == Recovered(job[j])
    IN  IF r.state \in Active /\ ~Access(j) THEN [Free(r) EXCEPT !.state = "failed"] ELSE r

\* claim: recovery, then the lease of one queued job
Claim(w, j) ==
    LET token == used.claims[j] + 1
        r     == Swept(j)
    IN  /\ wk[w].pc = "idle" /\ wk[w].stop = "no"
        /\ r.state = "queued"
        /\ job' = [k \in Jobs |->
                     IF k = j THEN [r EXCEPT !.state = "running", !.attempts = @ + 1,
                                             !.token = token, !.live = TRUE]
                     ELSE Swept(k)]
        /\ wk' = [wk EXCEPT ![w] = [Idle EXCEPT !.pc = "claimed", !.job = j, !.token = token]]
        /\ used' = [used EXCEPT !.claims[j] = token]
        /\ UNCHANGED <<reports, basis, access>>

\* claim that recovers rows and finds nothing to do
Sweep(w) ==
    /\ wk[w].pc = "idle" /\ wk[w].stop = "no"
    /\ \A j \in Jobs : Swept(j).state # "queued"
    /\ job' = [j \in Jobs |-> Swept(j)]
    /\ UNCHANGED <<reports, basis, access, wk, used>>

-----------------------------------------------------------------------------
(* The compiling thread                                                    *)

Goto(w, pc) == wk' = [wk EXCEPT ![w].pc = pc]

\* The thread is done with its job.
Drop(w) == wk' = [wk EXCEPT ![w] = [Idle EXCEPT !.stop = wk[w].stop]]

\* release: the attempt does not count
Released(r) ==
    [Free(r) EXCEPT !.print    = None,
                    !.attempts = IF @ = 0 THEN 0 ELSE @ - 1,
                    !.state    = IF r.cancel THEN "cancelled" ELSE "queued"]

Release(w) ==
    job' = IF Owned(w) THEN [job EXCEPT ![wk[w].job] = Released(@)] ELSE job

\* The claim is entered in _active, or given back when the process is stopping.
Register(w) ==
    /\ wk[w].pc = "claimed"
    /\ IF wk[w].stop = "no" THEN Goto(w, "started") /\ UNCHANGED job
                            ELSE Drop(w) /\ Release(w)
    /\ UNCHANGED <<reports, basis, access, used>>

\* process: the snapshot
Resolve(w) ==
    /\ wk[w].pc = "started" /\ ~Cancelled(w)
    /\ wk' = [wk EXCEPT ![w].pc = "resolved", ![w].print = basis.version]
    /\ UNCHANGED <<job, reports, basis, access, used>>

\* record_input_fingerprint
Record(w) ==
    LET j == wk[w].job
    IN  /\ wk[w].pc = "resolved"
        /\ OwnedUncancelled(w) /\ job[j].print \in {None, wk[w].print}
        /\ job' = [job EXCEPT ![j].print = wk[w].print]
        /\ Goto(w, "compiling")
        /\ UNCHANGED <<reports, basis, access, used>>

\* compile_report, and cancelled() once it returns
Compile(w) ==
    /\ wk[w].pc = "compiling" /\ ~Cancelled(w)
    /\ Goto(w, "compiled")
    /\ UNCHANGED <<job, reports, basis, access, used>>

\* Mutant: the selected work is not looked at again.
CurrentAnyway(w) == wk[w].print # None

Current(w) == wk[w].print = basis.version

\* finish: the second snapshot, whose guards are held until the report is saved
Resnapshot(w) ==
    /\ wk[w].pc = "compiled" /\ Current(w)
    /\ Goto(w, "saving")
    /\ UNCHANGED <<job, reports, basis, access, used>>

\* complete with create_report_from_sections
Complete(w) ==
    LET j == wk[w].job
    IN  /\ wk[w].pc = "saving"
        /\ OwnedUncancelled(w) /\ Access(j) /\ job[j].print = wk[w].print
        /\ job' = [job EXCEPT ![j] = [Free(@) EXCEPT !.state = "succeeded", !.report = TRUE]]
        /\ reports' = [reports EXCEPT ![j] = @ \cup {wk[w].token}]
        /\ Drop(w)
        /\ UNCHANGED <<basis, access, used>>

\* Any of these steps raises: it may not go on, or something broke in it.
Raise(w) ==
    /\ wk[w].pc \in {"started", "resolved", "compiling", "compiled", "saving"}
    /\ \E why \in {"error"} \cup IF wk[w].stop = "no" THEN {} ELSE {"stopped"} :
         wk' = [wk EXCEPT ![w].pc = "failing", ![w].why = why, ![w].print = None]
    /\ UNCHANGED <<job, reports, basis, access, used>>

\* fail, unless the lease is lost or the write itself raises
Fail(w) ==
    LET j == wk[w].job
    IN  /\ wk[w].pc = "failing"
        /\ \/ /\ Owned(w)
              /\ job' = [job EXCEPT ![j] = [Free(@) EXCEPT
                           !.state = IF job[j].cancel THEN "cancelled" ELSE "failed"]]
           \/ UNCHANGED job
        /\ Drop(w)
        /\ UNCHANGED <<reports, basis, access, used>>

-----------------------------------------------------------------------------
(* The process                                                             *)

Start(w) ==
    /\ wk[w].pc = "dead"
    /\ wk' = [wk EXCEPT ![w] = Idle]
    /\ UNCHANGED <<job, reports, basis, access, used>>

\* close sets _stop, and then releases the jobs in _active
Stop(w) ==
    /\ wk[w].pc # "dead" /\ wk[w].stop = "no" /\ used.ends < MaxEnds
    /\ wk' = [wk EXCEPT ![w].stop = "asked"]
    /\ used' = [used EXCEPT !.ends = @ + 1]
    /\ UNCHANGED <<job, reports, basis, access>>

ReleaseActive(w) ==
    /\ wk[w].stop = "asked"
    /\ wk' = [wk EXCEPT ![w].stop = "done"]
    /\ IF wk[w].pc \in {"idle", "claimed"} THEN UNCHANGED job ELSE Release(w)
    /\ UNCHANGED <<reports, basis, access, used>>

\* The process ends; a thread that close waited for in vain ends with it.
Exit(w) ==
    /\ wk[w].stop = "done"
    /\ wk' = [wk EXCEPT ![w] = Dead]
    /\ UNCHANGED <<job, reports, basis, access, used>>

Crash(w) ==
    /\ wk[w].pc # "dead" /\ used.ends < MaxEnds
    /\ wk' = [wk EXCEPT ![w] = Dead]
    /\ used' = [used EXCEPT !.ends = @ + 1]
    /\ UNCHANGED <<job, reports, basis, access>>

-----------------------------------------------------------------------------
(* The specification                                                       *)

Thread(w) == Register(w) \/ Resolve(w) \/ Record(w) \/ Compile(w) \/ Resnapshot(w)
             \/ Complete(w) \/ Raise(w) \/ Fail(w)

Poll(w) == Sweep(w) \/ \E j \in Jobs : Claim(w, j)

Close(w) == ReleaseActive(w) \/ Exit(w)

Next ==
    \/ \E j \in Jobs : Queue(j) \/ Cancel(j) \/ Retry(j) \/ DeleteReport(j) \/ Lapse(j)
    \/ \E p \in Workers : Edit(p)
    \/ \E a \in Actors : ChangeAccess(a)
    \/ \E w \in Workers : Thread(w) \/ Poll(w) \/ Close(w)
    \/ \E w \in Workers : Start(w) \/ Stop(w) \/ Crash(w)

Spec == Init /\ [][Next]_vars

\* Nobody is left to renew the lease of j.
Abandoned(j) == \A w \in Workers : wk[w].job = j => wk[w].token # job[j].token

\* Threads are scheduled, a process that ended is started again, and time passes.
Fairness ==
    /\ \A w \in Workers : WF_vars(Thread(w)) /\ WF_vars(Poll(w)) /\ WF_vars(Close(w))
                          /\ WF_vars(Start(w))
    /\ \A j \in Jobs : WF_vars(Abandoned(j) /\ Lapse(j))

FairSpec == Spec /\ Fairness

-----------------------------------------------------------------------------
(* Properties                                                              *)

TypeOK ==
    /\ job \in [Jobs -> Row]
    /\ reports \in [Jobs -> SUBSET Tokens]
    /\ basis \in [version : Versions, by : Workers \cup {None}]
    /\ access \subseteq Actors
    /\ wk \in [Workers -> Memory]
    /\ used \in Used

\* An attempt starts afresh: whoever owns a compilation and has recorded nothing
\* finds no fingerprint of an earlier attempt, which it could not match once the
\* selected work changed, and one that waits can be claimed (_recover, release,
\* retry, fail).
AttemptsStartFresh ==
    /\ \A w \in Workers : wk[w].pc \in {"claimed", "started", "resolved"} /\ Owned(w) =>
         job[wk[w].job].print = None
    /\ \A j \in Jobs : job[j].state = "queued" =>
         /\ job[j].token = None /\ ~job[j].cancel /\ ~job[j].report
         /\ job[j].attempts < MaxAttempts

\* However often a compilation was claimed, lost, retried and taken up again, it
\* has at most one report, and only while it is recorded as succeeded with it
\* ("A stale worker cannot create a second report", REPORT_COMPILATION.md).
ReportMatchesJob ==
    \A j \in Jobs : /\ Cardinality(reports[j]) <= 1
                    /\ (reports[j] # {}) = job[j].report
                    /\ job[j].report => job[j].state = "succeeded"

\* While a lease is live and its reviewer has access, only the process that holds
\* it ends the attempt (_owned).
LeaseProtects ==
    [][\A j \in Jobs :
         /\ job[j].state = "running" /\ job[j].live /\ Access(j)
         /\ job'[j].token # job[j].token
         => \E w \in Workers : /\ wk[w].job = j /\ wk[w].token = job[j].token
                               /\ wk'[w] # wk[w]]_vars

\* A report is of the selected work as it is when it is saved, unless another
\* process changed that work: the guards of finish are locks of one process.
SavedReportIsCurrent ==
    [][\A w \in Workers :
         wk[w].pc = "saving" /\ reports' # reports /\ wk'[w] # wk[w] =>
           wk[w].print = basis.version \/ basis.by # w]_vars

\* A running compilation that was asked to stop ends cancelled, or failed if its
\* reviewer lost access, whatever its worker and recovery do next.
CancelWins ==
    [][\A j \in Jobs : job[j].state = "running" /\ job[j].cancel =>
         \/ job'[j].state = "cancelled"
         \/ job'[j].state = "running" /\ job'[j].cancel
         \/ job'[j].state = "failed" /\ ~Access(j)]_vars

\* Every compilation ends, across lapsed leases, shutdowns and crashes.
JobsEnd == \A j \in Jobs : job[j].state \in Active ~> job[j].state \notin Active

\* What DurableRequest sees of a row.
Seen(j) ==
    LET r == job[j]
    IN  [state  |-> CASE r.state = "none"      -> "none"
                      [] r.state \in Active    -> "open"
                      [] r.state = "succeeded" -> "answered"
                      [] OTHER                 -> "ended",
         stop   |-> r.state \in Active /\ r.cancel,
         answer |-> r.report]

Durable == INSTANCE DurableRequest WITH Requests <- Jobs, request <- [j \in Jobs |-> Seen(j)]

\* The queue keeps the promise of a durable request.
KeepsPromise == Durable!Spec

\* "Graceful shutdown stops new claims and fences/requeues current intent"
\* (REPORT_COMPILATION.md): a thread that gave up because its process is stopping
\* does not end a compilation that nobody cancelled.
ShutdownKeepsIntent ==
    [][\A w \in Workers :
         LET j == wk[w].job
         IN  wk[w].pc = "failing" /\ wk[w].why = "stopped" /\ OwnedUncancelled(w) /\ Access(j)
               => job'[j].state \in Active]_vars
=============================================================================
