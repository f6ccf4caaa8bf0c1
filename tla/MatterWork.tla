----------------------------- MODULE MatterWork -----------------------------
(***************************************************************************)
(* One matter of the workbench: its conversations, the answers and         *)
(* investigations requested in them, the people on its team and its        *)
(* closure (workspace_store.py, answer_jobs.py, workflow_jobs.py and       *)
(* workbench.py of src/case_intelligence).                                 *)
(*                                                                         *)
(* HTTP handlers, the answer threads, the research threads and the purge   *)
(* share one SQLite database.  A store method runs under the store's lock  *)
(* and in one transaction, so it is one action.  What a worker reads       *)
(* before it generates and what it writes afterwards are separate steps.   *)
(*                                                                         *)
(* A crash ends the process; a thread of Delayed may outlive it on its own *)
(* connection ("Recovery may overlap a delayed worker on another           *)
(* connection", workspace_store.py) and carries on with what it remembers. *)
(***************************************************************************)
EXTENDS Integers, FiniteSets

CONSTANTS
    Jobs,            \* requests, named by their idempotency keys
    KindOf,          \* what each request asks for
    ActorOf,         \* the reviewer who makes each request
    Convs,           \* conversation identifiers
    People, Owner,   \* reviewers of the matter, and its owner
    AnswerWorkers, ResearchWorkers,
    Delayed,         \* threads that may outlive their process
    MaxAttempts,     \* bound on the claims of one job
    MaxCrashes,      \* bound on process crashes
    MaxErrors,       \* bound on database errors nothing recovers from
    None

Kinds    == {"answer", "context", "research", "synthesis"}
Answers  == {j \in Jobs : KindOf[j] \in {"answer", "context"}}
Research == Jobs \ Answers
Fenced   == {j \in Jobs : KindOf[j] \in {"context", "synthesis"}}
Workers  == AnswerWorkers \cup ResearchWorkers

ASSUME RequestAssumption == /\ KindOf \in [Jobs -> Kinds]
                            /\ ActorOf \in [Jobs -> People]
ASSUME PeopleAssumption  == Owner \in People
ASSUME WorkerAssumption  == /\ AnswerWorkers \cap ResearchWorkers = {}
                            /\ Delayed \subseteq Workers
ASSUME BoundAssumption   == /\ MaxAttempts \in Nat /\ MaxErrors \in Nat
                            /\ MaxCrashes \in 0..(MaxAttempts - 1)
ASSUME NoneAssumption    == None \notin Convs \cup Jobs

VARIABLES
    conv,     \* state of each conversation
    job,      \* rows of workbench_answer_job and workbench_research_job
    posted,   \* posted[j]: the attempts whose result was saved for j
    member,   \* people with effective access to the matter
    matter,   \* lifecycle state of the matter and where its source tree is
    purger,   \* what the thread executing the purge does next; lost: it gave up unrecorded
    wk,       \* what each worker thread holds in memory
    boot,     \* how far the process has started
    faults    \* crashes and database errors so far

vars == <<conv, job, posted, member, matter, purger, wk, boot, faults>>

-----------------------------------------------------------------------------
(* Rows                                                                    *)

Active   == {"queued", "running"}
Finished == {"succeeded", "failed", "cancelled"}

Row == [state    : Active \cup Finished \cup {"none", "deleted"},
        conv     : Convs \cup {None},
        cancel   : BOOLEAN,            \* cancellation_requested
        attempts : 0..MaxAttempts,
        from     : Jobs \cup {None}]   \* continued_from_job_id

BlankRow   == [state |-> "none", conv |-> None, cancel |-> FALSE, attempts |-> 0,
               from |-> None]
DeletedRow == [BlankRow EXCEPT !.state = "deleted"]

Memory == [pc      : {"dead", "idle", "claimed", "opened", "working", "produced",
                      "finishing", "failing"},
           job     : Jobs \cup {None},
           attempt : 0..MaxAttempts,
           why     : {"error", "cancelled"}]

Idle == [pc |-> "idle", job |-> None, attempt |-> 0, why |-> "error"]
Dead == [Idle EXCEPT !.pc = "dead"]

Working(j) == job[j].state \in Active

\* _conversation_has_active_answer_locked, _conversation_has_active_research_locked
Busy(c) == \E j \in Jobs : Working(j) /\ job[j].conv = c

\* Mutant: queued work does not hold a purge back.
QuietUnlessRunning == \A j \in Jobs : job[j].state # "running"

\* _active_matter_work_counts_locked
Quiet == \A j \in Jobs : ~Working(j)

\* membership: an effective member of a matter that is open
Access(p) == p \in member /\ matter.state = "active"

Init ==
    /\ \E first \in Convs : conv = [c \in Convs |-> IF c = first THEN "active" ELSE "none"]
    /\ job    = [j \in Jobs |-> BlankRow]
    /\ posted = [j \in Jobs |-> {}]
    /\ member = People
    /\ matter = [state |-> "active", files |-> "present"]
    /\ purger = "none"
    /\ wk     = [w \in Workers |-> Dead]
    /\ boot   = "down"
    /\ faults = [crashes |-> 0, errors |-> 0]

-----------------------------------------------------------------------------
(* Requests                                                                *)

Admit(j, r) == job' = [job EXCEPT ![j] = [r EXCEPT !.state = "queued"]]

\* queue_answer_job, queue_research_job in an open conversation
Ask(j, c) ==
    /\ boot = "up" /\ job[j].state = "none" /\ KindOf[j] # "synthesis"
    /\ Access(ActorOf[j])
    /\ conv[c] = "active" /\ ~Busy(c)
    /\ Admit(j, [BlankRow EXCEPT !.conv = c])
    /\ UNCHANGED <<conv, posted, member, matter, purger, wk, boot, faults>>

\* queue_answer_job from an unsaved draft: the conversation, the question and
\* the job are created together
AskInDraft(j, c) ==
    /\ boot = "up" /\ job[j].state = "none" /\ j \in Answers
    /\ Access(ActorOf[j])
    /\ conv[c] = "none"
    /\ conv' = [conv EXCEPT ![c] = "active"]
    /\ Admit(j, [BlankRow EXCEPT !.conv = c])
    /\ UNCHANGED <<posted, member, matter, purger, wk, boot, faults>>

\* queue_research_job for a full-text synthesis, which has no conversation
AskSynthesis(j) ==
    /\ boot = "up" /\ job[j].state = "none" /\ KindOf[j] = "synthesis"
    /\ Access(ActorOf[j])
    /\ Admit(j, BlankRow)
    /\ UNCHANGED <<conv, posted, member, matter, purger, wk, boot, faults>>

\* cancel_answer_job, cancel_research_job; only the latter asks for access
\* inside its transaction
Cancel(j) ==
    /\ boot = "up" /\ Working(j)
    /\ j \in Research => Access(ActorOf[j])
    /\ job' = [job EXCEPT ![j].cancel = TRUE,
                          ![j].state  = IF @ = "queued" THEN "cancelled" ELSE @]
    /\ UNCHANGED <<conv, posted, member, matter, purger, wk, boot, faults>>

\* Mutant: a retry looks at jobs of its own kind only.
RetryableKind(j) ==
    job[j].conv # None =>
      ~\E k \in Jobs : /\ Working(k) /\ job[k].conv = job[j].conv
                       /\ (k \in Answers) = (j \in Answers)

\* Whether a finished job may be queued again: no other work is under way in
\* its conversation.  Whether the conversation is archived is not asked.
Retryable(j) == job[j].conv # None => ~Busy(job[j].conv)

\* retry_answer_job, retry_research_job of a run that did not succeed; the
\* bound leaves one attempt for every crash still to come
Retry(j) ==
    /\ boot = "up" /\ job[j].state \in {"failed", "cancelled"}
    /\ job[j].attempts + MaxCrashes - faults.crashes < MaxAttempts
    /\ Access(ActorOf[j])
    /\ Retryable(j)
    /\ job' = [job EXCEPT ![j].state = "queued", ![j].cancel = FALSE]
    /\ UNCHANGED <<conv, posted, member, matter, purger, wk, boot, faults>>

\* retry_research_job of a completed run: the run stays as it is, and one
\* continuation of it is queued
Continue(j, k) ==
    /\ boot = "up" /\ job[j].state = "succeeded" /\ KindOf[j] = "research"
    /\ job[k].state = "none" /\ KindOf[k] = "research" /\ ActorOf[k] = ActorOf[j]
    /\ \A i \in Jobs : job[i].from # j
    /\ Access(ActorOf[j])
    /\ Retryable(j)
    /\ Admit(k, [BlankRow EXCEPT !.conv = job[j].conv, !.from = j])
    /\ UNCHANGED <<conv, posted, member, matter, purger, wk, boot, faults>>

-----------------------------------------------------------------------------
(* Conversations and the team                                              *)

\* _ensure_active_conversation_locked
EnsureActive(after) ==
    IF \E c \in Convs : after[c] = "active"
    THEN {after}
    ELSE {[after EXCEPT ![c] = "active"] : c \in {d \in Convs : conv[d] = "none"}}

\* create_conversation
Create(c) ==
    /\ boot = "up" /\ matter.state = "active" /\ conv[c] = "none"
    /\ conv' = [conv EXCEPT ![c] = "active"]
    /\ UNCHANGED <<job, posted, member, matter, purger, wk, boot, faults>>

\* archive_conversation
Archive(c) ==
    /\ boot = "up" /\ matter.state = "active"
    /\ conv[c] \in {"active", "archived"} /\ ~Busy(c)
    /\ conv' \in EnsureActive([conv EXCEPT ![c] = "archived"])
    /\ UNCHANGED <<job, posted, member, matter, purger, wk, boot, faults>>

\* restore_conversation
Restore(c) ==
    /\ boot = "up" /\ matter.state = "active" /\ conv[c] = "archived"
    /\ conv' = [conv EXCEPT ![c] = "active"]
    /\ UNCHANGED <<job, posted, member, matter, purger, wk, boot, faults>>

\* Mutant: the research rows, which have no foreign key, are left behind.
GoesByKey(j, c) == job[j].conv = c /\ j \in Answers

\* What goes with a conversation: answers by foreign key, research by name.
Goes(j, c) == job[j].conv = c

\* delete_conversation
Delete(c) ==
    /\ boot = "up" /\ matter.state = "active"
    /\ conv[c] \in {"active", "archived"} /\ ~Busy(c)
    /\ conv' \in EnsureActive([conv EXCEPT ![c] = "deleted"])
    /\ job' = [j \in Jobs |-> IF Goes(j, c) THEN DeletedRow ELSE job[j]]
    /\ posted' = [j \in Jobs |-> IF Goes(j, c) THEN {} ELSE posted[j]]
    /\ UNCHANGED <<member, matter, purger, wk, boot, faults>>

\* revoke_member and add_member; the owner cannot be removed
Revoke(p) ==
    /\ boot = "up" /\ matter.state = "active" /\ p \in member \ {Owner}
    /\ member' = member \ {p}
    /\ UNCHANGED <<conv, job, posted, matter, purger, wk, boot, faults>>

Grant(p) ==
    /\ boot = "up" /\ matter.state = "active" /\ p \notin member
    /\ member' = member \cup {p}
    /\ UNCHANGED <<conv, job, posted, matter, purger, wk, boot, faults>>
-----------------------------------------------------------------------------
(* Worker threads                                                          *)

Cancelled(j) == job[j].cancel \/ job[j].state = "cancelled"

\* claim_answer_job, claim_research_job: only answers look at the conversation
Claimable(w) ==
    {j \in IF w \in AnswerWorkers THEN Answers ELSE Research :
       /\ job[j].state = "queued"
       /\ j \in Answers =>
            ~\E k \in Answers : job[k].state = "running" /\ job[k].conv = job[j].conv}

Claim(w, j) ==
    /\ boot \in IF w \in AnswerWorkers THEN {"research", "up"} ELSE {"up"}
    /\ wk[w].pc = "idle" /\ matter.state = "active"
    /\ j \in Claimable(w)
    /\ job' = [job EXCEPT ![j].state = "running", ![j].cancel = FALSE,
                          ![j].attempts = @ + 1]
    /\ wk' = [wk EXCEPT ![w] = [pc |-> "claimed", job |-> j,
                                attempt |-> job[j].attempts + 1, why |-> "error"]]
    /\ UNCHANGED <<conv, posted, member, matter, purger, boot, faults>>

\* A step that goes on when ok and may raise whether or not it is.
Proceed(w, here, next, ok) ==
    /\ wk[w].pc = here
    /\ \/ ok /\ wk' = [wk EXCEPT ![w].pc = next]
       \/ \E why \in {"error"} \cup IF Cancelled(wk[w].job) THEN {"cancelled"} ELSE {} :
            wk' = [wk EXCEPT ![w].pc = "failing", ![w].why = why]
    /\ UNCHANGED <<conv, job, posted, member, matter, purger, boot, faults>>

\* AnswerContextRepository.fence, _validate_research_attempt_locked
Holds(w) ==
    LET j == wk[w].job
    IN  /\ job[j].state = "running" /\ job[j].attempts = wk[w].attempt /\ ~job[j].cancel
        /\ Access(ActorOf[j])
        /\ j \in Answers => conv[job[j].conv] = "active"

\* Mutant: get_conversation_any.
InAnyConversation(j) == job[j].conv # None

\* get_conversation lists active conversations only
InOpenConversation(j) == job[j].conv # None /\ conv[job[j].conv] = "active"

\* _process: the first cancelled() probe
Probe(w) == Proceed(w, "claimed", "opened",
                    job[wk[w].job].state # "deleted" /\ ~Cancelled(wk[w].job))

\* _process_answer_job, _process_research_job, _process_full_text_synthesis up
\* to the search: authority, and for an answer the conversation it belongs to
Open(w) ==
    LET j == wk[w].job
    IN  Proceed(w, "opened", "working",
                CASE KindOf[j] = "synthesis" -> Holds(w)
                  [] KindOf[j] = "research"  -> Access(ActorOf[j])
                  [] OTHER                   -> Access(ActorOf[j]) /\ InOpenConversation(j))

\* Search and generation: update_answer_job_stage, set_research_plan,
\* update_research_progress and checkpoint_research_job refuse a job that is not
\* running or is to be cancelled; the fenced kinds also refuse another attempt.
Generate(w) ==
    LET j == wk[w].job
    IN  Proceed(w, "working", "produced",
                IF j \in Fenced THEN Holds(w)
                ELSE job[j].state = "running" /\ ~job[j].cancel)

\* What is asked of the database again once the result is ready.
Recheck(w) ==
    LET j == wk[w].job
    IN  Proceed(w, "produced", "finishing",
                /\ job[j].state # "deleted" /\ ~Cancelled(j)
                /\ j \in Answers => Access(ActorOf[j])
                /\ KindOf[j] = "synthesis" => Holds(w))

-----------------------------------------------------------------------------
(* finish_answer_job, finish_research_job                                  *)

\* Mutant: no kind of job is fenced by its attempt.
SupersededNever(w) == FALSE

Superseded(w) ==
    LET j == wk[w].job
    IN  CASE KindOf[j] = "context"   -> job[j].attempts # wk[w].attempt
          [] KindOf[j] = "synthesis" -> ~Holds(w)
          [] OTHER                   -> FALSE

\* Mutant: the cancellation is not asked for when the result is saved.
SavableAnyway(w) ==
    LET j == wk[w].job
    IN  /\ job[j].state = "running"
        /\ Access(ActorOf[j])
        /\ KindOf[j] = "research" => InOpenConversation(j)

Savable(w) ==
    LET j == wk[w].job
    IN  /\ job[j].state = "running" /\ ~job[j].cancel
        /\ Access(ActorOf[j])
        /\ KindOf[j] = "research" => InOpenConversation(j)

\* The message, the state and the result are written together.
Save(w) ==
    LET j == wk[w].job
    IN  /\ wk[w].pc = "finishing" /\ ~Superseded(w)
        /\ Savable(w)
        /\ job' = [job EXCEPT ![j].state = "succeeded"]
        /\ posted' = [posted EXCEPT ![j] = @ \cup {wk[w].attempt}]
        /\ wk' = [wk EXCEPT ![w] = Idle]
        /\ UNCHANGED <<conv, member, matter, purger, boot, faults>>

\* The job was completed already, or was cancelled while it was being finished.
SaveNothing(w) ==
    LET j == wk[w].job
    IN  /\ wk[w].pc = "finishing" /\ ~Superseded(w)
        /\ \/ job[j].state = "succeeded" /\ UNCHANGED job
           \/ /\ job[j].state = "running" /\ job[j].cancel
              /\ job' = [job EXCEPT ![j].state = "cancelled"]
        /\ wk' = [wk EXCEPT ![w] = Idle]
        /\ UNCHANGED <<conv, posted, member, matter, purger, boot, faults>>

\* Any refusal; the mutation guard's check of the cited sources may also refuse
\* a result that the database would take.
SaveRefused(w) == Proceed(w, "finishing", "finishing", FALSE)

\* Mutant: a failure is written without a look at the row.
FailedAlways(w) ==
    LET j == wk[w].job
    IN  IF job[j].state = "deleted" THEN job[j]
        ELSE [job[j] EXCEPT !.state = IF job[j].cancel THEN "cancelled" ELSE "failed"]

\* fail_answer_job, fail_research_job.  Ordinary research is not fenced.
FailedRow(w) ==
    LET j == wk[w].job
        mine == j \in Answers \cup Fenced => job[j].attempts = wk[w].attempt
        stop == job[j].cancel \/ (j \in Research /\ wk[w].why = "cancelled")
    IN  IF job[j].state = "running" /\ mine
        THEN [job[j] EXCEPT !.state = IF stop THEN "cancelled" ELSE "failed"]
        ELSE job[j]

Fail(w) ==
    /\ wk[w].pc = "failing"
    /\ job' = [job EXCEPT ![wk[w].job] = FailedRow(w)]
    /\ wk' = [wk EXCEPT ![w] = Idle]
    /\ UNCHANGED <<conv, posted, member, matter, purger, boot, faults>>

\* _finish_failure, _fail: an exception of the failure write itself is dropped.
LoseFailure(w) ==
    /\ wk[w].pc = "failing" /\ faults.errors < MaxErrors
    /\ wk' = [wk EXCEPT ![w] = Idle]
    /\ faults' = [faults EXCEPT !.errors = @ + 1]
    /\ UNCHANGED <<conv, job, posted, member, matter, purger, boot>>

\* _run claims outside any try block: an exception there ends the thread.
ClaimRaises(w) ==
    /\ wk[w].pc = "idle" /\ faults.errors < MaxErrors
    /\ wk' = [wk EXCEPT ![w] = Dead]
    /\ faults' = [faults EXCEPT !.errors = @ + 1]
    /\ UNCHANGED <<conv, job, posted, member, matter, purger, boot>>

-----------------------------------------------------------------------------
(* Closing the matter                                                      *)

\* begin_matter_purge, begin_due_matter_purge
BeginPurge ==
    /\ boot = "up" /\ matter.state \in {"active", "purge_failed"}
    /\ Quiet
    /\ matter' = [matter EXCEPT !.state = "purging"]
    /\ purger' = "stop"
    /\ UNCHANGED <<conv, job, posted, member, wk, boot, faults>>

\* execute_matter_purge up to its last write: playback and media are stopped
\* and clip exports removed, the source tree is moved into quarantine, the search
\* projection is deleted, the quarantined tree is erased
PurgeStep ==
    /\ \/ purger = "stop" /\ purger' = "move" /\ UNCHANGED matter
       \/ /\ purger = "move" /\ purger' = "project"
          /\ matter' = [matter EXCEPT !.files = IF @ = "present" THEN "quarantined" ELSE @]
       \/ purger = "project" /\ purger' = "erase" /\ UNCHANGED matter
       \/ purger = "erase" /\ purger' = "close" /\ matter' = [matter EXCEPT !.files = "gone"]
    /\ UNCHANGED <<conv, job, posted, member, wk, boot, faults>>

\* complete_matter_purge
ClosePurge ==
    /\ purger = "close"
    /\ matter' = [matter EXCEPT !.state = "deleted"]
    /\ purger' = "none"
    /\ conv' = [c \in Convs |-> IF conv[c] = "none" THEN "none" ELSE "deleted"]
    /\ job' = [j \in Jobs |-> IF job[j].state = "none" THEN job[j]
                              ELSE DeletedRow]
    /\ posted' = [j \in Jobs |-> {}]
    /\ member' = {}
    /\ UNCHANGED <<wk, boot, faults>>

\* A step raises and fail_matter_purge records it.
FailPurge ==
    /\ purger \notin {"none", "lost"}
    /\ matter' = [matter EXCEPT !.state = "purge_failed"]
    /\ purger' = "none"
    /\ UNCHANGED <<conv, job, posted, member, wk, boot, faults>>

\* What raises is not recorded: cancel_matter of playback and media and the audit
\* entry before them are in no try block, and fail_matter_purge may itself raise.
\* The matter stays purging, which begin_matter_purge refuses.
LosePurge ==
    /\ purger \notin {"none", "lost"}
    /\ purger' = "lost"
    /\ UNCHANGED <<conv, job, posted, member, matter, wk, boot, faults>>

-----------------------------------------------------------------------------
(* The process                                                             *)

\* The process dies; threads of Delayed may go on with what they hold.
Crash ==
    /\ boot # "down" /\ faults.crashes < MaxCrashes
    /\ \E S \in SUBSET {w \in Delayed : wk[w].pc \notin {"dead", "idle"}} :
         wk' = [w \in Workers |-> IF w \in S THEN wk[w] ELSE Dead]
    /\ purger' = "none"
    /\ boot' = "down"
    /\ faults' = [faults EXCEPT !.crashes = @ + 1]
    /\ UNCHANGED <<conv, job, posted, member, matter>>

\* Mutant: a purge that was interrupted is left as it is.
PurgeLeftRunning(state) == state

\* recover_interrupted_matter_purges
PurgeAfterRestart(state) == IF state = "purging" THEN "purge_failed" ELSE state

RecoverPurges ==
    /\ boot = "down"
    /\ matter' = [matter EXCEPT !.state = PurgeAfterRestart(@)]
    /\ boot' = "answers"
    /\ UNCHANGED <<conv, job, posted, member, purger, wk, faults>>

\* Mutant: recovery queues the job again even if it is to be cancelled.
RecoveredAlways(r) == IF r.state = "running" THEN [r EXCEPT !.state = "queued"] ELSE r

\* Mutant: a job to be cancelled is left for its worker to find.
RecoveredUnlessCancelled(r) ==
    IF r.state = "running" /\ ~r.cancel THEN [r EXCEPT !.state = "queued"] ELSE r

\* recover_running_answer_jobs, recover_running_research_jobs
Recovered(r) ==
    IF r.state = "running"
    THEN [r EXCEPT !.state = IF r.cancel THEN "cancelled" ELSE "queued"]
    ELSE r

\* A coordinator recovers the rows of its table and then starts its threads.
StartPool(stage, next, pool, rows) ==
    /\ boot = stage /\ boot' = next
    /\ job' = [j \in Jobs |-> IF j \in rows THEN Recovered(job[j]) ELSE job[j]]
    /\ wk' = [w \in Workers |-> IF w \in pool /\ wk[w].pc = "dead" THEN Idle ELSE wk[w]]
    /\ UNCHANGED <<conv, posted, member, matter, purger, faults>>

StartAnswers  == StartPool("answers", "research", AnswerWorkers, Answers)
StartResearch == StartPool("research", "up", ResearchWorkers, Research)

-----------------------------------------------------------------------------
(* The specification                                                       *)

Request ==
    \/ \E j \in Jobs, c \in Convs : Ask(j, c) \/ AskInDraft(j, c)
    \/ \E j \in Jobs : AskSynthesis(j) \/ Cancel(j) \/ Retry(j)
    \/ \E j, k \in Jobs : Continue(j, k)
    \/ \E c \in Convs : Create(c) \/ Archive(c) \/ Restore(c) \/ Delete(c)
    \/ \E p \in People : Revoke(p) \/ Grant(p)

Process(w) == Probe(w) \/ Open(w) \/ Generate(w) \/ Recheck(w)
              \/ Save(w) \/ SaveNothing(w) \/ SaveRefused(w) \/ Fail(w)

Claiming(w) == \E j \in Jobs : Claim(w, j)

Start == RecoverPurges \/ StartAnswers \/ StartResearch

Purge == PurgeStep \/ ClosePurge \/ FailPurge \/ LosePurge

Next ==
    \/ Request
    \/ \E w \in Workers : Claiming(w) \/ Process(w) \/ LoseFailure(w) \/ ClaimRaises(w)
    \/ BeginPurge \/ Purge
    \/ Crash \/ Start

Spec == Init /\ [][Next]_vars

\* The container restarts a process that ended, and every thread is scheduled.
Fairness == /\ WF_vars(Start)
            /\ WF_vars(Purge)
            /\ \A w \in Workers : WF_vars(Claiming(w)) /\ WF_vars(Process(w))

FairSpec == Spec /\ Fairness

-----------------------------------------------------------------------------
(* Properties                                                              *)

TypeOK ==
    /\ conv \in [Convs -> {"none", "active", "archived", "deleted"}]
    /\ job \in [Jobs -> Row]
    /\ posted \in [Jobs -> SUBSET (1..MaxAttempts)]
    /\ member \subseteq People
    /\ matter \in [state : {"active", "purging", "purge_failed", "deleted"},
                   files : {"present", "quarantined", "gone"}]
    /\ purger \in {"none", "stop", "move", "project", "erase", "close", "lost"}
    /\ wk \in [Workers -> Memory]
    /\ boot \in {"down", "answers", "research", "up"}
    /\ faults \in [crashes : 0..MaxCrashes, errors : 0..MaxErrors]

\* A conversation never has two requests under way, whether they are answers or
\* investigations, and whether they were asked, retried or continued
\* (queue_answer_job, queue_research_job, retry_*_job).
OneJobPerConversation ==
    \A j, k \in Jobs : /\ j # k /\ Working(j) /\ Working(k)
                       /\ job[j].conv # None
                       => job[j].conv # job[k].conv

\* A job has one saved result if it succeeded and none otherwise, however many
\* attempts, delayed threads and retries there were (finish_*_job).
ResultMatchesState ==
    \A j \in Jobs : Cardinality(posted[j]) = IF job[j].state = "succeeded" THEN 1 ELSE 0

\* The saved result of a recorded-context answer or a full-text synthesis is the
\* work of its last attempt, not of a delayed one.
LastAttemptWins == \A j \in Fenced : posted[j] \subseteq {job[j].attempts}

\* Deleting a conversation or a matter leaves no job without a conversation
\* (delete_conversation; research rows have no foreign key).
JobsHaveConversation ==
    \A j \in Jobs : job[j].conv # None => conv[job[j].conv] \in {"active", "archived"}

\* Nothing is under way in a matter that is being or has been purged, and a
\* deleted matter has neither rows nor files (_active_matter_work_counts_locked,
\* execute_matter_purge, complete_matter_purge).
PurgeIsQuiet ==
    matter.state # "active" =>
      /\ \A j \in Jobs : job[j].state \notin Active
      /\ matter.state = "deleted" =>
           /\ matter.files = "gone"
           /\ \A j \in Jobs : job[j].state \in {"none", "deleted"}
           /\ \A c \in Convs : conv[c] \in {"none", "deleted"}

\* A result is saved only for a reviewer who has access at that moment and in a
\* conversation that is not archived, although only investigations look at the
\* conversation when they save.
ResultsLandInTheOpen ==
    [][\A j \in Jobs : posted'[j] \ posted[j] # {} =>
         /\ Access(ActorOf[j])
         /\ job[j].conv # None => conv[job[j].conv] = "active"]_vars

\* A running job asked to cancel can only end cancelled, whatever its worker, a
\* delayed worker or recovery does next.
CancelWins ==
    [][\A j \in Jobs : job[j].state = "running" /\ job[j].cancel =>
         job'[j].state = "cancelled" \/ (job'[j].state = "running" /\ job'[j].cancel)]_vars

\* What the reviewer who asked for j is promised: an open request that can be
\* stopped, answered or ended.
Seen(j) ==
    LET r == job[j]
    IN  [state  |-> CASE r.state = "none"      -> "none"
                      [] r.state = "deleted"   -> "erased"
                      [] r.state = "succeeded" -> "answered"
                      [] Working(j)            -> "open"
                      [] OTHER                 -> "ended",
         stop   |-> Working(j) /\ r.cancel,
         answer |-> posted[j] # {}]

Durable == INSTANCE DurableRequest WITH Requests <- Jobs, request <- [j \in Jobs |-> Seen(j)]

\* The tables of answers and investigations keep the promise of a durable request:
\* whatever crashes, delayed threads, retries, deletions and purges do, it is
\* answered at most once, never once it was to be stopped, and is erased only
\* when it is over.
KeepsPromise == Durable!Spec

\* Every request ends, unless the database failed where nothing recovers from it
\* (AnswerCoordinator, ResearchCoordinator).
RequestsSettle ==
    \A j \in Jobs : job[j].state \in Active ~> (job[j].state \notin Active \/ faults.errors > 0)

\* A purge ends or can be tried again, whichever step fails and wherever the process
\* dies.  Where its failure could not be recorded it holds the matter until the
\* process ends, and can be tried again after the next start
\* (execute_matter_purge, recover_interrupted_matter_purges).
PurgeSettles ==
    matter.state = "purging" ~> (matter.state # "purging" \/ purger = "lost")

\* What test_conversation_organization.py asks of admission: an archived
\* conversation has no request under way.
NoWorkInArchive ==
    \A j \in Jobs : Working(j) /\ job[j].conv # None => conv[job[j].conv] # "archived"
=============================================================================
