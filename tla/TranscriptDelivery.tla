-------------------------- MODULE TranscriptDelivery --------------------------
(***************************************************************************)
(* Delivery of the reviewed transcripts of one batch (api.py,              *)
(* review_exports.py, batch_exports.py, delivery_tokens.py and store.py    *)
(* of services/transcription).                                             *)
(*                                                                         *)
(* A correction is a row first; the files that are delivered are rebuilt   *)
(* from the rows afterwards, under a lock per recording.  A link is        *)
(* signed for one recording's package or for the archive of the batch, and *)
(* here every link is of the kind that deletes what it has delivered.  The *)
(* archive is checked against the rows when the link is used, the          *)
(* deletion runs after the response.                                       *)
(*                                                                         *)
(* Links survive a restart of the process, the memory of the used ones     *)
(* does not.                                                               *)
(***************************************************************************)
EXTENDS Integers, FiniteSets, FiniteSetsExt

CONSTANTS
    NumJobs,         \* recordings of the batch, in the order they were created
    Editors,         \* threads that serve corrections
    Servers,         \* threads that serve links
    Links,
    MaxAttempts,     \* max_attempts of a recording
    MaxRevision,
    Events,          \* kinds of events of which only so many happen
    Allotments,      \* how many of each: the choices of one behaviour
    None

ASSUME DeliveryAssumption == /\ NumJobs \in Nat \ {0}
                             /\ MaxAttempts \in Nat \ {0} /\ MaxRevision \in Nat \ {0}
                             /\ {"links", "edits", "retries", "failures", "restarts"}
                                   \subseteq Events
                             /\ Allotments \subseteq [Events -> Nat]
                             /\ Editors \cap Servers = {}
                             /\ None \notin Editors \cup Servers \cup Links \cup Nat

Jobs == 1..NumJobs

VARIABLES
    job,        \* rows of the recordings
    saved,      \* revision the exported files of each recording show
    made,       \* recordings whose work directory holds the machine result
    archive,    \* the archive of the batch, if any, in the output of each recording
    flock,      \* who holds the export lock of each recording
    batchLock,  \* who holds batch_export_lock
    link,       \* the links that were signed
    used,       \* consumed_delivery_tokens
    ed, srv,    \* what the threads hold in memory
    left        \* how much is left of the allotment

vars == <<job, saved, made, archive, flock, batchLock, link, used, ed, srv, left>>

-----------------------------------------------------------------------------
(* Rows, files and threads                                                 *)

States == {"queued", "running", "succeeded", "failed", "reserved", "gone"}

Job == [state : States, attempt : 0..MaxAttempts, rev : 0..MaxRevision]

\* What files hold: a revision of each recording that is in them
Content == UNION {[S -> 0..MaxRevision] : S \in SUBSET Jobs}

Archive == [tag : Content, holds : Content]      \* fingerprint, and members

Link == [anchor : Jobs, batch : BOOLEAN,
         floor : [Jobs -> 0..MaxRevision]]       \* history: revisions when it was asked for

Server == [pc : {"idle", "wait", "before", "refresh", "write", "collect", "pack",
                 "built", "ready", "purge", "files", "rows"},
           link  : Links \cup {None},
           goal  : {"issue", "deliver"},
           batch : BOOLEAN,
           floor : [Jobs -> 0..MaxRevision],
           todo  : SUBSET Jobs,                  \* recordings to refresh
           set   : SUBSET Jobs,                  \* succeeded_jobs
           rev   : 0..MaxRevision,               \* what list_segments returned
           plan  : Content,
           snap  : {<<>>} \cup [Jobs -> Job],
           got   : Content]                      \* what was streamed

Editor == [pc : {"idle", "refresh", "write"}, job : Jobs \cup {None},
           rev : 0..MaxRevision]

NoEdit == [pc |-> "idle", job |-> None, rev |-> 0]
Unsent == [j \in Jobs |-> 0]
Waiting == [pc |-> "idle", link |-> None, goal |-> "issue", batch |-> FALSE,
            floor |-> Unsent, todo |-> {}, set |-> {}, rev |-> 0, plan |-> <<>>,
            snap |-> <<>>, got |-> <<>>]

Terminal(j) == job[j].state \in {"succeeded", "failed", "reserved", "gone"}
Live(j)     == job[j].state \notin {"reserved", "gone"}
Succeeded   == {j \in Jobs : job[j].state = "succeeded"}
Revisions   == [j \in Jobs |-> job[j].rev]

Spend(e) == left[e] > 0 /\ left' = [left EXCEPT ![e] = @ - 1]

\* batch_state_snapshot: status, attempt and revisions of every recording
Snapshot == job

Init ==
    /\ job \in [Jobs -> {[state |-> "succeeded", attempt |-> 1, rev |-> 1],
                         [state |-> "failed", attempt |-> 1, rev |-> 0]}]
    /\ saved = [j \in Jobs |-> IF job[j].state = "succeeded" THEN 1 ELSE 0]
    /\ made = {j \in Jobs : job[j].state = "succeeded"}
    /\ archive = [j \in Jobs |-> None]
    /\ flock = [j \in Jobs |-> None]
    /\ batchLock = None
    /\ link = [l \in Links |-> None]
    /\ used = {}
    /\ ed = [e \in Editors |-> NoEdit]
    /\ srv = [s \in Servers |-> Waiting]
    /\ left \in Allotments

-----------------------------------------------------------------------------
(* Recordings                                                              *)

Untouched == <<flock, batchLock, link, used, ed, srv>>

\* retry_job
Retry(j) ==
    /\ job[j].state = "failed" /\ job[j].attempt < MaxAttempts
    /\ Spend("retries")
    /\ job' = [job EXCEPT ![j].state = "queued"]
    /\ UNCHANGED <<saved, made, archive>> /\ UNCHANGED Untouched

\* The worker claims the recording and ends the attempt.
Work(j) ==
    /\ \/ /\ job[j].state = "queued"
          /\ job' = [job EXCEPT ![j].state = "running", ![j].attempt = @ + 1]
          /\ UNCHANGED <<saved, made>>
       \/ /\ job[j].state = "running"
          /\ \/ /\ job' = [job EXCEPT ![j].state = "succeeded", ![j].rev = 1]
                /\ saved' = [saved EXCEPT ![j] = 1]
                /\ made' = made \cup {j}
             \/ /\ job' = [job EXCEPT ![j].state = "failed"]
                /\ UNCHANGED <<saved, made>>
    /\ UNCHANGED <<archive, left>> /\ UNCHANGED Untouched

\* delete_job_tree of every recording
RemoveTrees == /\ saved'   = [j \in Jobs |-> 0]
               /\ made'    = {}
               /\ archive' = [j \in Jobs |-> None]

\* DELETE FROM jobs
RemoveRows == job' = [j \in Jobs |-> IF job[j].state = "reserved"
                                     THEN [job[j] EXCEPT !.state = "gone"] ELSE job[j]]

\* The next cleanup carries a reservation out.
Sweep ==
    /\ \E j \in Jobs : job[j].state = "reserved"
    /\ RemoveTrees /\ RemoveRows
    /\ UNCHANGED left /\ UNCHANGED Untouched

-----------------------------------------------------------------------------
(* Reviewed exports, under the lock of the recording                       *)

\* Mutant: the rows are read before the lock is held.
MayReadEarly(j) == j \in made /\ job[j].state # "gone"

\* _job_export_lock; the recording and its machine result are there
MayRead(j) == flock[j] = None /\ j \in made /\ job[j].state # "gone"

Locked(j, t)   == flock' = [flock EXCEPT ![j] = t]
Released(t)    == flock' = [j \in Jobs |-> IF flock[j] = t THEN None ELSE flock[j]]

\* update_segment, set_speaker_mapping
Edit(e, j) ==
    /\ ed[e].pc = "idle"
    /\ job[j].state = "succeeded" /\ job[j].rev < MaxRevision
    /\ Spend("edits")
    /\ job' = [job EXCEPT ![j].rev = @ + 1]
    /\ ed'  = [ed EXCEPT ![e] = [NoEdit EXCEPT !.pc = "refresh", !.job = j]]
    /\ UNCHANGED <<saved, made, archive, flock, batchLock, link, used, srv>>

\* refresh_review_exports after an edit: the rows, then the files
EditRefresh(e) ==
    LET j == ed[e].job
    IN  \/ /\ ed[e].pc = "refresh" /\ MayRead(j)
           /\ Locked(j, e)
           /\ ed' = [ed EXCEPT ![e].pc = "write", ![e].rev = job[j].rev]
           /\ UNCHANGED <<job, saved, made, archive, batchLock, link, used, srv, left>>
        \/ /\ ed[e].pc = "write"
           /\ saved' = [saved EXCEPT ![j] = ed[e].rev]
           /\ Released(e)
           /\ ed' = [ed EXCEPT ![e] = NoEdit]
           /\ UNCHANGED <<job, made, archive, batchLock, link, used, srv, left>>

\* export_refresh_pending: the edit stays, its files do not follow
EditRefreshFails(e) ==
    /\ ed[e].pc # "idle" /\ Spend("failures")
    /\ Released(e)
    /\ ed' = [ed EXCEPT ![e] = NoEdit]
    /\ UNCHANGED <<job, saved, made, archive, batchLock, link, used, srv>>

-----------------------------------------------------------------------------
(* Links                                                                   *)

Go(s, r) == srv' = [srv EXCEPT ![s] = r]

\* delivery_package, batch_delivery_package: what the request finds
Ask(s, l, set, batch) ==
    /\ srv[s].pc = "idle" /\ link[l] = None /\ Spend("links")
    /\ \A t \in Servers : srv[t].link # l
    /\ Go(s, [Waiting EXCEPT !.pc = IF batch THEN "wait" ELSE "refresh", !.link = l,
                             !.batch = batch, !.floor = Revisions,
                             !.todo = set, !.set = set])
    /\ UNCHANGED <<job, saved, made, archive, flock, batchLock, link, used, ed>>

AskPackage(s, l) == \E j \in Succeeded : Ask(s, l, {j}, FALSE)

AskArchive(s, l) == /\ \A j \in Jobs : Terminal(j)
                    /\ Succeeded # {}
                    /\ Ask(s, l, Succeeded, TRUE)

\* with batch_export_lock
TakeBatchLock(s) ==
    /\ srv[s].pc = "wait" /\ batchLock = None
    /\ batchLock' = s
    /\ Go(s, [srv[s] EXCEPT !.pc = IF @ = "wait" /\ srv[s].goal = "issue" THEN "refresh"
                                   ELSE "before"])
    /\ UNCHANGED <<job, saved, made, archive, flock, link, used, ed, left>>

\* deliver: the snapshot before, and the recordings it finds
Before(s) ==
    /\ srv[s].pc = "before"
    /\ \A j \in Jobs : Terminal(j)
    /\ Succeeded # {}
    /\ Go(s, [srv[s] EXCEPT !.pc = "refresh", !.snap = Snapshot,
                            !.todo = Succeeded, !.set = Succeeded])
    /\ UNCHANGED <<job, saved, made, archive, flock, batchLock, link, used, ed, left>>

\* refresh_review_exports of the next recording: the rows
ReadRows(s) ==
    /\ srv[s].pc = "refresh" /\ srv[s].todo # {}
    /\ LET j == Min(srv[s].todo)
       IN  /\ MayRead(j)
           /\ Locked(j, s)
           /\ Go(s, [srv[s] EXCEPT !.pc = "write", !.rev = job[j].rev])
    /\ UNCHANGED <<job, saved, made, archive, batchLock, link, used, ed, left>>

\* write_export_bundle, which makes the directory if it is gone
WriteFiles(s) ==
    /\ srv[s].pc = "write"
    /\ LET j == Min(srv[s].todo)
       IN  /\ saved' = [saved EXCEPT ![j] = srv[s].rev]
           /\ Released(s)
           /\ Go(s, [srv[s] EXCEPT !.pc = "refresh", !.todo = @ \ {j}])
    /\ UNCHANGED <<job, made, archive, batchLock, link, used, ed, left>>

Files(S) == [j \in S |-> saved[j]]

\* _valid_cached_archive, in the output of the first recording
Cached(S) == archive[Min(S)] # None /\ archive[Min(S)].tag = Files(S)

\* _fingerprint: what would be packed; a cached archive of the same is kept
Collect(s) ==
    /\ srv[s].pc = "refresh" /\ srv[s].todo = {} /\ srv[s].batch
    /\ \A j \in srv[s].set : saved[j] # 0
    /\ Go(s, [srv[s] EXCEPT !.plan = Files(srv[s].set),
                            !.pc = IF Cached(srv[s].set) THEN "built" ELSE "pack"])
    /\ UNCHANGED <<job, saved, made, archive, flock, batchLock, link, used, ed, left>>

\* _write_archive, and the files hashed once more: built, or planned afresh
Pack(s) ==
    /\ srv[s].pc = "pack"
    /\ \A j \in srv[s].set : saved[j] # 0
    /\ archive' = [archive EXCEPT ![Min(srv[s].set)] =
                     [tag |-> srv[s].plan, holds |-> Files(srv[s].set)]]
    /\ Go(s, IF Files(srv[s].set) = srv[s].plan THEN [srv[s] EXCEPT !.pc = "built"]
             ELSE [srv[s] EXCEPT !.pc = "refresh", !.todo = srv[s].set])
    /\ UNCHANGED <<job, saved, made, flock, batchLock, link, used, ed, left>>

FreeBatchLock(s) == batchLock' = IF batchLock = s THEN None ELSE batchLock

\* signer.issue
Issue(s) ==
    /\ srv[s].goal = "issue"
    /\ IF srv[s].batch THEN srv[s].pc = "built"
                       ELSE srv[s].pc = "refresh" /\ srv[s].todo = {}
    /\ link' = [link EXCEPT ![srv[s].link] =
                  [anchor |-> Min(srv[s].set), batch |-> srv[s].batch,
                   floor |-> srv[s].floor]]
    /\ FreeBatchLock(s)
    /\ Go(s, Waiting)
    /\ UNCHANGED <<job, saved, made, archive, flock, used, ed, left>>

\* deliver: the link is good and its recording is there
Deliver(s, l) ==
    /\ srv[s].pc = "idle" /\ link[l] # None
    /\ Live(link[l].anchor)
    /\ Go(s, [Waiting EXCEPT !.link = l, !.goal = "deliver", !.batch = link[l].batch,
                             !.floor = link[l].floor,
                             !.pc = IF link[l].batch THEN "wait" ELSE "built"])
    /\ UNCHANGED <<job, saved, made, archive, flock, batchLock, link, used, ed, left>>

\* Mutant: what happened while the archive was built does not matter.
SettledAnyway(s) == TRUE

\* before_snapshot is after_snapshot
Settled(s) == Snapshot = srv[s].snap

\* deliver: the batch stood still; the link is consumed
Consume(s) ==
    LET l == srv[s].link
    IN  /\ srv[s].pc = "built" /\ srv[s].goal = "deliver"
        /\ l \notin used
        /\ srv[s].batch => Settled(s) /\ Min(srv[s].set) = link[l].anchor
        /\ used' = used \cup {l}
        /\ FreeBatchLock(s)
        /\ Go(s, [srv[s] EXCEPT !.pc = "ready", !.snap = Snapshot])
        /\ UNCHANGED <<job, saved, made, archive, flock, link, ed, left>>

\* deliver: the batch changed; once more
Again(s) ==
    /\ srv[s].pc = "built" /\ srv[s].goal = "deliver" /\ srv[s].batch
    /\ ~Settled(s)
    /\ Go(s, [srv[s] EXCEPT !.pc = "before"])
    /\ UNCHANGED <<job, saved, made, archive, flock, batchLock, link, used, ed, left>>

\* FileResponse opens the path and sends what is there by now
Stream(s) ==
    LET j == link[srv[s].link].anchor
    IN  /\ srv[s].pc = "ready"
        /\ IF srv[s].batch
           THEN archive[j] # None /\ Go(s, [srv[s] EXCEPT !.pc = "purge",
                                                          !.got = archive[j].holds])
           ELSE saved[j] # 0 /\ Go(s, [srv[s] EXCEPT !.pc = "purge", !.got = Files({j})])
        /\ UNCHANGED <<job, saved, made, archive, flock, batchLock, link, used, ed, left>>

\* Whatever is raised ends the request: tries run out, files or rows are gone,
\* the client goes away.
Fail(s) ==
    /\ srv[s].pc \notin {"idle", "purge", "files", "rows"} /\ Spend("failures")
    /\ Released(s) /\ FreeBatchLock(s)
    /\ Go(s, Waiting)
    /\ UNCHANGED <<job, saved, made, archive, link, used, ed>>

-----------------------------------------------------------------------------
(* Deletion after the response                                             *)

\* delete_batch_if_unchanged, and delete_job, which takes the batch along
MayPurge(s) ==
    IF srv[s].batch THEN Snapshot = srv[s].snap /\ \A j \in Jobs : Terminal(j)
    ELSE job[link[srv[s].link].anchor].state # "gone" /\ \A j \in Jobs : job[j].state # "running"

\* _mark_deletion_group_locked
Purge(s) ==
    /\ srv[s].pc = "purge"
    /\ IF MayPurge(s)
       THEN /\ job' = [j \in Jobs |-> IF job[j].state = "gone" THEN job[j]
                                      ELSE [job[j] EXCEPT !.state = "reserved"]]
            /\ Go(s, [srv[s] EXCEPT !.pc = "files"])
       ELSE Go(s, Waiting) /\ UNCHANGED job
    /\ UNCHANGED <<saved, made, archive, flock, batchLock, link, used, ed, left>>

\* _delete_reserved_group: every tree, then the rows
Delete(s) ==
    \/ /\ srv[s].pc = "files"
       /\ RemoveTrees
       /\ Go(s, [srv[s] EXCEPT !.pc = "rows"])
       /\ UNCHANGED <<job, flock, batchLock, link, used, ed, left>>
    \/ /\ srv[s].pc = "rows"
       /\ RemoveRows
       /\ Go(s, Waiting)
       /\ UNCHANGED <<saved, made, archive, flock, batchLock, link, used, ed, left>>

\* The process ends and starts again: create_app
Restart ==
    /\ Spend("restarts")
    /\ used'      = {}
    /\ flock'     = [j \in Jobs |-> None]
    /\ batchLock' = None
    /\ ed'  = [e \in Editors |-> NoEdit]
    /\ srv' = [s \in Servers |-> Waiting]
    /\ UNCHANGED <<job, saved, made, archive, link>>

-----------------------------------------------------------------------------
(* The specification                                                       *)

Recording(j) == Retry(j) \/ Work(j)

Correction(e) == \/ \E j \in Jobs : Edit(e, j)
                 \/ EditRefresh(e) \/ EditRefreshFails(e)

Request(s) ==
    \/ \E l \in Links : AskPackage(s, l) \/ AskArchive(s, l) \/ Deliver(s, l)
    \/ TakeBatchLock(s) \/ Before(s) \/ ReadRows(s) \/ WriteFiles(s) \/ Collect(s)
    \/ Pack(s) \/ Issue(s) \/ Consume(s) \/ Again(s) \/ Stream(s) \/ Fail(s)
    \/ Purge(s) \/ Delete(s)

Next == \/ \E j \in Jobs : Recording(j)
        \/ \E e \in Editors : Correction(e)
        \/ \E s \in Servers : Request(s)
        \/ Sweep \/ Restart

Spec == Init /\ [][Next]_vars

-----------------------------------------------------------------------------
(* Properties                                                              *)

TypeOK ==
    /\ job \in [Jobs -> Job]
    /\ saved \in [Jobs -> 0..MaxRevision]
    /\ made \subseteq Jobs
    /\ archive \in [Jobs -> Archive \cup {None}]
    /\ flock \in [Jobs -> Editors \cup Servers \cup {None}]
    /\ batchLock \in Servers \cup {None}
    /\ link \in [Links -> Link \cup {None}]
    /\ used \subseteq Links
    /\ ed \in [Editors -> Editor]
    /\ srv \in [Servers -> Server]
    /\ left \in [Events -> Nat]

\* A link of the batch deletes only when it has just streamed the present
\* revision of every recording that its archive holds, whatever was edited,
\* rebuilt or repackaged meanwhile (deliver, delete_batch_if_unchanged: "Purge a
\* terminal batch only if no retry/edit occurred after delivery").  Links of one
\* recording, and recordings that an older list left out, are not covered.
PurgeKeepsEdits ==
    [][\A s \in Servers :
         srv[s].pc = "purge" /\ srv[s].batch /\ srv'[s].pc = "files" =>
            \A j \in DOMAIN srv[s].got : srv[s].got[j] = job[j].rev]_vars

\* What a link streams is nowhere older than what had been reviewed when the
\* link was asked for, however the edits, the rebuilds and the repackaging of
\* other requests fall between (refresh_review_exports, deliver).
StreamsWhatWasReviewed ==
    \A s \in Servers : \A j \in DOMAIN srv[s].got : srv[s].got[j] >= srv[s].floor[j]
=============================================================================
