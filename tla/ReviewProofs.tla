---------------------------- MODULE ReviewProofs ----------------------------
(***************************************************************************)
(* What an every-source review run promises, in any interleaving with      *)
(* ingestion, uploads, adjudication, crashes and restarts.                 *)
(***************************************************************************)
EXTENDS WorkbenchProofs, FiniteSetTheorems

-----------------------------------------------------------------------------
(* The inductive invariant                                                 *)

Active(w) == rw[w].pc \notin {"dead", "idle"}

\* Attempts are numbered apart; only the thread of the running attempt can
\* have sources in hand that are still to be decided.
ThreadInv ==
    /\ run.state # "deleted" => \A w \in ReviewWorkers : rw[w].attempt <= run.attempts
    /\ \A v, w \in ReviewWorkers :
         Active(v) /\ Active(w) /\ rw[v].attempt = rw[w].attempt => v = w
    /\ \A w \in ReviewWorkers :
         rw[w].pc \notin {"batch", "drain"} => \A d \in Docs : rw[w].task[d].pc = "none"
    /\ \A w \in ReviewWorkers : rw[w].pc # "finishing" => rw[w].seen = {}
    /\ run.state = "none" => Population = {} /\ \A w \in ReviewWorkers : ~Active(w)
    /\ \A w \in ReviewWorkers, d \in Docs :
         Holds(w) /\ rw[w].task[d].pc # "none" => d \in Pending

\* In a full-text run the ledger bears out what was decided, and what the
\* running attempt is about to decide.
LedgerInv ==
    FullText =>
      /\ \A d \in Docs : dec[d].machine \in {"included", "excluded"} => Supported(d)
      /\ \A w \in ReviewWorkers, d \in Docs : Holds(w) =>
           /\ rw[w].task[d].pc # "classify"
           /\ rw[w].task[d].pc = "done" => Bears(d, led[d], rw[w].task[d].result)

\* A page that is current shows the decision as it is.
PageInv ==
    /\ run.state = "none" => \A r \in Reviewers : page[r] = None
    /\ \A r \in Reviewers : page[r] # None /\ page[r].current =>
         /\ page[r].machine = dec[page[r].doc].machine
         /\ page[r].human = dec[page[r].doc].human

\* A thread that finishes its run holds the guard, so that what it has looked at
\* is still as it was.
FinishInv ==
    \A w \in ReviewWorkers : rw[w].pc = "finishing" /\ ~rw[w].old =>
      /\ guard = w
      /\ \A d \in rw[w].seen \cap Population :
           dec[d].machine \in {"included", "excluded"} => Unchanged(d)

ReviewInv == ThreadInv /\ LedgerInv /\ PageInv /\ FinishInv /\ CountersAgree

-----------------------------------------------------------------------------
(* What a step does to a thread and to the row of the run                  *)

Becomes(w, pc, n, T, S, o) ==
    /\ rw'[w].pc = pc /\ rw'[w].attempt = n /\ rw'[w].task = T /\ rw'[w].seen = S
    /\ rw'[w].old = o
    /\ \A v \in ReviewWorkers \ {w} : rw'[v] = rw[v]

NoTasks == [d \in Docs |-> NoTask]

LEMMA WorkerParts ==
  ASSUME NEW r \in Worker
  PROVE  /\ \A pc : LET s == [r EXCEPT !.pc = pc]
                    IN  /\ s.pc = pc /\ s.attempt = r.attempt /\ s.task = r.task
                        /\ s.seen = r.seen /\ s.old = r.old
         /\ \A pc, why, S : LET s == [r EXCEPT !.pc = pc, !.why = why, !.seen = S]
                            IN  /\ s.pc = pc /\ s.attempt = r.attempt /\ s.task = r.task
                                /\ s.seen = S /\ s.old = r.old
         /\ \A pc, n : LET s == [r EXCEPT !.pc = pc, !.attempt = n]
                       IN  /\ s.pc = pc /\ s.attempt = n /\ s.task = r.task
                           /\ s.seen = r.seen /\ s.old = r.old
         /\ \A pc, T : LET s == [r EXCEPT !.pc = pc, !.task = T]
                       IN  /\ s.pc = pc /\ s.attempt = r.attempt /\ s.task = T
                           /\ s.seen = r.seen /\ s.old = r.old
         /\ \A S : LET s == [r EXCEPT !.seen = S]
                   IN  /\ s.pc = r.pc /\ s.attempt = r.attempt /\ s.task = r.task
                       /\ s.seen = S /\ s.old = r.old
<1>1. \A pc : LET s == [r EXCEPT !.pc = pc]
              IN  /\ s.pc = pc /\ s.attempt = r.attempt /\ s.task = r.task
                  /\ s.seen = r.seen /\ s.old = r.old
  BY DEF Worker
<1>2. \A pc, why, S : LET s == [r EXCEPT !.pc = pc, !.why = why, !.seen = S]
                      IN  /\ s.pc = pc /\ s.attempt = r.attempt /\ s.task = r.task
                          /\ s.seen = S /\ s.old = r.old
  BY DEF Worker
<1>3. \A pc, n : LET s == [r EXCEPT !.pc = pc, !.attempt = n]
                 IN  /\ s.pc = pc /\ s.attempt = n /\ s.task = r.task
                     /\ s.seen = r.seen /\ s.old = r.old
  BY DEF Worker
<1>4. \A pc, T : LET s == [r EXCEPT !.pc = pc, !.task = T]
                 IN  /\ s.pc = pc /\ s.attempt = r.attempt /\ s.task = T
                     /\ s.seen = r.seen /\ s.old = r.old
  BY DEF Worker
<1>5. \A S : LET s == [r EXCEPT !.seen = S]
             IN  /\ s.pc = r.pc /\ s.attempt = r.attempt /\ s.task = r.task
                 /\ s.seen = S /\ s.old = r.old
  BY DEF Worker
<1>6. QED BY <1>1, <1>2, <1>3, <1>4, <1>5

LEMMA ThreadForms ==
  ASSUME ReviewTyped, NEW w \in ReviewWorkers
  PROVE  /\ \A pc : WorkerTo(w, pc) =>
              Becomes(w, pc, rw[w].attempt, rw[w].task, rw[w].seen, rw[w].old)
         /\ \A pc, why : GiveUp(w, pc, why) =>
              Becomes(w, pc, rw[w].attempt, rw[w].task, {}, rw[w].old)
         /\ rw' = [rw EXCEPT ![w] = Rest(w)] =>
              Becomes(w, IF rw[w].old THEN "dead" ELSE "idle", 0, NoTasks, {}, FALSE)
<1>1. rw \in [ReviewWorkers -> Worker] /\ rw[w] \in Worker
  BY DEF ReviewTyped, ReviewTypeOK
<1>2. ASSUME NEW pc, WorkerTo(w, pc)
      PROVE  Becomes(w, pc, rw[w].attempt, rw[w].task, rw[w].seen, rw[w].old)
  <2>1. rw'[w] = [rw[w] EXCEPT !.pc = pc] /\ \A v \in ReviewWorkers \ {w} : rw'[v] = rw[v]
    BY <1>1, <1>2 DEF WorkerTo
  <2>2. QED BY <1>1, <2>1, WorkerParts DEF Becomes
<1>3. ASSUME NEW pc, NEW why, GiveUp(w, pc, why)
      PROVE  Becomes(w, pc, rw[w].attempt, rw[w].task, {}, rw[w].old)
  <2>1. /\ rw'[w] = [rw[w] EXCEPT !.pc = pc, !.why = why, !.seen = {}]
        /\ \A v \in ReviewWorkers \ {w} : rw'[v] = rw[v]
    BY <1>1, <1>3 DEF GiveUp
  <2>2. QED BY <1>1, <2>1, WorkerParts DEF Becomes
<1>4. ASSUME rw' = [rw EXCEPT ![w] = Rest(w)]
      PROVE  Becomes(w, IF rw[w].old THEN "dead" ELSE "idle", 0, NoTasks, {}, FALSE)
  <2>1. rw'[w] = Rest(w) /\ \A v \in ReviewWorkers \ {w} : rw'[v] = rw[v]
    BY <1>1, <1>4
  <2>2. /\ Rest(w).pc = (IF rw[w].old THEN "dead" ELSE "idle") /\ Rest(w).attempt = 0
        /\ Rest(w).task = NoTasks /\ Rest(w).seen = {} /\ Rest(w).old = FALSE
    BY DEF Rest, Idle, Dead, NoTasks
  <2>3. QED BY <2>1, <2>2 DEF Becomes
<1>5. QED BY <1>2, <1>3, <1>4

LEMMA ThreadSums ==
  ASSUME ReviewTyped, NEW w \in ReviewWorkers
  PROVE  /\ ClaimRun(w) =>
              Becomes(w, "loop", run.attempts + 1, rw[w].task, rw[w].seen, rw[w].old)
         /\ Batch(w) =>
              Becomes(w, "batch", rw[w].attempt,
                      [d \in Docs |-> IF d \in Pending THEN [NoTask EXCEPT !.pc = "begin"] ELSE NoTask],
                      rw[w].seen, rw[w].old)
         /\ EndBatch(w) =>
              \/ Becomes(w, "loop", rw[w].attempt, rw[w].task, rw[w].seen, rw[w].old)
                 /\ \A d \in Docs : rw[w].task[d].pc = "none"
              \/ Becomes(w, "failing", rw[w].attempt, NoTasks, rw[w].seen, rw[w].old)
         /\ \A d \in Docs : CheckSource(w, d) =>
              Becomes(w, "finishing", rw[w].attempt, rw[w].task, rw[w].seen \cup {d}, rw[w].old)
         /\ \A d \in Docs, t \in Task : TaskTo(w, d, t) =>
              Becomes(w, rw[w].pc, rw[w].attempt, [rw[w].task EXCEPT ![d] = t], rw[w].seen,
                      rw[w].old)
<1>1. rw \in [ReviewWorkers -> Worker] /\ rw[w] \in Worker
  BY DEF ReviewTyped, ReviewTypeOK
<1>2. ASSUME ClaimRun(w)
      PROVE  Becomes(w, "loop", run.attempts + 1, rw[w].task, rw[w].seen, rw[w].old)
  <2> DEFINE n == run.attempts + 1
  <2>1. /\ rw'[w] = [rw[w] EXCEPT !.pc = "loop", !.attempt = n]
        /\ \A v \in ReviewWorkers \ {w} : rw'[v] = rw[v]
    BY <1>1, <1>2 DEF ClaimRun
  <2> HIDE DEF n
  <2>2. Becomes(w, "loop", n, rw[w].task, rw[w].seen, rw[w].old)
    BY <1>1, <2>1, WorkerParts DEF Becomes
  <2>3. QED BY <2>2 DEF n
<1>3. ASSUME Batch(w)
      PROVE  Becomes(w, "batch", rw[w].attempt,
                     [d \in Docs |-> IF d \in Pending THEN [NoTask EXCEPT !.pc = "begin"] ELSE NoTask],
                     rw[w].seen, rw[w].old)
  <2> DEFINE T == [d \in Docs |-> IF d \in Pending THEN [NoTask EXCEPT !.pc = "begin"] ELSE NoTask]
  <2>1. /\ rw'[w] = [rw[w] EXCEPT !.pc = "batch", !.task = T]
        /\ \A v \in ReviewWorkers \ {w} : rw'[v] = rw[v]
    BY <1>1, <1>3 DEF Batch
  <2> HIDE DEF T
  <2>2. Becomes(w, "batch", rw[w].attempt, T, rw[w].seen, rw[w].old)
    BY <1>1, <2>1, WorkerParts DEF Becomes
  <2>3. QED BY <2>2 DEF T
<1>4. ASSUME EndBatch(w)
      PROVE  \/ Becomes(w, "loop", rw[w].attempt, rw[w].task, rw[w].seen, rw[w].old)
                /\ \A d \in Docs : rw[w].task[d].pc = "none"
             \/ Becomes(w, "failing", rw[w].attempt, NoTasks, rw[w].seen, rw[w].old)
  <2>1. \/ WorkerTo(w, "loop") /\ \A d \in Docs : rw[w].task[d].pc = "none"
        \/ rw' = [rw EXCEPT ![w].pc = "failing", ![w].task = NoTasks]
    BY <1>4 DEF EndBatch, NoTasks
  <2>2. CASE WorkerTo(w, "loop") /\ \A d \in Docs : rw[w].task[d].pc = "none"
    BY <2>2, ThreadForms
  <2>3. CASE rw' = [rw EXCEPT ![w].pc = "failing", ![w].task = NoTasks]
    <3>1. /\ rw'[w] = [rw[w] EXCEPT !.pc = "failing", !.task = NoTasks]
          /\ \A v \in ReviewWorkers \ {w} : rw'[v] = rw[v]
      BY <1>1, <2>3
    <3>2. QED BY <1>1, <3>1, WorkerParts DEF Becomes
  <2>4. QED BY <2>1, <2>2, <2>3
<1>5. ASSUME NEW d \in Docs, CheckSource(w, d)
      PROVE  Becomes(w, "finishing", rw[w].attempt, rw[w].task, rw[w].seen \cup {d}, rw[w].old)
  <2> DEFINE S == rw[w].seen \cup {d}
  <2>1. /\ rw'[w] = [rw[w] EXCEPT !.seen = S] /\ rw[w].pc = "finishing"
        /\ \A v \in ReviewWorkers \ {w} : rw'[v] = rw[v]
    BY <1>1, <1>5 DEF CheckSource
  <2> HIDE DEF S
  <2>2. Becomes(w, "finishing", rw[w].attempt, rw[w].task, S, rw[w].old)
    BY <1>1, <2>1, WorkerParts DEF Becomes
  <2>3. QED BY <2>2 DEF S
<1>6. ASSUME NEW d \in Docs, NEW t \in Task, TaskTo(w, d, t)
      PROVE  Becomes(w, rw[w].pc, rw[w].attempt, [rw[w].task EXCEPT ![d] = t], rw[w].seen,
                     rw[w].old)
  <2> DEFINE T == [rw[w].task EXCEPT ![d] = t]
  <2>1. /\ rw'[w] = [rw[w] EXCEPT !.task = T]
        /\ \A v \in ReviewWorkers \ {w} : rw'[v] = rw[v]
    BY <1>1, <1>6 DEF TaskTo
  <2>2. [rw[w] EXCEPT !.task = T] = [rw[w] EXCEPT !.pc = rw[w].pc, !.task = T]
    BY <1>1 DEF Worker
  <2> HIDE DEF T
  <2>3. Becomes(w, rw[w].pc, rw[w].attempt, T, rw[w].seen, rw[w].old)
    BY <1>1, <2>1, <2>2, WorkerParts DEF Becomes
  <2>4. QED BY <2>3 DEF T
<1>7. QED BY <1>2, <1>3, <1>4, <1>5, <1>6

RunKept == /\ run'.attempts = run.attempts /\ run'.mode = run.mode
           /\ run'.reviewed = run.reviewed /\ run'.included = run.included
           /\ run'.excluded = run.excluded /\ run'.attention = run.attention
           /\ run'.state = "running" => run.state = "running"
           /\ run'.state = "none" <=> run.state = "none"
           /\ run'.state = "deleted" <=> run.state = "deleted"

LEMMA RunSums ==
  ASSUME ReviewTyped,
         \/ CancelRun \/ RetryRun \/ RecoverRuns
         \/ \E w \in ReviewWorkers : FinishRun(w) \/ FailRun(w)
  PROVE  RunKept
<1>1. run \in Run
  BY DEF ReviewTyped, ReviewTypeOK
<1>2. CASE CancelRun
  <2> DEFINE s == IF run.state = "queued" THEN "cancelled" ELSE run.state
  <2>1. run' = [run EXCEPT !.state = s, !.cancel = TRUE] /\ run.state \in {"queued", "running"}
    BY <1>1, <1>2 DEF CancelRun, Run
  <2>2. s \in {"cancelled", run.state}
    OBVIOUS
  <2> HIDE DEF s
  <2>3. run'.state = s /\ run'.mode = run.mode /\ run'.attempts = run.attempts
        /\ run'.reviewed = run.reviewed /\ run'.included = run.included
        /\ run'.excluded = run.excluded /\ run'.attention = run.attention
    BY <1>1, <2>1 DEF Run
  <2>4. QED BY <2>1, <2>2, <2>3 DEF RunKept
<1>3. CASE RetryRun
  <2> DEFINE n == IF run.mode = "full_text" THEN run.controls + 1 ELSE run.controls
  <2>1. run' = [[run EXCEPT !.controls = n] EXCEPT !.state = "queued", !.cancel = FALSE]
    BY <1>3 DEF RetryRun, Charged
  <2> HIDE DEF n
  <2>2. run.state \in {"failed", "cancelled"}
    BY <1>3 DEF RetryRun
  <2>3. QED BY <1>1, <2>1, <2>2 DEF Run, RunKept
<1>4. CASE RecoverRuns
  <2>1. CASE run.state # "running"
    BY <1>4, <2>1 DEF RecoverRuns, RunKept
  <2>2. CASE run.state = "running"
    <3> DEFINE n == IF run.mode = "full_text" THEN run.controls + 1 ELSE run.controls
    <3>1. \/ run' = [run EXCEPT !.state = "cancelled"]
          \/ run' = [run EXCEPT !.state = "failed", !.limit = TRUE]
          \/ run' = [[run EXCEPT !.controls = n] EXCEPT !.state = "queued"]
      BY <1>4, <2>2 DEF RecoverRuns, Recovered, Charged
    <3> HIDE DEF n
    <3>2. CASE run' = [run EXCEPT !.state = "cancelled"]
      BY <1>1, <2>2, <3>2 DEF Run, RunKept
    <3>3. CASE run' = [run EXCEPT !.state = "failed", !.limit = TRUE]
      BY <1>1, <2>2, <3>3 DEF Run, RunKept
    <3>4. CASE run' = [[run EXCEPT !.controls = n] EXCEPT !.state = "queued"]
      BY <1>1, <2>2, <3>4 DEF Run, RunKept
    <3>5. QED BY <3>1, <3>2, <3>3, <3>4
  <2>3. QED BY <2>1, <2>2
<1>5. ASSUME NEW w \in ReviewWorkers, FinishRun(w) PROVE RunKept
  <2>1. /\ run.state = "running"
        /\ \E s \in {"cancelled", "succeeded"} : run' = [run EXCEPT !.state = s]
    BY <1>5 DEF FinishRun, Holds
  <2>2. QED BY <1>1, <2>1 DEF Run, RunKept
<1>6. ASSUME NEW w \in ReviewWorkers, FailRun(w) PROVE RunKept
  <2>1. \/ run' = run
        \/ /\ run.state = "running"
           /\ \E s \in {"cancelled", "failed"} : run' = [run EXCEPT !.state = s]
    BY <1>6 DEF FailRun, Holds, FailState
  <2>2. QED BY <1>1, <2>1 DEF Run, RunKept
<1>7. QED BY <1>2, <1>3, <1>4, <1>5, <1>6

-----------------------------------------------------------------------------
(* Steps that decide nothing                                               *)

ThreadKept(v) ==
    /\ rw'[v].attempt \in {rw[v].attempt, 0}
    /\ Active(v)' => Active(v) /\ rw'[v].attempt = rw[v].attempt
    /\ \A d \in Docs : \/ rw'[v].task[d] = rw[v].task[d]
                       \/ rw'[v].task[d].pc = "none"
                       \/ rw'[v].task[d].pc = "begin" /\ d \in Pending
    /\ rw'[v].pc \notin {"batch", "drain"} => \A d \in Docs : rw'[v].task[d].pc = "none"
    /\ rw'[v].pc # "finishing" => rw'[v].seen = {}

DecisionsKept == \A d \in Docs : dec'[d].basis = dec[d].basis /\ dec'[d].machine = dec[d].machine

LEMMA QuietStep ==
  ASSUME ReviewTyped, ThreadInv, LedgerInv, CountersAgree,
         RunKept, DecisionsKept, led' = led, \A v \in ReviewWorkers : ThreadKept(v)
  PROVE  ThreadInv' /\ LedgerInv' /\ CountersAgree'
<1>1. Population' = Population /\ Pending' = Pending /\ \A v : Deciding(v)' = Deciding(v)
  BY DEF DecisionsKept, Population, Pending, Deciding
<1>2. ASSUME NEW v \in ReviewWorkers, Holds(v)', NEW d \in Docs, rw'[v].task[d].pc # "none"
      PROVE  /\ Holds(v)
             /\ \/ rw'[v].task[d] = rw[v].task[d]
                \/ rw'[v].task[d].pc = "begin" /\ d \in Pending
  <2>1. Active(v)'
    BY <1>2 DEF ThreadKept, Active
  <2>2. QED BY <1>2, <2>1 DEF ThreadKept, Holds, RunKept
<1>3. run'.state # "deleted" => \A w \in ReviewWorkers : rw'[w].attempt <= run'.attempts
  <2>1. run.attempts >= 0
    BY DEF ReviewTyped, ReviewTypeOK, Run
  <2>2. QED BY <2>1 DEF ThreadInv, ThreadKept, RunKept
<1>4. \A v, w \in ReviewWorkers :
         Active(v)' /\ Active(w)' /\ rw'[v].attempt = rw'[w].attempt => v = w
  BY DEF ThreadInv, ThreadKept
<1>5. /\ \A w \in ReviewWorkers :
           rw'[w].pc \notin {"batch", "drain"} => \A d \in Docs : rw'[w].task[d].pc = "none"
      /\ \A w \in ReviewWorkers : rw'[w].pc # "finishing" => rw'[w].seen = {}
  BY DEF ThreadKept
<1>6. run'.state = "none" => Population' = {} /\ \A w \in ReviewWorkers : ~Active(w)'
  BY <1>1 DEF ThreadInv, RunKept, ThreadKept
<1>7. \A w \in ReviewWorkers, d \in Docs :
         Holds(w)' /\ rw'[w].task[d].pc # "none" => d \in Pending'
  BY <1>1, <1>2 DEF ThreadInv
<1>8. ThreadInv'
  BY <1>3, <1>4, <1>5, <1>6, <1>7 DEF ThreadInv
<1>9. ASSUME FullText', NEW d \in Docs, dec'[d].machine \in {"included", "excluded"}
      PROVE  Supported(d)'
  BY <1>9 DEF LedgerInv, FullText, RunKept, DecisionsKept, Supported
<1>10. ASSUME FullText', NEW w \in ReviewWorkers, NEW d \in Docs, Holds(w)'
       PROVE  /\ rw'[w].task[d].pc # "classify"
              /\ rw'[w].task[d].pc = "done" => Bears(d, led'[d], rw'[w].task[d].result)
  BY <1>2, <1>10 DEF LedgerInv, FullText, RunKept
<1>11. LedgerInv'
  BY <1>9, <1>10 DEF LedgerInv
<1>12. CountersAgree'
  BY <1>1 DEF CountersAgree, RunKept
<1>13. QED BY <1>8, <1>11, <1>12

\* A thread that is left alone.
LEMMA ThreadsStay ==
  ASSUME ThreadInv, NEW v \in ReviewWorkers, rw'[v] = rw[v]
  PROVE  ThreadKept(v)
BY DEF ThreadKept, ThreadInv, Active

LEMMA BecomesKept ==
  ASSUME NEW w \in ReviewWorkers, NEW pc, NEW n, NEW T, NEW S, NEW o, Becomes(w, pc, n, T, S, o),
         n \in {rw[w].attempt, 0},
         pc \notin {"dead", "idle"} => Active(w) /\ n = rw[w].attempt,
         \A d \in Docs : \/ T[d] = rw[w].task[d] \/ T[d].pc = "none"
                         \/ T[d].pc = "begin" /\ d \in Pending,
         pc \notin {"batch", "drain"} => \A d \in Docs : T[d].pc = "none",
         pc # "finishing" => S = {}
  PROVE  ThreadKept(w) /\ \A v \in ReviewWorkers \ {w} : rw'[v] = rw[v]
BY DEF Becomes, ThreadKept, Active

Controls == \/ CancelRun \/ RetryRun \/ ChangeAccess
            \/ \E r \in Reviewers : \/ \E d \in Docs : OpenPage(r, d)
                                    \/ \E h \in Humans \ {"none"} : Adjudicate(r, h)
            \/ UNCHANGED reviewVars

LEMMA ControlsAreQuiet ==
  ASSUME ReviewTyped, ThreadInv, LedgerInv, CountersAgree, Controls
  PROVE  ThreadInv' /\ LedgerInv' /\ CountersAgree'
<1> USE DEF Controls
<1>1. rw' = rw /\ led' = led
  BY DEF CancelRun, RetryRun, ChangeAccess, OpenPage, Adjudicate, reviewVars
<1>2. RunKept
  <2>1. run' = run => RunKept
    BY DEF RunKept
  <2>2. QED BY <2>1, RunSums DEF ChangeAccess, OpenPage, Adjudicate, reviewVars
<1>3. DecisionsKept
  <2>1. dec' = dec \/ \E d, h : dec' = [dec EXCEPT ![d].human = h]
    BY DEF CancelRun, RetryRun, ChangeAccess, OpenPage, Adjudicate, reviewVars
  <2>2. ASSUME NEW d, NEW h, dec' = [dec EXCEPT ![d].human = h] PROVE DecisionsKept
    <3>1. ASSUME NEW e \in Docs
          PROVE  dec'[e].basis = dec[e].basis /\ dec'[e].machine = dec[e].machine
      <4>1. dec[e] \in Decision
        BY DEF ReviewTyped, ReviewTypeOK
      <4>2. dec'[e] = dec[e] \/ dec'[e] = [dec[e] EXCEPT !.human = h]
        BY <2>2 DEF ReviewTyped, ReviewTypeOK
      <4> DEFINE q == [dec[e] EXCEPT !.human = h]
      <4>3. q.basis = dec[e].basis /\ q.machine = dec[e].machine
        BY <4>1 DEF Decision
      <4>4. QED BY <4>2, <4>3
    <3>2. QED BY <3>1 DEF DecisionsKept
  <2>3. QED BY <2>1, <2>2 DEF DecisionsKept
<1>4. QED BY <1>1, <1>2, <1>3, ThreadsStay, QuietStep

Manages(w) == \/ Batch(w) \/ EndBatch(w) \/ Interrupted(w) \/ BeginFinish(w)
              \/ FinishRun(w) \/ FinishRaises(w) \/ FailRun(w)
              \/ \E d \in Docs : BreakOff(w, d)

LEMMA CoordinatorIsQuiet ==
  ASSUME ReviewTyped, ThreadInv, LedgerInv, CountersAgree, NEW w \in ReviewWorkers, Manages(w)
  PROVE  ThreadInv' /\ LedgerInv' /\ CountersAgree'
<1> USE DEF Manages
<1>1. dec' = dec /\ led' = led
  BY DEF Batch, EndBatch, Interrupted, BeginFinish, FinishRun, FinishRaises, FailRun, BreakOff
<1>2. RunKept
  <2>1. run' = run => RunKept
    BY DEF RunKept
  <2>2. QED BY <2>1, RunSums
    DEF Batch, EndBatch, Interrupted, BeginFinish, FinishRaises, BreakOff
<1>3. ThreadKept(w) /\ \A v \in ReviewWorkers \ {w} : rw'[v] = rw[v]
  <2>1. \A d \in Docs : NoTasks[d].pc = "none"
    BY DEF NoTasks, NoTask
  <2>2. /\ rw[w].pc \notin {"batch", "drain"} => \A d \in Docs : rw[w].task[d].pc = "none"
        /\ rw[w].pc # "finishing" => rw[w].seen = {}
    BY DEF ThreadInv
  <2>3. CASE Batch(w)
    <3> DEFINE T == [d \in Docs |-> IF d \in Pending THEN [NoTask EXCEPT !.pc = "begin"] ELSE NoTask]
    <3>1. \A d \in Docs : T[d].pc = "none" \/ (T[d].pc = "begin" /\ d \in Pending)
      BY DEF NoTask
    <3>2. Becomes(w, "batch", rw[w].attempt, T, rw[w].seen, rw[w].old)
      BY <2>3, ThreadSums
    <3>3. rw[w].pc = "loop"
      BY <2>3 DEF Batch
    <3> HIDE DEF T
    <3>4. QED BY <2>2, <3>1, <3>2, <3>3, BecomesKept DEF Active
  <2>4. CASE EndBatch(w)
    <3>1. rw[w].pc \in {"batch", "drain"}
      BY <2>4 DEF EndBatch
    <3>2. CASE /\ Becomes(w, "loop", rw[w].attempt, rw[w].task, rw[w].seen, rw[w].old)
               /\ \A d \in Docs : rw[w].task[d].pc = "none"
      BY <2>2, <3>1, <3>2, BecomesKept DEF Active
    <3>3. CASE Becomes(w, "failing", rw[w].attempt, NoTasks, rw[w].seen, rw[w].old)
      BY <2>1, <2>2, <3>1, <3>3, BecomesKept DEF Active
    <3>4. QED BY <2>4, <3>2, <3>3, ThreadSums
  <2>5. CASE BeginFinish(w)
    <3>1. rw[w].pc = "loop" /\ WorkerTo(w, "finishing")
      BY <2>5 DEF BeginFinish
    <3>2. Becomes(w, "finishing", rw[w].attempt, rw[w].task, rw[w].seen, rw[w].old)
      BY <3>1, ThreadForms
    <3>3. QED BY <2>2, <3>1, <3>2, BecomesKept DEF Active
  <2>6. CASE Interrupted(w) \/ FinishRaises(w)
    <3>1. (\E why : GiveUp(w, "failing", why)) /\ rw[w].pc \in {"loop", "finishing"}
      BY <2>6 DEF Interrupted, FinishRaises
    <3>2. Becomes(w, "failing", rw[w].attempt, rw[w].task, {}, rw[w].old)
      BY <3>1, ThreadForms
    <3>3. QED BY <2>2, <3>1, <3>2, BecomesKept DEF Active
  <2>7. CASE \E d \in Docs : BreakOff(w, d)
    <3>1. (\E why : GiveUp(w, "drain", why)) /\ rw[w].pc = "batch"
      BY <2>7 DEF BreakOff
    <3>2. Becomes(w, "drain", rw[w].attempt, rw[w].task, {}, rw[w].old)
      BY <3>1, ThreadForms
    <3>3. QED BY <3>1, <3>2, BecomesKept DEF Active
  <2>8. CASE FinishRun(w) \/ FailRun(w)
    <3>1. rw' = [rw EXCEPT ![w] = Rest(w)]
      BY <2>8 DEF FinishRun, FailRun
    <3>2. Becomes(w, IF rw[w].old THEN "dead" ELSE "idle", 0, NoTasks, {}, FALSE)
      BY <3>1, ThreadForms
    <3>3. QED BY <2>1, <3>2, BecomesKept
  <2>9. QED BY <2>3, <2>4, <2>5, <2>6, <2>7, <2>8
<1>4. QED BY <1>1, <1>2, <1>3, ThreadsStay, QuietStep DEF DecisionsKept

LEMMA ProcessIsQuiet ==
  ASSUME ReviewTyped, ThreadInv, LedgerInv, CountersAgree, StopRun \/ DownRun \/ RecoverRuns
  PROVE  ThreadInv' /\ LedgerInv' /\ CountersAgree'
<1>1. dec' = dec /\ led' = led
  BY DEF StopRun, DownRun, RecoverRuns
<1>2. RunKept
  <2>1. run' = run => RunKept
    BY DEF RunKept
  <2>2. QED BY <2>1, RunSums DEF StopRun, DownRun
<1>3. ASSUME NEW v \in ReviewWorkers PROVE ThreadKept(v)
  <2>1. rw[v] \in Worker
    BY DEF ReviewTyped, ReviewTypeOK
  <2>2. \/ rw'[v] = rw[v] \/ rw'[v] = Dead \/ rw'[v] = Idle
        \/ \E b : rw'[v] = [rw[v] EXCEPT !.stop = b]
        \/ rw'[v] = [rw[v] EXCEPT !.old = TRUE]
    BY DEF StopRun, DownRun, RecoverRuns
  <2>3. CASE rw'[v] = Dead \/ rw'[v] = Idle
    BY <2>3 DEF Dead, Idle, ThreadKept, Active, NoTask
  <2>4. CASE (\E b : rw'[v] = [rw[v] EXCEPT !.stop = b]) \/ rw'[v] = [rw[v] EXCEPT !.old = TRUE]
    <3>1. /\ rw'[v].pc = rw[v].pc /\ rw'[v].attempt = rw[v].attempt
          /\ rw'[v].task = rw[v].task /\ rw'[v].seen = rw[v].seen
      BY <2>1, <2>4 DEF Worker
    <3>2. QED BY <3>1 DEF ThreadKept, ThreadInv, Active
  <2>5. QED BY <2>2, <2>3, <2>4, ThreadsStay
<1>4. QED BY <1>1, <1>2, <1>3, QuietStep DEF DecisionsKept

-----------------------------------------------------------------------------
(* Counting                                                                *)

One(x, y) == IF x = y THEN 1 ELSE 0

LEMMA CountedParts ==
  ASSUME NEW r \in Run, NEW v \in Verdicts, NEW n \in Int
  PROVE  LET c == Counted(r, v, n)
         IN  /\ c.state = r.state /\ c.mode = r.mode /\ c.attempts = r.attempts
             /\ c.cancel = r.cancel
             /\ c.reviewed  = r.reviewed + n
             /\ c.included  = r.included + n * One(v, "included")
             /\ c.excluded  = r.excluded + n * One(v, "excluded")
             /\ c.attention = r.attention + n * One(v, "needs_attention")
BY DEF Counted, Run, One

LEMMA DecidingMoves ==
  ASSUME ReviewTyped, NEW d \in Population, NEW v,
         dec' = [dec EXCEPT ![d].machine = v]
  PROVE  /\ Population' = Population
         /\ Pending' = IF v = "pending" THEN Pending \cup {d} ELSE Pending \ {d}
         /\ \A x : /\ Cardinality(Deciding(x)) \in Nat
                   /\ Cardinality(Deciding(x)') = Cardinality(Deciding(x))
                        - One(x, dec[d].machine) + One(x, v)
<1>1. /\ dec'[d].basis = dec[d].basis /\ dec'[d].machine = v /\ dec'[d].human = dec[d].human
      /\ \A e \in Docs \ {d} : dec'[e] = dec[e]
      /\ d \in Docs
  BY DEF ReviewTyped, ReviewTypeOK, Decision, Population
<1>2. Population' = Population
  BY <1>1 DEF Population
<1>3. Pending' = IF v = "pending" THEN Pending \cup {d} ELSE Pending \ {d}
  BY <1>1, <1>2 DEF Pending, Population
<1>4. ASSUME NEW x
      PROVE  /\ Cardinality(Deciding(x)) \in Nat
             /\ Cardinality(Deciding(x)') = Cardinality(Deciding(x))
                  - One(x, dec[d].machine) + One(x, v)
  <2>1. IsFiniteSet(Deciding(x)) /\ Cardinality(Deciding(x)) \in Nat
    <3>1. Deciding(x) \subseteq Docs
      BY DEF Deciding, Population
    <3>2. QED BY <3>1, DocsAssumption, FS_Subset, FS_CardinalityType
  <2>2. CASE x = dec[d].machine /\ x # v
    <3>1. Deciding(x)' = Deciding(x) \ {d} /\ d \in Deciding(x)
      BY <1>1, <1>2, <2>2 DEF Deciding, Population
    <3>2. Cardinality(Deciding(x)') = Cardinality(Deciding(x)) - 1
      BY <2>1, <3>1, FS_RemoveElement
    <3>3. One(x, dec[d].machine) = 1 /\ One(x, v) = 0
      BY <2>2 DEF One
    <3>4. QED BY <2>1, <3>2, <3>3
  <2>3. CASE x # dec[d].machine /\ x = v
    <3>1. Deciding(x)' = Deciding(x) \cup {d} /\ d \notin Deciding(x)
      BY <1>1, <1>2, <2>3 DEF Deciding, Population
    <3>2. Cardinality(Deciding(x)') = Cardinality(Deciding(x)) + 1
      BY <2>1, <3>1, FS_AddElement
    <3>3. One(x, dec[d].machine) = 0 /\ One(x, v) = 1
      BY <2>3 DEF One
    <3>4. QED BY <2>1, <3>2, <3>3
  <2>4. CASE (x = dec[d].machine) <=> (x = v)
    <3>1. Deciding(x)' = Deciding(x)
      BY <1>1, <1>2, <2>4 DEF Deciding, Population
    <3>2. One(x, dec[d].machine) = One(x, v) /\ One(x, v) \in Int
      BY <2>4 DEF One
    <3>3. QED BY <2>1, <3>1, <3>2
  <2>5. QED BY <2>1, <2>2, <2>3, <2>4
<1>5. QED BY <1>2, <1>3, <1>4

\* A verdict on a source that was open is counted once.
LEMMA CountsVerdict ==
  ASSUME ReviewTyped, CountersAgree, NEW d \in Pending, NEW v \in Verdicts,
         dec' = [dec EXCEPT ![d].machine = v], run' = Counted(run, v, 1)
  PROVE  CountersAgree'
<1>1. run \in Run /\ d \in Population /\ dec[d].machine = "pending" /\ v # "pending"
  BY DEF ReviewTyped, ReviewTypeOK, Pending, Verdicts
<1>2. run'.reviewed = Cardinality(Population' \ Pending')
  <2>1. Population' \ Pending' = (Population \ Pending) \cup {d} /\ d \notin Population \ Pending
    BY <1>1, DecidingMoves
  <2>2. IsFiniteSet(Population \ Pending)
    BY DocsAssumption, FS_Subset DEF Population
  <2>3. Cardinality(Population' \ Pending') = Cardinality(Population \ Pending) + 1
    BY <2>1, <2>2, FS_AddElement
  <2>4. run'.reviewed = run.reviewed + 1
    BY <1>1, CountedParts
  <2>5. QED BY <2>3, <2>4 DEF CountersAgree
<1>3. /\ run'.included  = run.included + One(v, "included")
      /\ run'.excluded  = run.excluded + One(v, "excluded")
      /\ run'.attention = run.attention + One(v, "needs_attention")
  BY <1>1, CountedParts DEF One
<1>4. \A x \in Verdicts : Cardinality(Deciding(x)') = Cardinality(Deciding(x)) + One(v, x)
  <2>1. \A x : /\ Cardinality(Deciding(x)) \in Nat
               /\ Cardinality(Deciding(x)') = Cardinality(Deciding(x))
                    - One(x, dec[d].machine) + One(x, v)
    BY <1>1, DecidingMoves
  <2>2. ASSUME NEW x \in Verdicts
        PROVE  One(x, dec[d].machine) = 0 /\ One(x, v) = One(v, x) /\ One(x, v) \in Int
    BY <1>1, <2>2 DEF One, Verdicts
  <2>3. QED BY <2>1, <2>2
<1>5. QED BY <1>2, <1>3, <1>4 DEF CountersAgree, Verdicts

\* A verdict that is taken back is counted no more.
LEMMA CountsDemotion ==
  ASSUME ReviewTyped, CountersAgree, NEW d \in Population \ Pending,
         dec' = [dec EXCEPT ![d].machine = "needs_attention"],
         run' = Demoted(run, dec[d].machine)
  PROVE  /\ CountersAgree'
         /\ run'.state = run.state /\ run'.mode = run.mode /\ run'.attempts = run.attempts
<1> DEFINE m == dec[d].machine
           r == Counted(run, m, -1)
<1>1. run \in Run /\ d \in Population /\ d \in Docs /\ m \in Verdicts /\ m # "pending"
  BY DEF ReviewTyped, ReviewTypeOK, Pending, Population, Verdicts, Decision
<1>2. /\ r.state = run.state /\ r.mode = run.mode /\ r.attempts = run.attempts
      /\ r.reviewed  = run.reviewed - 1
      /\ r.included  = run.included - One(m, "included")
      /\ r.excluded  = run.excluded - One(m, "excluded")
      /\ r.attention = run.attention - One(m, "needs_attention")
      /\ r \in Run
  <2>1. r \in Run
    BY <1>1, CountedTyped
  <2>2. /\ r.state = run.state /\ r.mode = run.mode /\ r.attempts = run.attempts
        /\ r.reviewed  = run.reviewed + (-1)
        /\ r.included  = run.included + (-1) * One(m, "included")
        /\ r.excluded  = run.excluded + (-1) * One(m, "excluded")
        /\ r.attention = run.attention + (-1) * One(m, "needs_attention")
    BY <1>1, CountedParts
  <2> HIDE DEF r
  <2>3. QED BY <1>1, <2>1, <2>2 DEF Run, One
<1>3. run' = Counted(r, "needs_attention", 1)
  BY DEF Demoted
<1> HIDE DEF r
<1>4. /\ run'.state = r.state /\ run'.mode = r.mode /\ run'.attempts = r.attempts
      /\ run'.reviewed = r.reviewed + 1
      /\ run'.included = r.included /\ run'.excluded = r.excluded
      /\ run'.attention = r.attention + 1
  <2>1. /\ r.included \in Int /\ r.excluded \in Int /\ "needs_attention" \in Verdicts
    BY <1>2 DEF Run, Verdicts
  <2>2. /\ run'.state = r.state /\ run'.mode = r.mode /\ run'.attempts = r.attempts
        /\ run'.reviewed = r.reviewed + 1
        /\ run'.included = r.included + 1 * One("needs_attention", "included")
        /\ run'.excluded = r.excluded + 1 * One("needs_attention", "excluded")
        /\ run'.attention = r.attention + 1 * One("needs_attention", "needs_attention")
    BY <1>2, <1>3, <2>1, CountedParts
  <2>3. QED BY <2>1, <2>2 DEF One
<1>5. Population' \ Pending' = Population \ Pending
  <2>1. "needs_attention" # "pending" /\ d \notin Pending
    OBVIOUS
  <2>2. Population' = Population /\ Pending' = Pending \ {d}
    BY <1>1, <2>1, DecidingMoves
  <2>3. QED BY <2>1, <2>2
<1>6. \A x : /\ Cardinality(Deciding(x)) \in Nat
             /\ Cardinality(Deciding(x)') = Cardinality(Deciding(x))
                  - One(x, m) + One(x, "needs_attention")
  BY <1>1, DecidingMoves
<1>7. /\ run.included \in Int /\ run.excluded \in Int /\ run.attention \in Int
      /\ run.reviewed \in Int
  BY <1>1 DEF Run
<1>8. CountersAgree'
  <2>1. run'.reviewed = run.reviewed
    BY <1>2, <1>4, <1>7
  <2>2. run'.included = Cardinality(Deciding("included")')
    BY <1>2, <1>4, <1>6, <1>7 DEF CountersAgree, One
  <2>3. run'.excluded = Cardinality(Deciding("excluded")')
    BY <1>2, <1>4, <1>6, <1>7 DEF CountersAgree, One
  <2>4. run'.attention = Cardinality(Deciding("needs_attention")')
    BY <1>2, <1>4, <1>6, <1>7 DEF CountersAgree, One
  <2>5. QED BY <1>5, <2>1, <2>2, <2>3, <2>4 DEF CountersAgree
<1>9. QED BY <1>2, <1>4, <1>8

-----------------------------------------------------------------------------
(* Steps that decide, and the life of a run                                *)

LEMMA AtRest ==
  ASSUME ReviewTyped, ThreadInv, NEW w \in ReviewWorkers, ~Active(w)
  PROVE  \A d \in Docs : rw[w].task[d].pc = "none"
BY DEF ThreadInv, Active

LEMMA QueueIsFresh ==
  ASSUME ReviewTyped, ThreadInv, LedgerInv, CountersAgree, NEW mode \in Modes, QueueRun(mode)
  PROVE  ThreadInv' /\ LedgerInv' /\ CountersAgree'
<1>1. /\ run' = [run EXCEPT !.state = "queued", !.mode = mode] /\ rw' = rw
      /\ run.state = "none" /\ run \in Run
  BY DEF QueueRun, ReviewTyped, ReviewTypeOK
<1>2. /\ run'.state = "queued" /\ run'.attempts = run.attempts
      /\ run'.reviewed = run.reviewed /\ run'.included = run.included
      /\ run'.excluded = run.excluded /\ run'.attention = run.attention
  BY <1>1 DEF Run
<1>3. \A d \in Docs : dec'[d].machine = "pending"
  BY DEF QueueRun, NoDecision
<1>4. ThreadInv'
  BY <1>1, <1>2 DEF ThreadInv, Active, Holds
<1>5. LedgerInv'
  BY <1>2, <1>3 DEF LedgerInv, Holds
<1>6. /\ Population = {} /\ Population \ Pending = {}
      /\ \A x : x # "pending" => Deciding(x) = {}
  BY <1>1 DEF ThreadInv, Deciding
<1>7. /\ Population' \ Pending' = {}
      /\ \A x : x # "pending" => Deciding(x)' = {}
  BY <1>3 DEF Population, Pending, Deciding
<1>8. CountersAgree'
  <2>1. \A x \in Verdicts : Deciding(x)' = Deciding(x)
    BY <1>6, <1>7 DEF Verdicts
  <2>2. QED BY <1>2, <1>6, <1>7, <2>1 DEF CountersAgree, Verdicts
<1>9. QED BY <1>4, <1>5, <1>8

LEMMA DeletedIsBlank ==
  ASSUME ReviewTyped, ThreadInv, LedgerInv, CountersAgree, DeleteRun
  PROVE  ThreadInv' /\ LedgerInv' /\ CountersAgree'
<1>1. /\ run'.state = "deleted" /\ run'.mode = "selected_passages" /\ run'.reviewed = 0
      /\ run'.included = 0 /\ run'.excluded = 0 /\ run'.attention = 0 /\ rw' = rw
  BY DEF DeleteRun, BlankRun
<1>2. Population' = {}
  BY DEF DeleteRun, NoDecision, Population
<1>3. ThreadInv'
  BY <1>1 DEF ThreadInv, Active, Holds
<1>4. LedgerInv'
  BY <1>1 DEF LedgerInv, FullText
<1>5. Population' \ Pending' = {} /\ \A x : Deciding(x)' = {}
  BY <1>2 DEF Deciding
<1>6. CountersAgree'
  BY <1>1, <1>5, FS_EmptySet DEF CountersAgree
<1>7. QED BY <1>3, <1>4, <1>6

LEMMA ClaimIsFenced ==
  ASSUME ReviewTyped, ThreadInv, LedgerInv, CountersAgree, NEW w \in ReviewWorkers, ClaimRun(w)
  PROVE  ThreadInv' /\ LedgerInv' /\ CountersAgree'
<1>1. /\ run' = [run EXCEPT !.state = "running", !.attempts = run.attempts + 1, !.cancel = FALSE]
      /\ rw' = [rw EXCEPT ![w].pc = "loop", ![w].attempt = run.attempts + 1]
      /\ dec' = dec /\ led' = led /\ rw[w].pc = "idle" /\ run.state = "queued"
  BY DEF ClaimRun
<1>2. run \in Run /\ rw \in [ReviewWorkers -> Worker] /\ run.attempts \in Nat
  BY DEF ReviewTyped, ReviewTypeOK, Run
<1> DEFINE n == run.attempts + 1
<1>3. Becomes(w, "loop", n, rw[w].task, rw[w].seen, rw[w].old)
  BY ThreadSums
<1>4. /\ run'.state = "running" /\ run'.attempts = n /\ run'.mode = run.mode
      /\ run'.reviewed = run.reviewed /\ run'.included = run.included
      /\ run'.excluded = run.excluded /\ run'.attention = run.attention
  BY <1>1, <1>2 DEF Run
<1>5. \A v \in ReviewWorkers \ {w} : rw[v].attempt <= run.attempts /\ rw[v].attempt # n
  <2>1. \A v \in ReviewWorkers : rw[v].attempt \in Nat
    BY <1>2 DEF Worker
  <2>2. QED BY <1>1, <1>2, <2>1 DEF ThreadInv
<1>6. /\ \A v \in ReviewWorkers : Holds(v)' => v = w
      /\ \A d \in Docs : rw'[w].task[d].pc = "none"
      /\ rw[w].seen = {}
  <2> HIDE DEF n
  <2>1. ASSUME NEW v \in ReviewWorkers, Holds(v)' PROVE v = w
    BY <1>3, <1>4, <1>5, <2>1 DEF Holds, Becomes
  <2>2. rw'[w].task = rw[w].task
    BY <1>3 DEF Becomes
  <2>3. (\A d \in Docs : rw[w].task[d].pc = "none") /\ rw[w].seen = {}
    BY <1>1 DEF ThreadInv
  <2>4. QED BY <2>1, <2>2, <2>3
<1> HIDE DEF n
<1>7. ThreadInv'
  <2>1. \A v \in ReviewWorkers : rw'[v].attempt <= run'.attempts
    <3>1. /\ rw'[w].attempt = n
          /\ \A v \in ReviewWorkers \ {w} : rw'[v].attempt = rw[v].attempt
      BY <1>3 DEF Becomes
    <3>2. n <= n /\ \A v \in ReviewWorkers \ {w} : rw[v].attempt <= n
      <4>1. \A v \in ReviewWorkers : rw[v].attempt \in Nat
        BY <1>2 DEF Worker
      <4>2. QED BY <1>2, <1>5, <4>1 DEF n
    <3>3. QED BY <1>4, <3>1, <3>2
  <2>2. \A v, x \in ReviewWorkers :
           Active(v)' /\ Active(x)' /\ rw'[v].attempt = rw'[x].attempt => v = x
    BY <1>3, <1>5 DEF ThreadInv, Becomes, Active
  <2>3. /\ \A v \in ReviewWorkers :
             rw'[v].pc \notin {"batch", "drain"} => \A d \in Docs : rw'[v].task[d].pc = "none"
        /\ \A v \in ReviewWorkers : rw'[v].pc # "finishing" => rw'[v].seen = {}
    BY <1>3, <1>6 DEF ThreadInv, Becomes
  <2>4. QED BY <1>4, <1>6, <2>1, <2>2, <2>3 DEF ThreadInv
<1>8. LedgerInv'
  BY <1>1, <1>4, <1>6 DEF LedgerInv, FullText, Supported
<1>9. CountersAgree'
  BY <1>1, <1>4 DEF CountersAgree, Population, Pending, Deciding
<1>10. QED BY <1>7, <1>8, <1>9

\* Only one thread that may write has sources in hand.
LEMMA OneHolder ==
  ASSUME ThreadInv, NEW v \in ReviewWorkers, NEW w \in ReviewWorkers, NEW d \in Docs,
         Holds(v), Holds(w), Active(w), rw[v].task[d].pc # "none"
  PROVE  v = w
BY DEF ThreadInv, Active, Holds

LEMMA PoolMoveIsSound ==
  ASSUME ReviewTyped, ThreadInv, LedgerInv, CountersAgree,
         NEW w \in ReviewWorkers, NEW d \in Docs, PoolMove(w, d)
  PROVE  ThreadInv' /\ LedgerInv' /\ CountersAgree'
<1>1. PICK t \in Task : /\ TaskTo(w, d, t)
                        /\ t.pc # "none"
                        /\ t.pc = "classify" => ~FullText
                        /\ (t.pc = "done" /\ rw[w].task[d].pc # "classify")
                             => Bears(d, led'[d], t.result)
  BY DEF PoolMove
<1>2. /\ rw[w].pc \in {"batch", "drain"} /\ rw[w].task[d].pc # "none" /\ Active(w)
      /\ dec' = dec
  BY DEF PoolMove, Reading, Active
<1>3. /\ run'.state = run.state /\ run'.mode = run.mode /\ run'.attempts = run.attempts
      /\ run'.reviewed = run.reviewed /\ run'.included = run.included
      /\ run'.excluded = run.excluded /\ run'.attention = run.attention
  <2>1. run \in Run
    BY DEF ReviewTyped, ReviewTypeOK
  <2>2. CASE run' = run
    BY <2>2
  <2>3. CASE run' = [run EXCEPT !.limit = TRUE]
    BY <2>1, <2>3 DEF Run
  <2>4. CASE run' = [run EXCEPT !.calls = @ + 1]
    <3> DEFINE n == run.calls + 1
    <3>1. run' = [run EXCEPT !.calls = n]
      BY <2>4
    <3> HIDE DEF n
    <3>2. QED BY <2>1, <3>1 DEF Run
  <2>5. QED BY <2>2, <2>3, <2>4 DEF PoolMove
<1>4. /\ \A v \in ReviewWorkers \ {w} : rw'[v] = rw[v]
      /\ rw'[w].task[d] = t
      /\ \A e \in Docs \ {d} : rw'[w].task[e] = rw[w].task[e]
      /\ rw'[w].pc = rw[w].pc /\ rw'[w].attempt = rw[w].attempt /\ rw'[w].seen = rw[w].seen
  BY <1>1, TaskToMoves DEF ReviewTyped, ReviewTypeOK
<1>5. /\ Population' = Population /\ Pending' = Pending /\ \A x : Deciding(x)' = Deciding(x)
      /\ FullText' = FullText
      /\ \A v \in ReviewWorkers : Holds(v)' <=> Holds(v)
      /\ \A v \in ReviewWorkers : Active(v)' <=> Active(v)
      /\ \A v \in ReviewWorkers : rw'[v].attempt = rw[v].attempt
  BY <1>2, <1>3, <1>4 DEF Population, Pending, Deciding, FullText, Holds, Active
<1>6. ThreadInv'
  <2>1. /\ run'.state # "deleted" => \A v \in ReviewWorkers : rw'[v].attempt <= run'.attempts
        /\ \A v, x \in ReviewWorkers :
             Active(v)' /\ Active(x)' /\ rw'[v].attempt = rw'[x].attempt => v = x
        /\ run'.state = "none" => Population' = {} /\ \A v \in ReviewWorkers : ~Active(v)'
    BY <1>3, <1>5 DEF ThreadInv
  <2>2. /\ \A v \in ReviewWorkers :
             rw'[v].pc \notin {"batch", "drain"} => \A e \in Docs : rw'[v].task[e].pc = "none"
        /\ \A v \in ReviewWorkers : rw'[v].pc # "finishing" => rw'[v].seen = {}
    BY <1>2, <1>4 DEF ThreadInv
  <2>3. ASSUME NEW v \in ReviewWorkers, NEW e \in Docs, Holds(v)', rw'[v].task[e].pc # "none"
        PROVE  e \in Pending'
    BY <1>2, <1>4, <1>5, <2>3 DEF ThreadInv
  <2>4. QED BY <2>1, <2>2, <2>3 DEF ThreadInv
<1>7. /\ led' # led => Holds(w)
      /\ \A e \in Docs \ {d} : led'[e] = led[e]
  BY DEF PoolMove, MayWrite, ReviewTyped, ReviewTypeOK
<1>8. LedgerInv'
  <2>1. SUFFICES ASSUME FullText PROVE LedgerInv'
    BY <1>5 DEF LedgerInv
  <2>2. ASSUME NEW e \in Docs, dec'[e].machine \in {"included", "excluded"}
        PROVE  Supported(e)'
    <3>1. led'[e] = led[e]
      BY <1>2, <1>7, <2>2 DEF ThreadInv, Pending
    <3>2. QED BY <1>2, <2>1, <2>2, <3>1 DEF LedgerInv, Supported
  <2>3. ASSUME NEW v \in ReviewWorkers, NEW e \in Docs, Holds(v)'
        PROVE  /\ rw'[v].task[e].pc # "classify"
               /\ rw'[v].task[e].pc = "done" => Bears(e, led'[e], rw'[v].task[e].result)
    <3>1. CASE v = w /\ e = d
      BY <1>1, <1>4, <1>5, <2>1, <2>3, <3>1 DEF LedgerInv
    <3>2. CASE e # d
      <4>1. led'[e] = led[e] /\ rw'[v].task[e] = rw[v].task[e] /\ Holds(v)
        BY <1>4, <1>5, <1>7, <2>3, <3>2
      <4>2. QED BY <2>1, <4>1 DEF LedgerInv
    <3>3. CASE v # w
      <4>1. rw'[v].task[e] = rw[v].task[e] /\ Holds(v)
        BY <1>4, <1>5, <2>3, <3>3
      <4>2. led'[e] = led[e] \/ rw[v].task[e].pc = "none"
        BY <1>2, <1>7, <3>3, <4>1, OneHolder
      <4>3. QED BY <2>1, <4>1, <4>2 DEF LedgerInv
    <3>4. QED BY <3>1, <3>2, <3>3
  <2>4. QED BY <2>2, <2>3 DEF LedgerInv
<1>9. CountersAgree'
  BY <1>3, <1>5 DEF CountersAgree
<1>10. QED BY <1>6, <1>8, <1>9

LEMMA RecordIsSound ==
  ASSUME ReviewTyped, ThreadInv, LedgerInv, CountersAgree,
         NEW w \in ReviewWorkers, NEW d \in Docs, Record(w, d)
  PROVE  ThreadInv' /\ LedgerInv' /\ CountersAgree'
<1> DEFINE v == Recorded(d, rw[w].task[d].result)
<1>1. /\ rw[w].pc = "batch" /\ rw[w].task[d].pc = "done" /\ Holds(w) /\ Active(w)
      /\ TaskTo(w, d, NoTask) /\ led' = led
  BY DEF Record, MayWrite, Active
<1>2. d \in Pending /\ d \in Population /\ dec[d].machine = "pending"
  BY <1>1 DEF ThreadInv, Pending
<1>3. /\ dec' = [dec EXCEPT ![d].machine = v] /\ run' = Counted(run, v, 1)
      /\ v \in Verdicts /\ v # "pending"
      /\ v \in {"included", "excluded"} => v = rw[w].task[d].result
  BY <1>1, <1>2 DEF Record, Recorded, Verdicts, ReviewTyped
<1> HIDE DEF v
<1>4. /\ run'.state = run.state /\ run'.mode = run.mode /\ run'.attempts = run.attempts
  BY <1>3, CountedParts DEF ReviewTyped, ReviewTypeOK
<1>5. /\ \A x \in ReviewWorkers \ {w} : rw'[x] = rw[x]
      /\ rw'[w].task[d].pc = "none"
      /\ \A e \in Docs \ {d} : rw'[w].task[e] = rw[w].task[e]
      /\ rw'[w].pc = rw[w].pc /\ rw'[w].attempt = rw[w].attempt /\ rw'[w].seen = rw[w].seen
  <2>1. NoTask \in Task /\ NoTask.pc = "none"
    BY TaskForms DEF NoTask
  <2>2. QED BY <1>1, <2>1, TaskToMoves DEF ReviewTyped, ReviewTypeOK
<1>6. /\ Population' = Population /\ Pending' = Pending \ {d}
      /\ FullText' = FullText
      /\ \A x \in ReviewWorkers : Holds(x)' <=> Holds(x)
      /\ \A x \in ReviewWorkers : Active(x)' <=> Active(x)
      /\ \A x \in ReviewWorkers : rw'[x].attempt = rw[x].attempt
  <2>1. Population' = Population /\ Pending' = Pending \ {d}
    BY <1>2, <1>3, DecidingMoves
  <2>2. QED BY <1>4, <1>5, <2>1 DEF FullText, Holds, Active
<1>7. ThreadInv'
  <2>1. /\ run'.state # "deleted" => \A x \in ReviewWorkers : rw'[x].attempt <= run'.attempts
        /\ \A y, x \in ReviewWorkers :
             Active(y)' /\ Active(x)' /\ rw'[y].attempt = rw'[x].attempt => y = x
        /\ run'.state = "none" => Population' = {} /\ \A x \in ReviewWorkers : ~Active(x)'
    BY <1>4, <1>6 DEF ThreadInv
  <2>2. /\ \A x \in ReviewWorkers :
             rw'[x].pc \notin {"batch", "drain"} => \A e \in Docs : rw'[x].task[e].pc = "none"
        /\ \A x \in ReviewWorkers : rw'[x].pc # "finishing" => rw'[x].seen = {}
    BY <1>1, <1>5 DEF ThreadInv
  <2>3. ASSUME NEW x \in ReviewWorkers, NEW e \in Docs, Holds(x)', rw'[x].task[e].pc # "none"
        PROVE  e \in Pending'
    <3>1. Holds(x) /\ rw[x].task[e].pc # "none"
      BY <1>1, <1>5, <1>6, <2>3
    <3>2. e # d
      BY <1>1, <1>5, <2>3, <3>1, OneHolder
    <3>3. QED BY <1>6, <3>1, <3>2 DEF ThreadInv
  <2>4. QED BY <2>1, <2>2, <2>3 DEF ThreadInv
<1>8. LedgerInv'
  <2>1. SUFFICES ASSUME FullText PROVE LedgerInv'
    BY <1>6 DEF LedgerInv
  <2>2. /\ dec'[d].machine = v /\ \A e \in Docs \ {d} : dec'[e] = dec[e]
    BY <1>3 DEF ReviewTyped, ReviewTypeOK, Decision
  <2>3. ASSUME NEW e \in Docs, dec'[e].machine \in {"included", "excluded"}
        PROVE  Supported(e)'
    <3>1. CASE e = d
      <4>1. Bears(d, led[d], v)
        BY <1>1, <1>3, <2>1, <2>2, <2>3, <3>1 DEF LedgerInv
      <4>2. QED BY <1>1, <2>2, <2>3, <3>1, <4>1 DEF Bears, Supported
    <3>2. CASE e # d
      BY <1>1, <2>1, <2>2, <2>3, <3>2 DEF LedgerInv, Supported
    <3>3. QED BY <3>1, <3>2
  <2>4. ASSUME NEW x \in ReviewWorkers, NEW e \in Docs, Holds(x)'
        PROVE  /\ rw'[x].task[e].pc # "classify"
               /\ rw'[x].task[e].pc = "done" => Bears(e, led'[e], rw'[x].task[e].result)
    <3>1. rw'[x].task[e] = rw[x].task[e] \/ rw'[x].task[e].pc = "none"
      BY <1>5
    <3>2. QED BY <1>1, <1>6, <2>1, <2>4, <3>1 DEF LedgerInv
  <2>5. QED BY <2>3, <2>4 DEF LedgerInv
<1>9. CountersAgree'
  BY <1>2, <1>3, CountsVerdict
<1>10. QED BY <1>7, <1>8, <1>9

LEMMA CheckIsSound ==
  ASSUME ReviewTyped, ThreadInv, LedgerInv, CountersAgree,
         NEW w \in ReviewWorkers, NEW d \in Population, CheckSource(w, d)
  PROVE  ThreadInv' /\ LedgerInv' /\ CountersAgree'
<1> DEFINE S == rw[w].seen \cup {d}
<1>1. /\ Becomes(w, "finishing", rw[w].attempt, rw[w].task, S, rw[w].old)
      /\ rw[w].pc = "finishing" /\ Active(w) /\ d \in Docs
      /\ \A e \in Docs : rw[w].task[e].pc = "none"
  BY ThreadSums DEF CheckSource, Active, Population, ThreadInv
<1> HIDE DEF S
<1>2. CASE UNCHANGED <<run, dec, led>>
  <2>1. ThreadKept(w) /\ \A v \in ReviewWorkers \ {w} : rw'[v] = rw[v]
    BY <1>1, BecomesKept
  <2>2. RunKept /\ DecisionsKept
    BY <1>2 DEF RunKept, DecisionsKept
  <2>3. QED BY <1>2, <2>1, <2>2, ThreadsStay, QuietStep
<1>3. CASE ~UNCHANGED <<run, dec, led>>
  <2>1. /\ run.state = "running" /\ dec[d].machine # "pending"
        /\ run' = Demoted(run, dec[d].machine)
        /\ dec' = [dec EXCEPT ![d].machine = "needs_attention"]
        /\ led' = led \/ led' = [led EXCEPT ![d] = Invalid(d)]
    BY <1>3 DEF CheckSource
  <2>2. d \in Population \ Pending
    BY <2>1 DEF Pending
  <2>3. /\ CountersAgree'
        /\ run'.state = run.state /\ run'.mode = run.mode /\ run'.attempts = run.attempts
    BY <2>1, <2>2, CountsDemotion
  <2>4. Population' = Population /\ Pending' = Pending
    <3>1. "needs_attention" # "pending"
      OBVIOUS
    <3>2. Population' = Population /\ Pending' = Pending \ {d}
      BY <2>1, <3>1, DecidingMoves
    <3>3. QED BY <2>2, <3>2
  <2>5. /\ rw'[w].pc = rw[w].pc /\ rw'[w].task = rw[w].task /\ rw'[w].attempt = rw[w].attempt
        /\ \A x \in ReviewWorkers \ {w} : rw'[x] = rw[x]
    BY <1>1 DEF Becomes
  <2>6. /\ FullText' = FullText
        /\ \A x \in ReviewWorkers : Holds(x)' <=> Holds(x)
        /\ \A x \in ReviewWorkers : Active(x)' <=> Active(x)
        /\ \A x \in ReviewWorkers : rw'[x].attempt = rw[x].attempt
        /\ \A x \in ReviewWorkers : rw'[x].task = rw[x].task
    BY <2>3, <2>5 DEF FullText, Holds, Active
  <2>7. ThreadInv'
    <3>1. /\ run'.state # "deleted" => \A x \in ReviewWorkers : rw'[x].attempt <= run'.attempts
          /\ \A y, x \in ReviewWorkers :
               Active(y)' /\ Active(x)' /\ rw'[y].attempt = rw'[x].attempt => y = x
          /\ run'.state = "none" => Population' = {} /\ \A x \in ReviewWorkers : ~Active(x)'
      BY <2>3, <2>4, <2>6 DEF ThreadInv
    <3>2. /\ \A x \in ReviewWorkers :
               rw'[x].pc \notin {"batch", "drain"} => \A e \in Docs : rw'[x].task[e].pc = "none"
          /\ \A x \in ReviewWorkers : rw'[x].pc # "finishing" => rw'[x].seen = {}
      BY <1>1, <2>5 DEF ThreadInv
    <3>3. \A x \in ReviewWorkers, e \in Docs :
             Holds(x)' /\ rw'[x].task[e].pc # "none" => e \in Pending'
      BY <2>4, <2>6 DEF ThreadInv
    <3>4. QED BY <3>1, <3>2, <3>3 DEF ThreadInv
  <2>8. LedgerInv'
    <3>1. SUFFICES ASSUME FullText PROVE LedgerInv'
      BY <2>6 DEF LedgerInv
    <3>2. /\ dec'[d].machine = "needs_attention"
          /\ \A e \in Docs \ {d} : dec'[e] = dec[e] /\ led'[e] = led[e]
      BY <1>1, <2>1 DEF ReviewTyped, ReviewTypeOK, Decision
    <3>3. ASSUME NEW e \in Docs, dec'[e].machine \in {"included", "excluded"}
          PROVE  Supported(e)'
      <4>1. e # d
        BY <3>2, <3>3
      <4>2. QED BY <3>1, <3>2, <3>3, <4>1 DEF LedgerInv, Supported
    <3>4. ASSUME NEW x \in ReviewWorkers, NEW e \in Docs, Holds(x)'
          PROVE  /\ rw'[x].task[e].pc # "classify"
                 /\ rw'[x].task[e].pc = "done" => Bears(e, led'[e], rw'[x].task[e].result)
      <4>1. Holds(x) /\ rw'[x].task = rw[x].task
        BY <2>6, <3>4
      <4>2. CASE e = d
        BY <2>2, <4>1, <4>2 DEF ThreadInv
      <4>3. CASE e # d
        BY <3>1, <3>2, <4>1, <4>3 DEF LedgerInv
      <4>4. QED BY <4>2, <4>3
    <3>5. QED BY <3>3, <3>4 DEF LedgerInv
  <2>9. QED BY <2>3, <2>7, <2>8
<1>4. QED BY <1>2, <1>3

-----------------------------------------------------------------------------
(* All steps                                                               *)

LEMMA Steps ==
  ASSUME Typed, [Next]_vars
  PROVE  \/ Controls \/ DeleteRun \/ StopRun \/ DownRun \/ RecoverRuns
         \/ \E mode \in Modes : QueueRun(mode)
         \/ \E w \in ReviewWorkers : ClaimRun(w) \/ Manages(w)
         \/ \E w \in ReviewWorkers, d \in Docs : PoolMove(w, d) \/ Record(w, d)
         \/ \E w \in ReviewWorkers, d \in Population : CheckSource(w, d)
<1>1. CASE ReviewStep
  <2>1. CASE Request
    BY <2>1 DEF Request, Controls
  <2>2. ASSUME NEW w \in ReviewWorkers, Coordinate(w) PROVE ClaimRun(w) \/ Manages(w)
    BY <2>2 DEF Coordinate, Manages
  <2>3. ASSUME NEW w \in ReviewWorkers, NEW d \in Docs, Review(w, d)
        PROVE  PoolMove(w, d) \/ Record(w, d) \/ Manages(w)
    BY <2>3, PoolStep DEF Review, Manages, Typed, IntakeTyped
  <2>4. QED BY <1>1, <2>1, <2>2, <2>3 DEF ReviewStep, InPool
<1>2. CASE UNCHANGED reviewVars
  BY <1>2 DEF Controls
<1>3. QED BY <1>1, <1>2 DEF Next, vars, reviewVars

LEMMA NextKeepsCore ==
  ASSUME Typed, ThreadInv, LedgerInv, CountersAgree, [Next]_vars
  PROVE  ThreadInv' /\ LedgerInv' /\ CountersAgree'
<1>1. ReviewTyped
  BY DEF Typed
<1>2. QED
  BY <1>1, Steps, ControlsAreQuiet, DeletedIsBlank, ProcessIsQuiet, QueueIsFresh, ClaimIsFenced,
     CoordinatorIsQuiet, PoolMoveIsSound, RecordIsSound, CheckIsSound DEF Population

\* A thread is moved by itself, or by the process.
LEMMA MovesItself ==
  ASSUME Typed, [Next]_vars, NEW x \in ReviewWorkers, rw'[x] # rw[x]
  PROVE  \/ StopRun \/ DownRun \/ RecoverRuns \/ ClaimRun(x) \/ Manages(x)
         \/ \E d \in Docs : PoolMove(x, d) \/ Record(x, d)
         \/ \E d \in Population : CheckSource(x, d)
<1>1. ReviewTyped
  BY DEF Typed
<1>2. ~Controls /\ ~DeleteRun /\ ~\E mode \in Modes : QueueRun(mode)
  <2>1. rw' # rw
    OBVIOUS
  <2>2. ~Controls
    BY <2>1 DEF Controls, CancelRun, RetryRun, ChangeAccess, OpenPage, Adjudicate, reviewVars
  <2>3. QED BY <2>1, <2>2 DEF DeleteRun, QueueRun
<1>3. ASSUME NEW w \in ReviewWorkers, w # x, ClaimRun(w) \/ Manages(w) PROVE FALSE
  BY <1>1, <1>3 DEF ReviewTyped, ReviewTypeOK, ClaimRun, Manages, Batch, EndBatch, Interrupted,
     BeginFinish, FinishRun, FinishRaises, FailRun, BreakOff, WorkerTo, GiveUp
<1>4. ASSUME NEW w \in ReviewWorkers, w # x, NEW d \in Docs,
             PoolMove(w, d) \/ Record(w, d) \/ CheckSource(w, d)
      PROVE  FALSE
  BY <1>1, <1>4 DEF ReviewTyped, ReviewTypeOK, PoolMove, Record, CheckSource, TaskTo
<1>5. QED BY <1>2, <1>3, <1>4, Steps DEF Population

-----------------------------------------------------------------------------
(* Pages                                                                   *)

\* A write of a decision puts the pages that show it out of date.
LEMMA RestampedPages ==
  ASSUME ReviewTyped, PageInv, NEW d, Restamp({d}), run.state # "none", run'.state # "none",
         \A e \in Docs \ {d} : dec'[e] = dec[e]
  PROVE  PageInv'
<1>1. ASSUME NEW r \in Reviewers, page'[r] # None, page'[r].current
      PROVE  page'[r] = page[r] /\ page[r].doc \in Docs \ {d}
  <2>1. page[r] # None
    BY <1>1 DEF Restamp
  <2>2. page[r] \in [doc : Docs, machine : Verdicts \cup {"pending"}, human : Humans,
                     current : BOOLEAN]
    BY <2>1 DEF ReviewTyped, ReviewTypeOK
  <2>3. page[r].doc # d
    BY <1>1, <2>1, <2>2 DEF Restamp
  <2>4. QED BY <2>1, <2>2, <2>3 DEF Restamp
<1>2. QED BY <1>1 DEF PageInv

LEMMA PoolKeepsState ==
  ASSUME ReviewTyped, NEW w \in ReviewWorkers, NEW d \in Docs, PoolMove(w, d)
  PROVE  run'.state = run.state
<1>1. run \in Run
  BY DEF ReviewTyped, ReviewTypeOK
<1>2. CASE run' = run
  BY <1>2
<1>3. CASE run' = [run EXCEPT !.limit = TRUE]
  BY <1>1, <1>3 DEF Run
<1>4. CASE run' = [run EXCEPT !.calls = @ + 1]
  BY <1>1, <1>4 DEF Run
<1>5. QED BY <1>2, <1>3, <1>4 DEF PoolMove

LEMMA NextKeepsPages ==
  ASSUME Typed, ThreadInv, LedgerInv, CountersAgree, PageInv, [Next]_vars
  PROVE  PageInv'
<1>1. ReviewTyped /\ run \in Run /\ dec \in [Docs -> Decision]
  BY DEF Typed, ReviewTyped, ReviewTypeOK
<1>2. ASSUME page' = page, dec' = dec, run'.state = "none" => run.state = "none"
      PROVE  PageInv'
  BY <1>2 DEF PageInv
<1>3. CASE CancelRun \/ RetryRun \/ RecoverRuns
  BY <1>1, <1>2, <1>3, RunSums DEF CancelRun, RetryRun, RecoverRuns, RunKept
<1>4. CASE ChangeAccess \/ StopRun \/ DownRun \/ UNCHANGED reviewVars
  BY <1>2, <1>4 DEF ChangeAccess, StopRun, DownRun, reviewVars
<1>5. ASSUME NEW r \in Reviewers, NEW d \in Docs, OpenPage(r, d) PROVE PageInv'
  <2>1. /\ page' = [page EXCEPT ![r] = [doc |-> d, machine |-> dec[d].machine,
                                        human |-> dec[d].human, current |-> TRUE]]
        /\ run' = run /\ dec' = dec /\ d \in Population
    BY <1>5 DEF OpenPage
  <2>2. run.state # "none"
    BY <2>1 DEF ThreadInv
  <2>3. QED BY <1>1, <2>1, <2>2 DEF PageInv, ReviewTyped, ReviewTypeOK
<1>6. ASSUME NEW r \in Reviewers, NEW h \in Humans \ {"none"}, Adjudicate(r, h) PROVE PageInv'
  <2>1. run.state # "none" /\ run' = run
    BY <1>6 DEF Adjudicate, PageInv
  <2>2. Restamp({page[r].doc}) /\ dec' = [dec EXCEPT ![page[r].doc].human = h]
    BY <1>6 DEF Adjudicate
  <2>3. QED BY <1>1, <2>1, <2>2, RestampedPages
<1>7. CASE DeleteRun
  BY <1>7 DEF DeleteRun, PageInv
<1>8. ASSUME NEW mode \in Modes, QueueRun(mode) PROVE PageInv'
  <2>1. run.state = "none" /\ page' = page
    BY <1>8 DEF QueueRun
  <2>2. QED BY <2>1 DEF PageInv
<1>9. ASSUME NEW w \in ReviewWorkers, ClaimRun(w) PROVE PageInv'
  <2>1. run' = [run EXCEPT !.state = "running", !.attempts = run.attempts + 1, !.cancel = FALSE]
        /\ page' = page /\ dec' = dec
    BY <1>9 DEF ClaimRun
  <2>2. run'.state = "running"
    BY <1>1, <2>1 DEF Run
  <2>3. QED BY <1>2, <2>1, <2>2
<1>10. ASSUME NEW w \in ReviewWorkers, Manages(w) PROVE PageInv'
  <2>1. page' = page /\ dec' = dec
    BY <1>10 DEF Manages, Batch, EndBatch, Interrupted, BeginFinish, FinishRun, FinishRaises,
       FailRun, BreakOff
  <2>2. run' = run \/ RunKept
    BY <1>1, <1>10, RunSums DEF Manages, Batch, EndBatch, Interrupted, BeginFinish,
       FinishRaises, BreakOff
  <2>3. QED BY <1>2, <2>1, <2>2 DEF RunKept
<1>11. ASSUME NEW w \in ReviewWorkers, NEW d \in Docs, PoolMove(w, d) PROVE PageInv'
  <2>1. page' = page /\ dec' = dec
    BY <1>11 DEF PoolMove
  <2>2. QED BY <1>1, <1>2, <1>11, <2>1, PoolKeepsState
<1>12. ASSUME NEW w \in ReviewWorkers, NEW d \in Docs, Record(w, d) PROVE PageInv'
  <2> DEFINE v == Recorded(d, rw[w].task[d].result)
  <2>1. /\ run.state = "running" /\ rw[w].task[d].pc = "done"
        /\ \/ /\ dec' = [dec EXCEPT ![d].machine = v] /\ run' = Counted(run, v, 1)
              /\ Restamp({d})
           \/ page' = page /\ dec' = dec /\ run' = run
    BY <1>12 DEF Record, MayWrite, Holds
  <2>2. v \in Verdicts
    BY <1>1, <2>1 DEF Recorded, Verdicts, ReviewTyped
  <2> HIDE DEF v
  <2>3. CASE dec' = [dec EXCEPT ![d].machine = v] /\ run' = Counted(run, v, 1) /\ Restamp({d})
    <3>1. run'.state = "running"
      BY <1>1, <2>1, <2>2, <2>3, CountedParts
    <3>2. QED BY <1>1, <2>1, <2>3, <3>1, RestampedPages
  <2>4. QED BY <1>2, <2>1, <2>3
<1>13. ASSUME NEW w \in ReviewWorkers, NEW d \in Population, CheckSource(w, d) PROVE PageInv'
  <2>1. CASE UNCHANGED <<run, dec, led, page>>
    BY <1>2, <2>1
  <2>2. CASE ~UNCHANGED <<run, dec, led, page>>
    <3>1. /\ run.state = "running" /\ d \in Population \ Pending
          /\ dec' = [dec EXCEPT ![d].machine = "needs_attention"]
          /\ run' = Demoted(run, dec[d].machine) /\ Restamp({d})
      BY <1>13, <2>2 DEF CheckSource, Pending
    <3>2. run'.state = "running"
      BY <1>1, <3>1, CountsDemotion
    <3>3. QED BY <1>1, <3>1, <3>2, RestampedPages
  <2>3. QED BY <2>1, <2>2
<1>14. QED BY <1>3, <1>4, <1>5, <1>6, <1>7, <1>8, <1>9, <1>10, <1>11, <1>12, <1>13, Steps
  DEF Controls

-----------------------------------------------------------------------------
(* Finishing under the guard                                               *)

\* Whoever else moves while a thread of the coordinator holds the guard leaves
\* the sources and the guard alone.
LEMMA GuardBinds ==
  ASSUME Typed, UploadInv, [Next]_vars, NEW x \in ReviewWorkers, guard = x
  PROVE  /\ doc' = doc
         /\ guard' = x \/ DownRun \/ FinishRun(x) \/ FinishRaises(x)
<1>1. x \notin Docs \cup {None} \cup Uploaders
  BY ReviewAssumption, NoneAssumption, ThreadsAssumption
<1>2. CASE IntakeStep
  BY <1>1, <1>2 DEF IntakeStep, Upload, QueueUpload, RetryDocument, RetryJob, Remove, Correct,
     Ingest, Claim, Stage, Process, Refuse, Extract, Index, Cleanup, Finish,
     ReconcileStaging, RecoverJobs
<1>3. CASE UploadStep
  <2>1. ASSUME NEW u \in Uploaders PROVE ~RecordChunk(u)
    BY <1>1 DEF RecordChunk, UploadInv, ReceiptFits
  <2>2. QED BY <1>1, <1>3, <2>1 DEF UploadStep, CreateSession, DiscardReceipt, Reconcile, Transfer,
       AppendChunk, Finalize, RefuseFile, StoreFile, CheckItem, FinishItem, FinishRefused,
       DiscardFile, FailRefused, AskCancel, CancelSession, DropFile, sourceVars, intakeVars
<1>4. CASE ReviewStep
  <2>1. doc' = doc
    BY <1>4, ReviewLeaves DEF Typed, IntakeTyped
  <2>2. CASE Request
    BY <2>2 DEF Request, QueueRun, CancelRun, RetryRun, DeleteRun, ChangeAccess, OpenPage,
       Adjudicate, sourceVars, intakeVars
  <2>3. ASSUME NEW w \in ReviewWorkers, NEW d \in Docs, Review(w, d) \/ CheckSource(w, d)
        PROVE  guard' = x
    BY <2>3 DEF Review, Raise, RefuseWrite, BeginStale, Begin, Classify, Inventory, Scan,
       ReadRange, CloseSource, Record, BreakOff, CheckSource, intakeVars
  <2>4. ASSUME NEW w \in ReviewWorkers, Coordinate(w)
        PROVE  guard' = x \/ FinishRun(x) \/ FinishRaises(x)
    BY <1>1, <2>4 DEF Coordinate, ClaimRun, Batch, EndBatch, Interrupted, BeginFinish, FinishRun,
       FinishRaises, FailRun, TakeGuard, FreeGuard, intakeVars
  <2>5. QED BY <1>4, <2>1, <2>2, <2>3, <2>4 DEF ReviewStep, InPool, Population
<1>5. CASE StopRun \/ RecoverRuns \/ DownRun
  BY <1>5 DEF StopRun, Stop, RecoverRuns, DownRun, Down
<1>6. CASE UNCHANGED vars
  BY <1>6 DEF vars
<1>7. QED BY <1>2, <1>3, <1>4, <1>5, <1>6 DEF Next

LEMMA DecisionSteps ==
  ASSUME Typed, [Next]_vars
  PROVE  \/ DecisionsKept
         \/ DeleteRun
         \/ \E mode \in Modes : QueueRun(mode)
         \/ \E w \in ReviewWorkers, d \in Docs : Record(w, d)
         \/ \E w \in ReviewWorkers, d \in Population \ Pending :
              /\ CheckSource(w, d)
              /\ dec' = [dec EXCEPT ![d].machine = "needs_attention"]
<1>1. dec \in [Docs -> Decision]
  BY DEF Typed, ReviewTyped, ReviewTypeOK
<1>2. dec' = dec => DecisionsKept
  BY DEF DecisionsKept
<1>3. CASE Controls
  <2>1. ASSUME NEW r \in Reviewers, NEW h, Adjudicate(r, h) PROVE DecisionsKept
    <3>1. dec' = [dec EXCEPT ![page[r].doc].human = h]
      BY <2>1 DEF Adjudicate
    <3>2. ASSUME NEW e \in Docs
          PROVE  dec'[e].basis = dec[e].basis /\ dec'[e].machine = dec[e].machine
      <4> DEFINE q == [dec[e] EXCEPT !.human = h]
      <4>1. q.basis = dec[e].basis /\ q.machine = dec[e].machine
        BY <1>1 DEF Decision
      <4>2. dec'[e] = dec[e] \/ dec'[e] = q
        BY <1>1, <3>1
      <4>3. QED BY <4>1, <4>2
    <3>3. QED BY <3>2 DEF DecisionsKept
  <2>2. QED BY <1>2, <1>3, <2>1
    DEF Controls, CancelRun, RetryRun, ChangeAccess, OpenPage, reviewVars
<1>4. CASE StopRun \/ DownRun \/ RecoverRuns
  BY <1>2, <1>4 DEF StopRun, DownRun, RecoverRuns
<1>5. ASSUME NEW w \in ReviewWorkers,
             ClaimRun(w) \/ Manages(w) \/ \E d \in Docs : PoolMove(w, d)
      PROVE  DecisionsKept
  BY <1>2, <1>5 DEF ClaimRun, Manages, Batch, EndBatch, Interrupted, BeginFinish, FinishRun,
     FinishRaises, FailRun, BreakOff, PoolMove
<1>6. ASSUME NEW w \in ReviewWorkers, NEW d \in Population, CheckSource(w, d)
      PROVE  \/ DecisionsKept
             \/ /\ d \in Population \ Pending
                /\ dec' = [dec EXCEPT ![d].machine = "needs_attention"]
  BY <1>2, <1>6 DEF CheckSource, Pending
<1>7. QED BY <1>3, <1>4, <1>5, <1>6, Steps

\* Only CheckSource and BeginFinish lead to a thread that finishes.
LEMMA WhoFinishes ==
  ASSUME Typed, ThreadInv, [Next]_vars, NEW x \in ReviewWorkers, rw'[x].pc = "finishing",
         ~rw'[x].old
  PROVE  \/ BeginFinish(x) /\ ~rw[x].old /\ rw'[x].seen = {}
         \/ /\ rw[x].pc = "finishing" /\ ~rw[x].old
            /\ \/ rw'[x].seen = rw[x].seen
               \/ \E d \in Population : CheckSource(x, d) /\ rw'[x].seen = rw[x].seen \cup {d}
<1>1. ReviewTyped /\ rw[x] \in Worker
  BY DEF Typed, ReviewTyped, ReviewTypeOK
<1>2. CASE rw'[x] = rw[x]
  BY <1>2
<1>3. CASE StopRun
  <2>1. \E b : rw'[x] = [rw[x] EXCEPT !.stop = b]
    BY <1>3 DEF StopRun
  <2>2. QED BY <1>1, <2>1 DEF Worker
<1>4. CASE DownRun
  <2>1. rw'[x] = [rw[x] EXCEPT !.old = TRUE] \/ rw'[x] = Dead
    BY <1>4 DEF DownRun
  <2>2. QED BY <1>1, <2>1 DEF Worker, Dead, Idle
<1>5. CASE RecoverRuns
  BY <1>2, <1>5 DEF RecoverRuns, Idle
<1>6. CASE ClaimRun(x)
  <2>1. rw'[x].pc = "loop"
    BY <1>1, <1>6, ThreadSums DEF Becomes
  <2>2. QED BY <2>1
<1>7. CASE BeginFinish(x)
  <2>1. WorkerTo(x, "finishing") /\ rw[x].pc = "loop"
    BY <1>7 DEF BeginFinish
  <2>2. Becomes(x, "finishing", rw[x].attempt, rw[x].task, rw[x].seen, rw[x].old)
    BY <1>1, <2>1, ThreadForms
  <2>3. rw[x].seen = {}
    BY <2>1 DEF ThreadInv
  <2>4. QED BY <1>7, <2>2, <2>3 DEF Becomes
<1>8. CASE Manages(x) /\ ~BeginFinish(x)
  <2>1. ASSUME NEW pc, WorkerTo(x, pc) \/ \E why : GiveUp(x, pc, why) PROVE rw'[x].pc = pc
    BY <1>1, <2>1, ThreadForms DEF Becomes
  <2>2. ~Batch(x)
    <3>1. Batch(x) => rw'[x].pc = "batch"
      BY <1>1, ThreadSums DEF Becomes
    <3>2. QED BY <3>1
  <2>3. ~EndBatch(x)
    <3>1. EndBatch(x) => rw'[x].pc \in {"loop", "failing"}
      BY <1>1, ThreadSums DEF Becomes
    <3>2. QED BY <3>1
  <2>4. ~FinishRun(x) /\ ~FailRun(x)
    <3>1. rw' = [rw EXCEPT ![x] = Rest(x)] =>
            rw'[x].pc = IF rw[x].old THEN "dead" ELSE "idle"
      BY <1>1, ThreadForms DEF Becomes
    <3>2. QED BY <3>1 DEF FinishRun, FailRun
  <2>5. ~Interrupted(x) /\ ~FinishRaises(x) /\ ~\E d \in Docs : BreakOff(x, d)
    <3>1. Interrupted(x) \/ FinishRaises(x) => rw'[x].pc = "failing"
      BY <2>1 DEF Interrupted, FinishRaises
    <3>2. (\E d \in Docs : BreakOff(x, d)) => rw'[x].pc = "drain"
      BY <2>1 DEF BreakOff
    <3>3. QED BY <3>1, <3>2
  <2>6. QED BY <1>8, <2>2, <2>3, <2>4, <2>5 DEF Manages
<1>9. ASSUME NEW d \in Docs, PoolMove(x, d) \/ Record(x, d) PROVE FALSE
  <2>1. \E t \in Task : TaskTo(x, d, t)
    BY <1>9, TaskForms DEF PoolMove, Record
  <2>2. rw'[x].pc = rw[x].pc
    BY <1>1, <2>1, TaskToMoves DEF ReviewTyped, ReviewTypeOK
  <2>3. QED BY <1>9, <2>2 DEF PoolMove, Record
<1>10. ASSUME NEW d \in Population, CheckSource(x, d)
       PROVE  /\ rw[x].pc = "finishing" /\ rw'[x].seen = rw[x].seen \cup {d}
              /\ rw'[x].old = rw[x].old
  BY <1>1, <1>10, ThreadSums DEF Becomes, CheckSource, Population
<1>11. QED BY <1>2, <1>3, <1>4, <1>5, <1>6, <1>7, <1>8, <1>9, <1>10, MovesItself

LEMMA NextKeepsFinish ==
  ASSUME Typed, UploadInv, ThreadInv, FinishInv, [Next]_vars
  PROVE  FinishInv'
<1>1. ASSUME NEW x \in ReviewWorkers, rw'[x].pc = "finishing", ~rw'[x].old
      PROVE  /\ guard' = x
             /\ \A d \in rw'[x].seen \cap Population' :
                  dec'[d].machine \in {"included", "excluded"} => Unchanged(d)'
  <2>1. CASE BeginFinish(x) /\ ~rw[x].old /\ rw'[x].seen = {}
    BY <2>1 DEF BeginFinish, TakeGuard
  <2>2. CASE /\ rw[x].pc = "finishing" /\ ~rw[x].old
             /\ \/ rw'[x].seen = rw[x].seen
                \/ \E d \in Population :
                     CheckSource(x, d) /\ rw'[x].seen = rw[x].seen \cup {d}
    <3>1. guard = x /\ Active(x) /\ run.state # "none"
      BY <2>2 DEF FinishInv, Active, ThreadInv
    <3>2. ~DownRun /\ ~FinishRun(x) /\ ~FinishRaises(x)
      <4>1. rw \in [ReviewWorkers -> Worker] /\ ReviewTyped
        BY DEF Typed, ReviewTyped, ReviewTypeOK
      <4>2. ~DownRun
        <5>1. DownRun => rw'[x] = [rw[x] EXCEPT !.old = TRUE] \/ rw'[x] = Dead
          BY DEF DownRun
        <5>2. QED BY <1>1, <4>1, <5>1 DEF Worker, Dead, Idle
      <4>3. FinishRun(x) => rw'[x].pc \in {"dead", "idle"}
        BY <4>1, ThreadForms DEF FinishRun, Becomes
      <4>4. FinishRaises(x) => rw'[x].pc = "failing"
        BY <4>1, ThreadForms DEF FinishRaises, Becomes
      <4>5. QED BY <1>1, <4>2, <4>3, <4>4
    <3>3. doc' = doc /\ guard' = x
      BY <3>1, <3>2, GuardBinds
    <3>4. ASSUME NEW d \in rw'[x].seen \cap Population',
                 dec'[d].machine \in {"included", "excluded"}
          PROVE  Unchanged(d)'
      <4>1. ~DeleteRun /\ ~(\E mode \in Modes : QueueRun(mode))
              /\ ~\E w \in ReviewWorkers, e \in Docs : Record(w, e)
        <5>1. x # None
          BY ReviewAssumption, NoneAssumption
        <5>2. DeleteRun => Population' = {}
          BY DEF DeleteRun, NoDecision, Population
        <5>3. QED BY <3>1, <3>4, <5>1, <5>2 DEF QueueRun, Record
      <4>2. d \in Docs
        BY DEF Population
      <4>3. /\ dec'[d].basis = dec[d].basis /\ dec'[d].machine = dec[d].machine
            /\ d \in Population
        <5>1. CASE DecisionsKept
          BY <4>2, <5>1 DEF DecisionsKept, Population
        <5>2. ASSUME NEW e \in Population \ Pending,
                     dec' = [dec EXCEPT ![e].machine = "needs_attention"]
              PROVE  /\ dec'[d].basis = dec[d].basis /\ dec'[d].machine = dec[d].machine
                     /\ d \in Population
          <6>1. dec \in [Docs -> Decision] /\ e \in Docs
            BY DEF Typed, ReviewTyped, ReviewTypeOK, Population
          <6>2. dec'[e].machine = "needs_attention"
            BY <5>2, <6>1 DEF Decision
          <6>3. dec'[d] = dec[d]
            BY <3>4, <4>2, <5>2, <6>1, <6>2
          <6>4. QED BY <4>2, <6>3 DEF Population
        <5>3. QED BY <4>1, <5>1, <5>2, DecisionSteps
      <4>4. Unchanged(d)
        <5>1. CASE d \in rw[x].seen
          BY <2>2, <3>4, <4>3, <5>1 DEF FinishInv
        <5>2. CASE d \notin rw[x].seen
          <6>1. CheckSource(x, d)
            BY <2>2, <5>2
          <6>2. ~Unchanged(d) => dec'[d].machine = "needs_attention"
            BY <4>2, <6>1 DEF CheckSource, Typed, ReviewTyped, ReviewTypeOK, Decision
          <6>3. QED BY <3>4, <6>2
        <5>3. QED BY <5>1, <5>2
      <4>5. QED BY <3>3, <4>3, <4>4 DEF Unchanged
    <3>5. QED BY <3>3, <3>4
  <2>3. QED BY <1>1, <2>1, <2>2, WhoFinishes
<1>2. QED BY <1>1 DEF FinishInv

-----------------------------------------------------------------------------
(* What follows                                                            *)

LEMMA InitReview == ASSUME Init PROVE ReviewInv
<1>1. /\ run = BlankRun /\ dec = [d \in Docs |-> NoDecision] /\ led = [d \in Docs |-> NoSource]
      /\ rw = [w \in ReviewWorkers |-> Idle] /\ page = [r \in Reviewers |-> None]
  BY DEF Init, ReviewInit
<1>2. /\ Population = {} /\ Pending = {} /\ \A v : Deciding(v) = {}
  BY <1>1 DEF Population, Pending, Deciding, NoDecision
<1>3. /\ run.state = "none" /\ run.attempts = 0 /\ run.mode = "selected_passages"
      /\ run.reviewed = 0 /\ run.included = 0 /\ run.excluded = 0 /\ run.attention = 0
  BY <1>1 DEF BlankRun
<1>4. \A w \in ReviewWorkers :
        /\ rw[w].pc = "idle" /\ rw[w].attempt = 0 /\ rw[w].seen = {}
        /\ \A d \in Docs : rw[w].task[d].pc = "none"
  BY <1>1 DEF Idle, NoTask
<1>5. ThreadInv
  BY <1>2, <1>3, <1>4 DEF ThreadInv, Active, Holds
<1>6. LedgerInv /\ PageInv /\ FinishInv
  BY <1>1, <1>3, <1>4 DEF LedgerInv, FullText, PageInv, FinishInv
<1>7. CountersAgree
  <2>1. Population \ Pending = {}
    BY <1>2
  <2>2. QED BY <1>2, <1>3, <2>1, FS_EmptySet DEF CountersAgree
<1>8. QED BY <1>5, <1>6, <1>7 DEF ReviewInv

LEMMA ReviewHolds == Spec => [](Typed /\ JobInv /\ UploadInv /\ ReviewInv)
<1>1. Init => Typed /\ JobInv /\ UploadInv /\ ReviewInv
  BY InitTyped, InitJobInv, InitUploads, InitReview
<1>2. Typed /\ JobInv /\ UploadInv /\ ReviewInv /\ [Next]_vars
        => (Typed /\ JobInv /\ UploadInv /\ ReviewInv)'
  BY NextTyped, NextKeepsJobs, NextUploads, NextKeepsCore, NextKeepsPages, NextKeepsFinish
  DEF ReviewInv
<1>3. QED BY <1>1, <1>2, PTL DEF Spec

\* Through restarts, retries and changes of the sources the counters of a run
\* say how many decisions of each kind its rows hold.
THEOREM CountersHold == Spec => []CountersAgree
<1>1. ReviewInv => CountersAgree
  BY DEF ReviewInv
<1>2. QED BY <1>1, ReviewHolds, PTL

\* A run that was asked to stop decides on nothing more and ends cancelled,
\* whoever is at work and whatever restarts.
THEOREM CancellationWins == Spec => CancelWins
<1> DEFINE A == run.state = "running" /\ run.cancel =>
                  /\ run'.state \in {"running", "cancelled"}
                  /\ \A d \in Docs : dec'[d].machine \in {dec[d].machine, "needs_attention"}
                  /\ Population' \ Pending' = Population \ Pending
<1>1. Typed /\ ReviewInv /\ [Next]_vars => [A]_reviewVars
  <2>1. SUFFICES ASSUME Typed, ReviewInv, [Next]_vars, run.state = "running", run.cancel
                 PROVE  /\ run'.state \in {"running", "cancelled"}
                        /\ \A d \in Docs :
                             dec'[d].machine \in {dec[d].machine, "needs_attention"}
                        /\ Population' \ Pending' = Population \ Pending
    OBVIOUS
  <2>2. ReviewTyped /\ run \in Run /\ dec \in [Docs -> Decision]
    BY <2>1 DEF Typed, ReviewTyped, ReviewTypeOK
  <2>3. /\ ~DeleteRun /\ ~RetryRun /\ ~CancelRun /\ ~\E mode \in Modes : QueueRun(mode)
        /\ ~\E w \in ReviewWorkers : ClaimRun(w)
        /\ ~\E w \in ReviewWorkers, d \in Docs : Record(w, d)
    BY <2>1 DEF DeleteRun, RetryRun, CancelRun, QueueRun, ClaimRun, Record, MayWrite
  <2>4. run'.state \in {"running", "cancelled"}
    <3>1. CASE Controls \/ StopRun \/ DownRun
      BY <2>1, <2>3, <3>1 DEF Controls, ChangeAccess, OpenPage, Adjudicate, reviewVars,
         StopRun, DownRun
    <3>2. CASE RecoverRuns
      BY <2>1, <2>2, <3>2 DEF RecoverRuns, Recovered, Run
    <3>3. ASSUME NEW w \in ReviewWorkers, Manages(w)
          PROVE  run'.state \in {"running", "cancelled"}
      <4>1. run' = run \/ run' = [run EXCEPT !.state = "cancelled"]
        BY <2>1, <3>3 DEF Manages, Batch, EndBatch, Interrupted, BeginFinish, FinishRun,
           FinishRaises, FailRun, FailState, BreakOff
      <4>2. QED BY <2>1, <2>2, <4>1 DEF Run
    <3>4. ASSUME NEW w \in ReviewWorkers, NEW d \in Docs, PoolMove(w, d)
          PROVE  run'.state = "running"
      BY <2>1, <2>2, <3>4, PoolKeepsState
    <3>5. ASSUME NEW w \in ReviewWorkers, NEW d \in Population, CheckSource(w, d)
          PROVE  run'.state = "running"
      <4>1. run' = run \/ (/\ run' = Demoted(run, dec[d].machine) /\ d \in Population \ Pending
                           /\ dec' = [dec EXCEPT ![d].machine = "needs_attention"])
        BY <3>5 DEF CheckSource, Pending
      <4>2. QED BY <2>1, <2>2, <4>1, CountsDemotion DEF ReviewInv
    <3>6. QED BY <2>1, <2>3, <3>1, <3>2, <3>3, <3>4, <3>5, Steps
  <2>5. CASE DecisionsKept
    BY <2>4, <2>5 DEF DecisionsKept, Population, Pending
  <2>6. ASSUME NEW e \in Population \ Pending,
               dec' = [dec EXCEPT ![e].machine = "needs_attention"]
        PROVE  /\ \A d \in Docs : dec'[d].machine \in {dec[d].machine, "needs_attention"}
               /\ Population' \ Pending' = Population \ Pending
    <3>1. "needs_attention" # "pending" /\ e \in Population
      OBVIOUS
    <3>2. Population' = Population /\ Pending' = Pending \ {e}
      BY <2>2, <2>6, <3>1, DecidingMoves
    <3>3. \A d \in Docs : dec'[d].machine \in {dec[d].machine, "needs_attention"}
      BY <2>2, <2>6 DEF Decision
    <3>4. QED BY <3>2, <3>3
  <2>7. QED BY <2>1, <2>3, <2>4, <2>5, <2>6, DecisionSteps
<1>2. QED BY <1>1, ReviewHolds, PTL DEF Spec, CancelWins

\* A thread of an earlier attempt, also one that outlived its process, moves
\* neither the run nor the ledger nor a decision that is open.
THEOREM AttemptsFenced == Spec => AttemptsAreFenced
<1> DEFINE A == \A w \in ReviewWorkers :
                  /\ rw'[w] # rw[w]
                  /\ rw[w].pc \notin {"dead", "idle"}
                  /\ rw[w].attempt # run.attempts \/ run.state # "running"
                  => /\ run'.state = run.state
                     /\ led' = led
                     /\ Pending' = Pending
<1>1. Typed /\ ReviewInv /\ [Next]_vars => [A]_reviewVars
  <2>1. SUFFICES ASSUME Typed, ReviewInv, [Next]_vars, NEW w \in ReviewWorkers,
                        rw'[w] # rw[w], Active(w), ~Holds(w)
                 PROVE  run'.state = run.state /\ led' = led /\ Pending' = Pending
    BY DEF Active, Holds
  <2>2. ReviewTyped
    BY <2>1 DEF Typed
  <2>3. CASE StopRun \/ DownRun
    BY <2>3 DEF StopRun, DownRun, Pending, Population
  <2>4. CASE RecoverRuns \/ ClaimRun(w)
    BY <2>1, <2>4 DEF RecoverRuns, ClaimRun, Active
  <2>5. CASE Manages(w)
    BY <2>1, <2>5 DEF Manages, Batch, EndBatch, Interrupted, BeginFinish, FinishRun,
       FinishRaises, FailRun, BreakOff, Pending, Population
  <2>6. ASSUME NEW d \in Docs, PoolMove(w, d) PROVE run'.state = run.state /\ led' = led /\ dec' = dec
    BY <2>1, <2>2, <2>6, PoolKeepsState DEF PoolMove, MayWrite
  <2>7. \A d \in Docs : ~Record(w, d)
    BY <2>1 DEF Record, MayWrite
  <2>8. ASSUME NEW d \in Population, CheckSource(w, d)
        PROVE  run'.state = run.state /\ led' = led /\ Pending' = Pending
    <3>1. led' = led
      BY <2>1, <2>8 DEF CheckSource
    <3>2. CASE run' = run /\ dec' = dec
      BY <3>1, <3>2 DEF Pending, Population
    <3>3. CASE /\ run' = Demoted(run, dec[d].machine) /\ d \in Population \ Pending
               /\ dec' = [dec EXCEPT ![d].machine = "needs_attention"]
      <4>1. "needs_attention" # "pending" /\ d \in Population
        OBVIOUS
      <4>2. Pending' = Pending \ {d}
        BY <2>2, <3>3, <4>1, DecidingMoves
      <4>3. QED BY <2>1, <2>2, <3>1, <3>3, <4>2, CountsDemotion DEF ReviewInv
    <3>4. QED BY <2>8, <3>2, <3>3 DEF CheckSource, Pending
  <2>9. QED BY <2>1, <2>3, <2>4, <2>5, <2>6, <2>7, <2>8, MovesItself DEF Pending, Population
<1>2. QED BY <1>1, ReviewHolds, PTL DEF Spec, AttemptsAreFenced

\* Who makes a run succeed has looked at all of it under the guard.
LEMMA OnlyFinishSucceeds ==
  ASSUME Typed, [Next]_vars, NEW w \in ReviewWorkers, Succeeds(w)
  PROVE  FinishRun(w)
<1>1. /\ rw'[w] # rw[w] /\ rw[w].pc = "finishing" /\ run'.state # run.state
      /\ run'.state = "succeeded" /\ ReviewTyped /\ run \in Run
  BY DEF Succeeds, Typed, ReviewTyped, ReviewTypeOK
<1>2. ~StopRun /\ ~DownRun /\ ~ClaimRun(w)
  BY <1>1 DEF StopRun, DownRun, ClaimRun
<1>3. ~RecoverRuns
  <2>1. RecoverRuns => rw'[w] = rw[w]
    BY <1>1 DEF RecoverRuns, ReviewTyped, ReviewTypeOK
  <2>2. QED BY <1>1, <2>1
<1>4. Manages(w) => FinishRun(w)
  BY <1>1 DEF Manages, Batch, EndBatch, Interrupted, BeginFinish, FinishRaises, FailRun, BreakOff
<1>5. ASSUME NEW d \in Docs, PoolMove(w, d) \/ Record(w, d) PROVE FALSE
  BY <1>1, <1>5 DEF PoolMove, Record
<1>6. ASSUME NEW d \in Population, CheckSource(w, d) PROVE FALSE
  <2>1. rw'[w].pc = "finishing"
    BY <1>1, <1>6, ThreadSums DEF Becomes, Population
  <2>2. QED BY <2>1 DEF Succeeds
<1>7. QED BY <1>1, <1>2, <1>3, <1>4, <1>5, <1>6, MovesItself

\* What a run that succeeds says of a source is about the version that is
\* searchable at that moment, and the ledger bears it out.
THEOREM SuccessIsCurrent == Spec => VerdictsStand
<1> DEFINE A == \A w \in ReviewWorkers : Succeeds(w) /\ ~rw[w].old =>
                  \A d \in Population : dec[d].machine \in {"included", "excluded"} =>
                    /\ Unchanged(d)
                    /\ FullText => Supported(d)
<1>1. Typed /\ ReviewInv /\ [Next]_vars => [A]_reviewVars
  <2>1. SUFFICES ASSUME Typed, ReviewInv, [Next]_vars, NEW w \in ReviewWorkers, Succeeds(w),
                        ~rw[w].old, NEW d \in Population,
                        dec[d].machine \in {"included", "excluded"}
                 PROVE  Unchanged(d) /\ (FullText => Supported(d))
    OBVIOUS
  <2>2. FinishRun(w)
    BY <2>1, OnlyFinishSucceeds
  <2>3. rw[w].pc = "finishing" /\ rw[w].seen = Population
    BY <2>2 DEF FinishRun
  <2>4. Unchanged(d)
    BY <2>1, <2>3 DEF ReviewInv, FinishInv
  <2>5. FullText => Supported(d)
    BY <2>1 DEF ReviewInv, LedgerInv, Population
  <2>6. QED BY <2>4, <2>5
<1>2. QED BY <1>1, ReviewHolds, PTL DEF Spec, VerdictsStand

\* A judgement lands on the decision, and on the earlier judgement, that the
\* person had on the screen, whoever else judged or decided meanwhile.
THEOREM JudgementsLand == Spec => AdjudicatesWhatItSaw
<1> DEFINE A == \A d \in Docs : dec'[d].human \notin {dec[d].human, "none"} =>
                  \E r \in Reviewers :
                    /\ page[r] # None /\ page[r].doc = d
                    /\ page[r].machine = dec[d].machine
                    /\ page[r].human = dec[d].human
<1>1. Typed /\ ReviewInv /\ [Next]_vars => [A]_reviewVars
  <2>1. SUFFICES ASSUME Typed, ReviewInv, [Next]_vars, NEW d \in Docs,
                        dec'[d].human \notin {dec[d].human, "none"}
                 PROVE  \E r \in Reviewers :
                          /\ page[r] # None /\ page[r].doc = d
                          /\ page[r].machine = dec[d].machine
                          /\ page[r].human = dec[d].human
    OBVIOUS
  <2>2. dec \in [Docs -> Decision] /\ dec' # dec
    BY <2>1 DEF Typed, ReviewTyped, ReviewTypeOK
  <2>3. ASSUME NEW e \in Docs, NEW v, dec' = [dec EXCEPT ![e].machine = v] PROVE FALSE
    <3> DEFINE q == [dec[d] EXCEPT !.machine = v]
    <3>1. q.human = dec[d].human
      BY <2>2 DEF Decision
    <3>2. dec'[d] = dec[d] \/ dec'[d] = q
      BY <2>2, <2>3
    <3>3. QED BY <2>1, <3>1, <3>2
  <2>4. ~DeleteRun
    BY <2>1 DEF DeleteRun, NoDecision
  <2>5. ASSUME NEW mode \in Modes, QueueRun(mode) PROVE FALSE
    <3>1. \E b : dec'[d] = [NoDecision EXCEPT !.basis = b]
      BY <2>5 DEF QueueRun
    <3>2. QED BY <2>1, <3>1 DEF NoDecision
  <2>6. /\ ~StopRun /\ ~DownRun /\ ~RecoverRuns
        /\ \A w \in ReviewWorkers : ~ClaimRun(w) /\ ~Manages(w)
        /\ \A w \in ReviewWorkers, e \in Docs : ~PoolMove(w, e)
    BY <2>2 DEF StopRun, DownRun, RecoverRuns, ClaimRun, Manages, Batch, EndBatch, Interrupted,
       BeginFinish, FinishRun, FinishRaises, FailRun, BreakOff, PoolMove
  <2>7. ASSUME NEW w \in ReviewWorkers, NEW e \in Docs, Record(w, e) \/ CheckSource(w, e)
        PROVE  FALSE
    BY <2>2, <2>3, <2>7 DEF Record, CheckSource
  <2>8. Controls
    BY <2>1, <2>4, <2>5, <2>6, <2>7, Steps DEF Population
  <2>9. PICK r \in Reviewers, h \in Humans \ {"none"} : Adjudicate(r, h)
    BY <2>2, <2>8 DEF Controls, CancelRun, RetryRun, ChangeAccess, OpenPage, reviewVars
  <2>10. /\ page[r] # None /\ page[r].current
         /\ dec' = [dec EXCEPT ![page[r].doc].human = h]
    BY <2>9 DEF Adjudicate, Accepted
  <2>11. page[r].doc = d
    BY <2>1, <2>2, <2>10
  <2>12. QED BY <2>1, <2>10, <2>11 DEF ReviewInv, PageInv
<1>2. QED BY <1>1, ReviewHolds, PTL DEF Spec, AdjudicatesWhatItSaw
=============================================================================
