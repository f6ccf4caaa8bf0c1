---------------------------- MODULE ReviewTypes ----------------------------
(***************************************************************************)
(* Type correctness of the actions of ReviewRuns, and what a step in the   *)
(* pool of a run may do (PoolMove), for any sources and threads.           *)
(***************************************************************************)
EXTENDS ReviewRuns, TLAPS

LEMMA RunFields ==
  ASSUME NEW r \in Run
  PROVE  /\ \A s \in {"none", "queued", "running", "succeeded", "failed", "cancelled", "deleted"} :
              [r EXCEPT !.state = s] \in Run
         /\ \A s \in {"none", "queued", "running", "succeeded", "failed", "cancelled", "deleted"} :
            \A c \in BOOLEAN : [r EXCEPT !.state = s, !.cancel = c] \in Run
         /\ [r EXCEPT !.limit = TRUE] \in Run
         /\ r.calls # MaxCalls => [r EXCEPT !.calls = @ + 1] \in Run
         /\ r.controls < MaxControls => [r EXCEPT !.controls = @ + 1] \in Run
         /\ [r EXCEPT !.state = "running", !.attempts = @ + 1, !.cancel = FALSE] \in Run
<1>1. \A s \in {"none", "queued", "running", "succeeded", "failed", "cancelled", "deleted"} :
            /\ [r EXCEPT !.state = s] \in Run
            /\ \A c \in BOOLEAN : [r EXCEPT !.state = s, !.cancel = c] \in Run
  BY DEF Run
<1>2. [r EXCEPT !.limit = TRUE] \in Run
  BY DEF Run
<1>3. r.calls # MaxCalls => [r EXCEPT !.calls = @ + 1] \in Run
  BY ReviewAssumption DEF Run
<1>4. r.controls < MaxControls => [r EXCEPT !.controls = @ + 1] \in Run
  BY ReviewAssumption DEF Run
<1>5. [r EXCEPT !.state = "running", !.attempts = @ + 1, !.cancel = FALSE] \in Run
  <2>1. \A n \in Nat : [r EXCEPT !.state = "running", !.attempts = n, !.cancel = FALSE] \in Run
    BY DEF Run
  <2>2. r.attempts + 1 \in Nat
    BY DEF Run
  <2>3. QED BY <2>1, <2>2
<1>6. QED BY <1>1, <1>2, <1>3, <1>4, <1>5

LEMMA CountedTyped ==
  ASSUME NEW r \in Run, NEW v \in Verdicts, NEW n \in Int
  PROVE  Counted(r, v, n) \in Run
<1> DEFINE i(x) == IF v = x THEN n ELSE 0
           a == r.reviewed + n
           b == r.included + i("included")
           c == r.excluded + i("excluded")
           e == r.attention + i("needs_attention")
<1>1. a \in Int /\ b \in Int /\ c \in Int /\ e \in Int
  BY DEF Run
<1>2. Counted(r, v, n) =
        [r EXCEPT !.reviewed = a, !.included = b, !.excluded = c, !.attention = e]
  BY DEF Counted
<1> HIDE DEF a, b, c, e
<1>3. [r EXCEPT !.reviewed = a, !.included = b, !.excluded = c, !.attention = e] \in Run
  BY <1>1 DEF Run
<1>4. QED BY <1>2, <1>3

LEMMA InvalidTyped ==
  ASSUME NEW d \in Docs, led[d] \in Source(d)
  PROVE  Invalid(d) \in Source(d) /\ Invalid(d).state = "invalidated"
<1>1. led[d].ranges = <<>> => Invalid(d).ranges = <<>>
  BY DEF Invalid
<1>2. led[d].ranges \in [1..Ranges[d] -> Outcomes] => Invalid(d).ranges \in [1..Ranges[d] -> Outcomes]
  BY DEF Invalid, Outcomes
<1>3. QED BY <1>1, <1>2 DEF Invalid, Source

\* What the ledger says of a source stands on its ranges: one was included, or
\* every one of the source excluded.
Bears(d, l, v) == /\ v = "included" => \E i \in DOMAIN l.ranges : l.ranges[i] = "include"
                  /\ v = "excluded" => l.ranges = [i \in 1..Ranges[d] |-> "exclude"]

\* An inventory is of all ranges; a result is a verdict.
ReviewTyped ==
    /\ ReviewTypeOK
    /\ \A d \in Docs : led[d].state = "inventoried" => led[d].ranges \in [1..Ranges[d] -> Outcomes]
    /\ \A w \in ReviewWorkers, d \in Docs :
         rw[w].task[d].pc = "done" => rw[w].task[d].result \in Verdicts

LedgerRow(d, l) == /\ l \in Source(d)
                   /\ l.state = "inventoried" => l.ranges \in [1..Ranges[d] -> Outcomes]

\* One step of one source in the pool of thread w.
PoolMove(w, d) ==
    /\ rw[w].pc \in {"batch", "drain"} /\ rw[w].task[d].pc \in Reading
    /\ UNCHANGED <<intakeVars, dec, page, access>>
    /\ \E t \in Task :
         /\ TaskTo(w, d, t)
         /\ t.pc # "none"
         /\ t.pc = "classify" => ~FullText
         /\ t.pc = "done" => /\ t.result \in Verdicts
                             /\ rw[w].task[d].pc # "classify" => Bears(d, led'[d], t.result)
    /\ \/ run' = run
       \/ run' = [run EXCEPT !.limit = TRUE]
       \/ run.calls # MaxCalls /\ run' = [run EXCEPT !.calls = @ + 1]
    /\ \/ led' = led
       \/ MayWrite(w) /\ \E l : LedgerRow(d, l) /\ led' = [led EXCEPT ![d] = l]

LEMMA SaysBears ==
  ASSUME NEW d \in Docs, NEW l, LedgerRow(d, l)
  PROVE  Says(l) \in Verdicts /\ Bears(d, l, Says(l))
<1> USE DEF LedgerRow
<1> DEFINE found == {l.ranges[i] : i \in DOMAIN l.ranges}
<1>1. CASE "include" \in found
  BY <1>1 DEF Says, Bears, Verdicts
<1>2. CASE "include" \notin found /\ (l.state # "inventoried" \/ found # {"exclude"})
  BY <1>2 DEF Says, Bears, Verdicts
<1>3. CASE l.state = "inventoried" /\ found = {"exclude"}
  <2>1. \A i \in 1..Ranges[d] : l.ranges[i] \in found
    BY <1>3
  <2>2. l.ranges = [i \in 1..Ranges[d] |-> "exclude"]
    BY <1>3, <2>1
  <2>3. Says(l) = "excluded"
    BY <1>3 DEF Says
  <2>4. QED BY <2>2, <2>3 DEF Bears, Verdicts
<1>4. QED BY <1>1, <1>2, <1>3

LEMMA InvalidRow ==
  ASSUME ReviewTyped, NEW d \in Docs
  PROVE  LedgerRow(d, Invalid(d))
<1>1. Invalid(d).state # "inventoried"
  BY DEF Invalid
<1>2. QED BY <1>1, InvalidTyped DEF ReviewTyped, ReviewTypeOK, LedgerRow

LEMMA TaskForms ==
  /\ \A v \in Verdicts : [NoTask EXCEPT !.pc = "done", !.result = v] \in Task
  /\ \A pc \in {"begin", "raised"} : [NoTask EXCEPT !.pc = pc] \in Task
  /\ \A pc \in {"inventory", "classify"} : \A n \in Nat :
       [NoTask EXCEPT !.pc = pc, !.units = n] \in Task
  /\ \A t \in Task : \A pc \in Reading : [t EXCEPT !.pc = pc] \in Task
  /\ NoTask \in Task
BY DEF NoTask, Task, Reading

\* A source goes on to another step of its reading.
LEMMA GoesOn ==
  ASSUME ReviewTyped, NEW w \in ReviewWorkers, NEW d \in Docs,
         NEW pc \in {"scan", "call", "close", "raised"},
         Step(w, d, pc) \/ TaskTo(w, d, [NoTask EXCEPT !.pc = "raised"])
  PROVE  \E t \in Task : /\ TaskTo(w, d, t)
                         /\ t.pc \notin {"none", "classify", "done"}
<1>1. rw[w].task[d] \in Task
  BY DEF ReviewTyped, ReviewTypeOK, Worker
<1>2. /\ [rw[w].task[d] EXCEPT !.pc = pc] \in Task
      /\ [rw[w].task[d] EXCEPT !.pc = pc].pc = pc
  BY <1>1 DEF Task
<1>3. /\ [NoTask EXCEPT !.pc = "raised"] \in Task
      /\ [NoTask EXCEPT !.pc = "raised"].pc = "raised"
  BY TaskForms DEF NoTask
<1>4. QED BY <1>2, <1>3 DEF Step

LEMMA PoolStep ==
  ASSUME IntakeTypeOK, ReviewTyped, NEW w \in ReviewWorkers, NEW d \in Docs,
         \/ Raise(w, d) \/ RefuseWrite(w, d) \/ BeginStale(w, d) \/ Begin(w, d)
         \/ Classify(w, d) \/ Inventory(w, d) \/ Scan(w, d) \/ ReadRange(w, d)
         \/ CloseSource(w, d)
  PROVE  PoolMove(w, d)
<1>1. CASE Raise(w, d)
  BY <1>1, TaskForms DEF Raise, PoolMove, InTask, NoTask
<1>2. CASE RefuseWrite(w, d)
  BY <1>2, TaskForms DEF RefuseWrite, PoolMove, InTask, Answer, NoTask, Verdicts, Bears, Reading
<1>3. CASE BeginStale(w, d)
  BY <1>3, TaskForms, InvalidRow DEF BeginStale, PoolMove, Reads, InTask, Answer, NoTask, Verdicts, Bears, Reading
<1>4. CASE Begin(w, d)
  <2> DEFINE t == [NoTask EXCEPT !.pc = IF FullText THEN "inventory" ELSE "classify",
                                 !.units = doc[d].units]
  <2>1. doc[d].units \in Nat
    BY DEF IntakeTypeOK, Doc
  <2>2. t \in Task /\ t.pc \notin {"none", "done"} /\ (t.pc = "classify" => ~FullText)
    BY <2>1, TaskForms DEF NoTask
  <2>3. TaskTo(w, d, t)
    BY <1>4 DEF Begin
  <2> HIDE DEF t
  <2>4. QED BY <1>4, <2>2, <2>3 DEF Begin, PoolMove, Reads, InTask, Reading
<1>5. CASE Classify(w, d)
  BY <1>5, TaskForms DEF Classify, PoolMove, Reads, InTask, Answer, NoTask, Verdicts, Reading

<1>6. CASE Inventory(w, d)
  <2>1. \/ Step(w, d, "scan") /\ UNCHANGED <<run, led>>
        \/ led' = [led EXCEPT ![d] = Invalid(d)] /\ Step(w, d, "scan") /\ run' = run
        \/ HitLimit(w, d) /\ led' = led
        \/ /\ led' = [led EXCEPT ![d] = [state  |-> "inventoried",
                                        ranges |-> [i \in 1..Ranges[d] |-> "pending"]]]
           /\ Step(w, d, "scan") /\ run' = run
    BY <1>6 DEF Inventory
  <2>2. LedgerRow(d, [state  |-> "inventoried", ranges |-> [i \in 1..Ranges[d] |-> "pending"]])
    BY DEF LedgerRow, Source, Outcomes
  <2>3. \E t \in Task : TaskTo(w, d, t) /\ t.pc \notin {"none", "classify", "done"}
    BY <2>1, GoesOn DEF HitLimit
  <2>4. run' = run \/ run' = [run EXCEPT !.limit = TRUE]
    BY <2>1 DEF HitLimit
  <2>5. led' = led \/ \E l : LedgerRow(d, l) /\ led' = [led EXCEPT ![d] = l]
    BY <2>1, <2>2, InvalidRow
  <2>6. /\ InTask(w, d, {"inventory"}) /\ MayWrite(w)
        /\ UNCHANGED <<intakeVars, dec, page, access>>
    BY <1>6 DEF Inventory, Reads
  <2>7. QED BY <2>3, <2>4, <2>5, <2>6 DEF PoolMove, InTask, Reading
<1>7. CASE Scan(w, d)
  <2>1. \/ Discard(w, d) /\ run' = run
        \/ led' = led /\ Step(w, d, "close") /\ run' = run
        \/ led' = led /\ HitLimit(w, d)
        \/ /\ led' = led /\ run.calls # MaxCalls
           /\ run' = [run EXCEPT !.calls = @ + 1] /\ Step(w, d, "call")
    BY <1>7 DEF Scan
  <2>2. \E t \in Task : TaskTo(w, d, t) /\ t.pc \notin {"none", "classify", "done"}
    BY <2>1, GoesOn DEF HitLimit, Discard
  <2>3. \/ run' = run \/ run' = [run EXCEPT !.limit = TRUE]
        \/ run.calls # MaxCalls /\ run' = [run EXCEPT !.calls = @ + 1]
    BY <2>1 DEF HitLimit
  <2>4. led' = led \/ \E l : LedgerRow(d, l) /\ led' = [led EXCEPT ![d] = l]
    BY <2>1, InvalidRow DEF Discard
  <2>5. /\ InTask(w, d, {"scan"}) /\ MayWrite(w)
        /\ UNCHANGED <<intakeVars, dec, page, access>>
    BY <1>7 DEF Scan, Reads
  <2>6. QED BY <2>2, <2>3, <2>4, <2>5 DEF PoolMove, InTask, Reading
<1>8. CASE ReadRange(w, d)
  <2>1. \/ /\ Unread(d) # {} /\ Step(w, d, "scan")
           /\ \E o \in {"include", "exclude", "failed"} :
                led' = [led EXCEPT ![d].ranges[NextRange(d)] = o]
        \/ Discard(w, d)
    BY <1>8 DEF ReadRange
  <2>2. \E t \in Task : TaskTo(w, d, t) /\ t.pc \notin {"none", "classify", "done"}
    BY <2>1, GoesOn DEF Discard
  <2>3. \E l : LedgerRow(d, l) /\ led' = [led EXCEPT ![d] = l]
    <3>1. CASE Discard(w, d)
      BY <3>1, InvalidRow DEF Discard
    <3>2. ASSUME NEW o \in {"include", "exclude", "failed"}, Unread(d) # {},
                 led' = [led EXCEPT ![d].ranges[NextRange(d)] = o]
          PROVE  \E l : LedgerRow(d, l) /\ led' = [led EXCEPT ![d] = l]
      <4> DEFINE l == [led[d] EXCEPT !.ranges = [led[d].ranges EXCEPT ![NextRange(d)] = o]]
      <4>1. led' = [led EXCEPT ![d] = l]
        BY <3>2
      <4>2. led[d] \in Source(d) /\ led[d].ranges # <<>>
        BY <3>2 DEF ReviewTyped, ReviewTypeOK, Unread
      <4>3. led[d].ranges \in [1..Ranges[d] -> Outcomes]
        BY <4>2 DEF Source
      <4>4. [led[d].ranges EXCEPT ![NextRange(d)] = o] \in [1..Ranges[d] -> Outcomes]
        BY <4>3 DEF Outcomes
      <4>5. LedgerRow(d, l)
        BY <4>2, <4>4 DEF LedgerRow, Source
      <4>6. QED BY <4>1, <4>5
    <3>3. QED BY <2>1, <3>1, <3>2
  <2>4. /\ InTask(w, d, {"call"}) /\ MayWrite(w)
        /\ UNCHANGED <<intakeVars, run, dec, page, access>>
    BY <1>8 DEF ReadRange, Reads
  <2>5. QED BY <2>2, <2>3, <2>4 DEF PoolMove, InTask, Reading
<1>9. CASE CloseSource(w, d)
  <2> DEFINE l == led'[d]
             t == [NoTask EXCEPT !.pc = "done", !.result = Says(l)]
  <2>1. led' = led \/ led' = [led EXCEPT ![d] = Invalid(d)]
    BY <1>9 DEF CloseSource
  <2>2. LedgerRow(d, l)
    BY <2>1, InvalidRow DEF ReviewTyped, ReviewTypeOK, LedgerRow
  <2>3. Says(l) \in Verdicts /\ Bears(d, l, Says(l))
    BY <2>2, SaysBears
  <2>4. TaskTo(w, d, t)
    BY <1>9 DEF CloseSource, Answer
  <2>5. t \in Task /\ t.pc = "done" /\ t.result = Says(l)
    BY <2>3, TaskForms DEF NoTask
  <2>6. /\ InTask(w, d, {"close"}) /\ MayWrite(w)
        /\ UNCHANGED <<intakeVars, run, dec, page, access>>
    BY <1>9 DEF CloseSource, Reads
  <2>7. \E r \in Task : TaskTo(w, d, r) /\ r.pc = "done" /\ r.result \in Verdicts
                        /\ Bears(d, led'[d], r.result)
    <3> HIDE DEF t
    <3>1. QED BY <2>3, <2>4, <2>5
  <2>8. led' = led \/ \E r : LedgerRow(d, r) /\ led' = [led EXCEPT ![d] = r]
    BY <2>1, InvalidRow
  <2>9. QED BY <2>6, <2>7, <2>8 DEF PoolMove, InTask, Reading
<1>10. QED BY <1>1, <1>2, <1>3, <1>4, <1>5, <1>6, <1>7, <1>8, <1>9

-----------------------------------------------------------------------------
(* Threads and tasks                                                       *)

WorkerStates == {"dead", "idle", "loop", "batch", "drain", "finishing", "failing"}

LEMMA TaskToMoves ==
  ASSUME rw \in [ReviewWorkers -> Worker], NEW w \in ReviewWorkers, NEW d \in Docs,
         NEW t \in Task, TaskTo(w, d, t)
  PROVE  /\ rw' \in [ReviewWorkers -> Worker]
         /\ \A v \in ReviewWorkers \ {w} : rw'[v] = rw[v]
         /\ rw'[w].task[d] = t
         /\ \A e \in Docs \ {d} : rw'[w].task[e] = rw[w].task[e]
         /\ rw'[w].pc = rw[w].pc /\ rw'[w].attempt = rw[w].attempt
         /\ rw'[w].stop = rw[w].stop /\ rw'[w].old = rw[w].old /\ rw'[w].seen = rw[w].seen
BY DEF TaskTo, Worker

LEMMA WorkerForms ==
  /\ Idle \in Worker /\ Dead \in Worker
  /\ \A s \in BOOLEAN : [Idle EXCEPT !.stop = s] \in Worker
<1>1. [d \in Docs |-> NoTask] \in [Docs -> Task]
  BY TaskForms
<1>2. Idle \in Worker
  BY <1>1 DEF Idle, Worker
<1>3. Dead \in Worker
  BY <1>2 DEF Dead, Worker
<1>4. \A s \in BOOLEAN : [Idle EXCEPT !.stop = s] \in Worker
  BY <1>2 DEF Worker
<1>5. QED BY <1>2, <1>3, <1>4

LEMMA RestTyped ==
  ASSUME ReviewTyped, NEW w \in ReviewWorkers
  PROVE  Rest(w) \in Worker /\ \A d \in Docs : Rest(w).task[d] = NoTask
<1>1. rw[w].stop \in BOOLEAN
  BY DEF ReviewTyped, ReviewTypeOK, Worker
<1>2. Rest(w) \in Worker
  BY <1>1, WorkerForms DEF Rest
<1>3. \A d \in Docs : Dead.task[d] = NoTask /\ [Idle EXCEPT !.stop = rw[w].stop].task[d] = NoTask
  BY DEF Idle, Dead
<1>4. QED BY <1>2, <1>3 DEF Rest

LEMMA WorkerFields ==
  ASSUME NEW r \in Worker
  PROVE  /\ \A pc \in WorkerStates : \A n \in Nat :
              /\ [r EXCEPT !.pc = pc, !.attempt = n] \in Worker
              /\ [r EXCEPT !.pc = pc, !.attempt = n].task = r.task
         /\ \A pc \in WorkerStates : \A T \in [Docs -> Task] :
              /\ [r EXCEPT !.pc = pc, !.task = T] \in Worker
              /\ [r EXCEPT !.pc = pc, !.task = T].task = T
<1>1. \A pc \in WorkerStates : \A n \in Nat :
        /\ [r EXCEPT !.pc = pc, !.attempt = n] \in Worker
        /\ [r EXCEPT !.pc = pc, !.attempt = n].task = r.task
  BY DEF Worker, WorkerStates
<1>2. ASSUME NEW pc \in WorkerStates, NEW T \in [Docs -> Task]
      PROVE  /\ [r EXCEPT !.pc = pc, !.task = T] \in Worker
             /\ [r EXCEPT !.pc = pc, !.task = T].task = T
  BY DEF Worker, WorkerStates
<1>3. QED BY <1>1, <1>2

\* A thread goes to pc, with or without its tasks.
LEMMA WorkerMoves ==
  ASSUME ReviewTyped, NEW w \in ReviewWorkers, NEW pc \in WorkerStates
  PROVE  /\ WorkerTo(w, pc) => rw' \in [ReviewWorkers -> Worker]
         /\ \A why \in {"error", "cancelled"} :
              GiveUp(w, pc, why) => rw' \in [ReviewWorkers -> Worker]
<1>1. rw \in [ReviewWorkers -> Worker] /\ rw[w] \in Worker
  BY DEF ReviewTyped, ReviewTypeOK
<1>2. [rw[w] EXCEPT !.pc = pc] \in Worker
  BY <1>1 DEF Worker, WorkerStates
<1>3. ASSUME NEW why \in {"error", "cancelled"}
      PROVE  [rw[w] EXCEPT !.pc = pc, !.why = why, !.seen = {}] \in Worker
  BY <1>1 DEF Worker, WorkerStates
<1>4. WorkerTo(w, pc) => rw' = [rw EXCEPT ![w] = [@ EXCEPT !.pc = pc]]
  BY <1>1 DEF WorkerTo
<1>5. ASSUME NEW why \in {"error", "cancelled"}, GiveUp(w, pc, why)
      PROVE  rw' = [rw EXCEPT ![w] = [@ EXCEPT !.pc = pc, !.why = why, !.seen = {}]]
  BY <1>1, <1>5 DEF GiveUp
<1>6. QED BY <1>1, <1>2, <1>3, <1>4, <1>5

LEMMA PoolTyped ==
  ASSUME ReviewTyped, NEW w \in ReviewWorkers, NEW d \in Docs, PoolMove(w, d)
  PROVE  ReviewTyped'
<1> USE DEF ReviewTyped, ReviewTypeOK
<1>1. PICK t \in Task : TaskTo(w, d, t) /\ (t.pc = "done" => t.result \in Verdicts)
  BY DEF PoolMove
<1>2. /\ rw' \in [ReviewWorkers -> Worker]
      /\ \A v \in ReviewWorkers, e \in Docs :
           rw'[v].task[e].pc = "done" => rw'[v].task[e].result \in Verdicts
  BY <1>1, TaskToMoves
<1>3. run' \in Run
  <2>1. CASE run' = [run EXCEPT !.limit = TRUE]
    BY <2>1, RunFields
  <2>2. CASE run.calls # MaxCalls /\ run' = [run EXCEPT !.calls = @ + 1]
    BY <2>2, RunFields
  <2>3. QED BY <2>1, <2>2 DEF PoolMove
<1>4. /\ DOMAIN led' = Docs
      /\ \A e \in Docs : LedgerRow(e, led'[e])
  BY DEF PoolMove, LedgerRow
<1>5. dec' = dec /\ page' = page /\ access' = access
  BY DEF PoolMove
<1>6. QED BY <1>2, <1>3, <1>4, <1>5 DEF LedgerRow, Source, Decision

-----------------------------------------------------------------------------
(* Requests                                                                *)

LEMMA ReviewInitTyped == ASSUME ReviewInit PROVE ReviewTyped
<1>1. BlankRun \in Run
  BY ReviewAssumption DEF BlankRun, Run, Modes
<1>2. NoDecision \in Decision
  BY DEF NoDecision, Decision, Humans
<1>3. \A d \in Docs : NoSource \in Source(d) /\ NoSource.state = "none"
  BY DEF NoSource, Source
<1>4. \A d \in Docs : Idle.task[d].pc = "none"
  BY DEF Idle, NoTask
<1>5. QED BY <1>1, <1>2, <1>3, <1>4, WorkerForms DEF ReviewInit, ReviewTyped, ReviewTypeOK

LEMMA DecisionFields ==
  ASSUME NEW r \in Decision
  PROVE  /\ \A v \in Verdicts : [r EXCEPT !.machine = v] \in Decision
         /\ \A h \in Humans : [r EXCEPT !.human = h] \in Decision
         /\ \A b \in Bases \cup {None} : [NoDecision EXCEPT !.basis = b] \in Decision
BY DEF Decision, NoDecision, Humans

LEMMA RestampTyped ==
  ASSUME ReviewTypeOK, NEW ds, Restamp(ds)
  PROVE  page' \in [Reviewers -> {None} \cup [doc : Docs, machine : Verdicts \cup {"pending"},
                                              human : Humans, current : BOOLEAN]]
BY DEF ReviewTypeOK, Restamp

LEMMA RequestTyped ==
  ASSUME IntakeTypeOK, ReviewTyped, Request
  PROVE  ReviewTyped'
<1> USE DEF ReviewTyped, ReviewTypeOK
<1>1. ASSUME NEW mode \in Modes, QueueRun(mode) PROVE ReviewTyped'
  <2>1. run' \in Run
    BY <1>1 DEF QueueRun, Run
  <2>2. dec' \in [Docs -> Decision]
    <3>1. \A d \in Docs : doc[d].basis \in Bases \cup {None}
      BY DEF IntakeTypeOK, Doc
    <3>2. PICK S : dec' = [d \in Docs |-> [NoDecision EXCEPT !.basis =
                                       IF d \in S THEN doc[d].basis ELSE None]]
      BY <1>1 DEF QueueRun
    <3>3. ASSUME NEW d \in Docs, NEW b \in Bases \cup {None}
          PROVE  [NoDecision EXCEPT !.basis = b] \in Decision
      BY DEF Decision, NoDecision, Humans
    <3>4. ASSUME NEW d \in Docs PROVE dec'[d] \in Decision
      <4>1. CASE d \in S
        BY <3>1, <3>2, <3>3, <4>1
      <4>2. CASE d \notin S
        BY <3>2, <3>3, <4>2
      <4>3. QED BY <4>1, <4>2
    <3>5. QED BY <3>2, <3>4
  <2>3. /\ DOMAIN led' = Docs
        /\ \A d \in Docs : led'[d] \in Source(d) /\ led'[d].state # "inventoried"
    BY <1>1 DEF QueueRun, NoSource, Source
  <2>4. QED BY <1>1, <2>1, <2>2, <2>3 DEF QueueRun, Source
<1>2. CASE CancelRun
  <2>1. run' \in Run
    BY <1>2 DEF CancelRun, Run
  <2>2. QED BY <1>2, <2>1 DEF CancelRun, Source
<1>3. CASE RetryRun
  <2>1. run' \in Run
    <3>1. Charged(run) \in Run
      <4>1. CASE run.mode = "full_text"
        <5>1. run.controls < MaxControls
          BY <1>3, <4>1 DEF RetryRun, MayCharge
        <5>2. Charged(run) = [run EXCEPT !.controls = @ + 1]
          BY <4>1 DEF Charged
        <5>3. QED BY <5>1, <5>2, RunFields
      <4>2. CASE run.mode # "full_text"
        BY <4>2 DEF Charged, Run
      <4>3. QED BY <4>1, <4>2
    <3>2. QED BY <1>3, <3>1, RunFields DEF RetryRun
  <2>2. QED BY <1>3, <2>1 DEF RetryRun, Source
<1>4. CASE DeleteRun
  <2>1. run' \in Run
    <3>1. BlankRun \in Run
      BY ReviewAssumption DEF BlankRun, Run, Modes
    <3>2. QED BY <1>4, <3>1, RunFields DEF DeleteRun
  <2>2. dec' \in [Docs -> Decision]
    BY <1>4 DEF DeleteRun, NoDecision, Decision, Humans
  <2>3. /\ DOMAIN led' = Docs
        /\ \A d \in Docs : led'[d] \in Source(d) /\ led'[d].state # "inventoried"
    BY <1>4 DEF DeleteRun, NoSource, Source
  <2>4. QED BY <1>4, <2>1, <2>2, <2>3 DEF DeleteRun, Source
<1>5. CASE ChangeAccess
  BY <1>5 DEF ChangeAccess, Source
<1>6. ASSUME NEW r \in Reviewers, NEW d \in Docs, OpenPage(r, d) PROVE ReviewTyped'
  <2>1. [doc |-> d, machine |-> dec[d].machine, human |-> dec[d].human, current |-> TRUE]
          \in [doc : Docs, machine : Verdicts \cup {"pending"}, human : Humans,
               current : BOOLEAN]
    BY DEF Decision
  <2>2. QED BY <1>6, <2>1 DEF OpenPage, Source
<1>7. ASSUME NEW r \in Reviewers, NEW h \in Humans \ {"none"}, Adjudicate(r, h)
      PROVE  ReviewTyped'
  <2>1. dec' \in [Docs -> Decision]
    <3>1. \A d \in Docs : [dec[d] EXCEPT !.human = h] \in Decision
      BY DecisionFields
    <3>2. dec' = [dec EXCEPT ![page[r].doc] = [@ EXCEPT !.human = h]]
      BY <1>7 DEF Adjudicate
    <3>3. QED BY <3>1, <3>2
  <2>2. QED BY <1>7, <2>1, RestampTyped DEF Adjudicate, Source
<1>8. QED BY <1>1, <1>2, <1>3, <1>4, <1>5, <1>6, <1>7 DEF Request

-----------------------------------------------------------------------------
(* The coordinator and the process                                         *)

\* Threads whose results are verdicts.
Threads(r) == /\ r \in [ReviewWorkers -> Worker]
              /\ \A w \in ReviewWorkers, d \in Docs :
                   r[w].task[d].pc = "done" => r[w].task[d].result \in Verdicts

\* A thread that moves without its tasks, or drops them.
LEMMA ThreadMoves ==
  ASSUME ReviewTyped, NEW w \in ReviewWorkers,
         \/ \E pc \in WorkerStates : WorkerTo(w, pc)
         \/ \E pc \in WorkerStates, why \in {"error", "cancelled"} : GiveUp(w, pc, why)
         \/ rw' = [rw EXCEPT ![w] = Rest(w)]
  PROVE  Threads(rw')
<1> USE DEF ReviewTyped, ReviewTypeOK, Threads
<1>1. ASSUME NEW pc \in WorkerStates,
             WorkerTo(w, pc) \/ \E why \in {"error", "cancelled"} : GiveUp(w, pc, why)
      PROVE  Threads(rw')
  <2>1. rw' \in [ReviewWorkers -> Worker]
    BY <1>1, WorkerMoves
  <2>2. \A v \in ReviewWorkers : rw'[v].task = rw[v].task
    <3>1. ASSUME NEW v \in ReviewWorkers PROVE rw'[v].task = rw[v].task
      <4>1. rw[v] \in Worker
        OBVIOUS
      <4>2. CASE WorkerTo(w, pc)
        BY <4>1, <4>2 DEF WorkerTo, Worker
      <4>3. ASSUME NEW why \in {"error", "cancelled"}, GiveUp(w, pc, why)
            PROVE  rw'[v].task = rw[v].task
        BY <4>1, <4>3 DEF GiveUp, Worker
      <4>4. QED BY <1>1, <4>2, <4>3
    <3>2. QED BY <3>1
  <2>3. QED BY <2>1, <2>2
<1>2. CASE rw' = [rw EXCEPT ![w] = Rest(w)]
  <2>1. /\ Rest(w) \in Worker
        /\ \A d \in Docs : Rest(w).task[d].pc # "done"
    BY RestTyped DEF NoTask
  <2>2. QED BY <1>2, <2>1
<1>3. QED BY <1>1, <1>2

LEMMA RecordTyped ==
  ASSUME ReviewTyped, NEW w \in ReviewWorkers, NEW d \in Docs, Record(w, d)
  PROVE  ReviewTyped'
<1> USE DEF ReviewTyped, ReviewTypeOK
<1> DEFINE v == Recorded(d, rw[w].task[d].result)
<1>1. v \in Verdicts
  BY DEF Record, Recorded, Verdicts
<1>2. Threads(rw')
  <2>1. NoTask \in Task /\ NoTask.pc # "done"
    BY TaskForms DEF NoTask
  <2>2. TaskTo(w, d, NoTask)
    BY DEF Record
  <2>3. QED BY <2>1, <2>2, TaskToMoves DEF Threads
<1>3. \/ run' = Counted(run, v, 1) /\ dec' = [dec EXCEPT ![d].machine = v] /\ Restamp({d})
      \/ UNCHANGED <<dec, run, page>>
  BY DEF Record
<1> HIDE DEF v
<1>4. run' \in Run
  BY <1>1, <1>3, CountedTyped
<1>5. dec' \in [Docs -> Decision]
  <2>1. [dec[d] EXCEPT !.machine = v] \in Decision
    BY <1>1, DecisionFields
  <2>2. dec' = dec \/ dec' = [dec EXCEPT ![d] = [@ EXCEPT !.machine = v]]
    BY <1>3
  <2>3. QED BY <2>1, <2>2
<1>6. page' \in [Reviewers -> {None} \cup [doc : Docs, machine : Verdicts \cup {"pending"},
                                           human : Humans, current : BOOLEAN]]
  BY <1>3, RestampTyped
<1>7. led' = led /\ access' = access
  BY DEF Record
<1>8. QED BY <1>2, <1>4, <1>5, <1>6, <1>7 DEF Threads, Source

LEMMA CheckTyped ==
  ASSUME ReviewTyped, NEW w \in ReviewWorkers, NEW d \in Docs, CheckSource(w, d)
  PROVE  ReviewTyped'
<1> USE DEF ReviewTyped, ReviewTypeOK
<1>1. Threads(rw')
  <2> DEFINE S == rw[w].seen \cup {d}
             r == [rw[w] EXCEPT !.seen = S]
  <2>1. rw[w] \in Worker /\ S \in SUBSET Docs
    BY DEF Worker
  <2>2. rw' = [rw EXCEPT ![w] = r]
    BY DEF CheckSource
  <2>3. r \in Worker /\ r.task = rw[w].task
    <3> HIDE DEF S
    <3>1. QED BY <2>1 DEF Worker
  <2> HIDE DEF r
  <2>4. QED BY <2>2, <2>3 DEF Threads
<1>2. \/ UNCHANGED <<run, dec, led, page>>
      \/ /\ run' = Demoted(run, dec[d].machine) /\ dec[d].machine # "pending"
         /\ dec' = [dec EXCEPT ![d].machine = "needs_attention"]
         /\ led' = led \/ led' = [led EXCEPT ![d] = Invalid(d)]
         /\ Restamp({d})
  BY DEF CheckSource
<1>3. run' \in Run
  <2>1. CASE run' = Demoted(run, dec[d].machine) /\ dec[d].machine # "pending"
    <3>1. dec[d].machine \in Verdicts
      BY <2>1 DEF Decision
    <3>2. Counted(run, dec[d].machine, -1) \in Run
      BY <3>1, CountedTyped
    <3>3. Counted(Counted(run, dec[d].machine, -1), "needs_attention", 1) \in Run
      BY <3>2, CountedTyped DEF Verdicts
    <3>4. QED BY <2>1, <3>3 DEF Demoted
  <2>2. QED BY <1>2, <2>1
<1>4. dec' \in [Docs -> Decision]
  <2>1. [dec[d] EXCEPT !.machine = "needs_attention"] \in Decision
    BY DecisionFields DEF Verdicts
  <2>2. dec' = dec \/ dec' = [dec EXCEPT ![d] = [@ EXCEPT !.machine = "needs_attention"]]
    BY <1>2
  <2>3. QED BY <2>1, <2>2
<1>5. DOMAIN led' = Docs /\ \A e \in Docs : LedgerRow(e, led'[e])
  BY <1>2, InvalidRow DEF LedgerRow
<1>6. page' \in [Reviewers -> {None} \cup [doc : Docs, machine : Verdicts \cup {"pending"},
                                           human : Humans, current : BOOLEAN]]
  BY <1>2, RestampTyped
<1>7. access' = access
  BY DEF CheckSource
<1>8. QED BY <1>1, <1>3, <1>4, <1>5, <1>6, <1>7 DEF Threads, Source, LedgerRow

LEMMA BatchTyped ==
  ASSUME ReviewTyped, NEW w \in ReviewWorkers,
         ClaimRun(w) \/ Batch(w) \/ EndBatch(w)
  PROVE  ReviewTyped'
<1> USE DEF ReviewTyped, ReviewTypeOK
<1>1. CASE ClaimRun(w)
  <2>1. run' \in Run
    BY <1>1, RunFields DEF ClaimRun
  <2>2. run.attempts + 1 \in Nat
    BY DEF Run
  <2>3. [rw[w] EXCEPT !.pc = "loop", !.attempt = run.attempts + 1] \in Worker
    BY <2>2, WorkerFields DEF WorkerStates
  <2>4. rw' = [rw EXCEPT ![w] = [@ EXCEPT !.pc = "loop", !.attempt = run.attempts + 1]]
    BY <1>1 DEF ClaimRun
  <2>5. [rw[w] EXCEPT !.pc = "loop", !.attempt = run.attempts + 1].task = rw[w].task
    BY DEF Worker
  <2>6. Threads(rw')
    BY <2>3, <2>4, <2>5 DEF Threads
  <2>7. QED BY <1>1, <2>1, <2>6 DEF ClaimRun, Threads, Source
<1>2. CASE Batch(w)
  <2> DEFINE T == [d \in Docs |-> IF d \in Pending THEN [NoTask EXCEPT !.pc = "begin"] ELSE NoTask]
  <2>1. T \in [Docs -> Task] /\ \A d \in Docs : T[d].pc # "done"
    BY TaskForms DEF NoTask
  <2>2. rw' = [rw EXCEPT ![w] = [@ EXCEPT !.pc = "batch", !.task = T]]
    BY <1>2 DEF Batch
  <2> HIDE DEF T
  <2>3. [rw[w] EXCEPT !.pc = "batch", !.task = T] \in Worker
    BY <2>1, WorkerFields DEF WorkerStates
  <2>4. [rw[w] EXCEPT !.pc = "batch", !.task = T].task = T
    BY DEF Worker
  <2>5. Threads(rw')
    BY <2>1, <2>2, <2>3, <2>4 DEF Threads
  <2>6. QED BY <1>2, <2>5 DEF Batch, Threads, Source
<1>3. CASE EndBatch(w)
  <2> DEFINE T == [d \in Docs |-> NoTask]
  <2>1. T \in [Docs -> Task] /\ \A d \in Docs : T[d].pc # "done"
    BY TaskForms DEF NoTask
  <2>2. WorkerTo(w, "loop") \/ rw' = [rw EXCEPT ![w] = [@ EXCEPT !.pc = "failing", !.task = T]]
    BY <1>3 DEF EndBatch
  <2> HIDE DEF T
  <2>3. [rw[w] EXCEPT !.pc = "failing", !.task = T] \in Worker
    BY <2>1, WorkerFields DEF WorkerStates
  <2>4. [rw[w] EXCEPT !.pc = "failing", !.task = T].task = T
    BY DEF Worker
  <2>5. Threads(rw')
    <3>1. CASE WorkerTo(w, "loop")
      BY <3>1, ThreadMoves DEF WorkerStates
    <3>2. CASE rw' = [rw EXCEPT ![w] = [@ EXCEPT !.pc = "failing", !.task = T]]
      BY <2>1, <2>3, <2>4, <3>2 DEF Threads
    <3>3. QED BY <2>2, <3>1, <3>2
  <2>6. QED BY <1>3, <2>5 DEF EndBatch, Threads, Source
<1>4. QED BY <1>1, <1>2, <1>3

LEMMA EndTyped ==
  ASSUME ReviewTyped, NEW w \in ReviewWorkers,
         \/ Interrupted(w) \/ BeginFinish(w) \/ FinishRun(w) \/ FinishRaises(w) \/ FailRun(w)
         \/ \E d \in Docs : BreakOff(w, d)
  PROVE  ReviewTyped'
<1> USE DEF ReviewTyped, ReviewTypeOK
<1>1. Threads(rw')
  <2>1. \/ \E pc \in {"finishing"} : WorkerTo(w, pc)
        \/ \E pc \in {"failing", "drain"}, why \in {"error", "cancelled"} : GiveUp(w, pc, why)
        \/ rw' = [rw EXCEPT ![w] = Rest(w)]
    BY DEF Interrupted, BeginFinish, FinishRun, FinishRaises, FailRun, BreakOff
  <2>2. QED BY <2>1, ThreadMoves DEF WorkerStates
<1>2. run' = run \/ \E s \in {"cancelled", "succeeded", "failed"} : run' = [run EXCEPT !.state = s]
  BY DEF Interrupted, BeginFinish, FinishRun, FinishRaises, FailRun, FailState, BreakOff
<1>3. run' \in Run
  BY <1>2 DEF Run
<1>4. UNCHANGED <<dec, led, page, access>>
  BY DEF Interrupted, BeginFinish, FinishRun, FinishRaises, FailRun, BreakOff
<1>5. QED BY <1>1, <1>3, <1>4 DEF Threads, Source

LEMMA ProcessTyped ==
  ASSUME ReviewTyped, StopRun \/ DownRun \/ RecoverRuns
  PROVE  ReviewTyped'
<1> USE DEF ReviewTyped, ReviewTypeOK
<1>1. /\ Dead \in Worker /\ Idle \in Worker
      /\ \A d \in Docs : Dead.task[d].pc = "none" /\ Idle.task[d].pc = "none"
  BY WorkerForms DEF Dead, Idle, NoTask
<1>2. Threads(rw')
  <2>1. CASE StopRun
    <3>1. ASSUME NEW w \in ReviewWorkers
          PROVE  rw'[w] \in Worker /\ rw'[w].task = rw[w].task
      <4>1. rw[w] \in Worker
        OBVIOUS
      <4>2. rw'[w] = [rw[w] EXCEPT !.stop = @ \/ rw[w].pc # "dead"]
        BY <2>1 DEF StopRun
      <4>3. \A b \in BOOLEAN : /\ [rw[w] EXCEPT !.stop = b] \in Worker
                               /\ [rw[w] EXCEPT !.stop = b].task = rw[w].task
        BY <4>1 DEF Worker
      <4>4. (rw[w].stop \/ rw[w].pc # "dead") \in BOOLEAN
        OBVIOUS
      <4>5. QED BY <4>2, <4>3, <4>4
    <3>2. DOMAIN rw' = ReviewWorkers /\ rw' = [w \in ReviewWorkers |-> rw'[w]]
      BY <2>1 DEF StopRun
    <3>3. QED BY <3>1, <3>2 DEF Threads
  <2>2. CASE DownRun
    <3>1. ASSUME NEW w \in ReviewWorkers
          PROVE  rw'[w] \in Worker /\ (rw'[w].task = rw[w].task \/ rw'[w] = Dead)
      <4>1. rw[w] \in Worker
        OBVIOUS
      <4>2. /\ [rw[w] EXCEPT !.old = TRUE] \in Worker
            /\ [rw[w] EXCEPT !.old = TRUE].task = rw[w].task
        BY <4>1 DEF Worker
      <4>3. rw'[w] = [rw[w] EXCEPT !.old = TRUE] \/ rw'[w] = Dead
        BY <2>2 DEF DownRun
      <4>4. QED BY <1>1, <4>2, <4>3
    <3>2. rw' = [w \in ReviewWorkers |-> rw'[w]]
      BY <2>2 DEF DownRun
    <3>3. QED BY <1>1, <3>1, <3>2 DEF Threads
  <2>3. CASE RecoverRuns
    BY <1>1, <2>3 DEF RecoverRuns, Threads
  <2>4. QED BY <2>1, <2>2, <2>3
<1>3. run' \in Run
  <2>1. CASE RecoverRuns
    <3>1. Recovered(run) \in Run
      <4>1. \A s \in {"cancelled", "queued"} : [run EXCEPT !.state = s] \in Run
        BY DEF Run
      <4>2. [run EXCEPT !.state = "failed", !.limit = TRUE] \in Run
        BY DEF Run
      <4>3. ASSUME MayCharge(run) PROVE [Charged(run) EXCEPT !.state = "queued"] \in Run
        <5>1. CASE run.mode = "full_text"
          <6>1. run.controls < MaxControls
            BY <4>3, <5>1 DEF MayCharge
          <6>2. Charged(run) = [run EXCEPT !.controls = @ + 1]
            BY <5>1 DEF Charged
          <6>3. Charged(run) \in Run
            BY <6>1, <6>2, RunFields
          <6>4. QED BY <6>3, RunFields
        <5>2. CASE run.mode # "full_text"
          BY <5>2 DEF Charged, Run
        <5>3. QED BY <5>1, <5>2
      <4>4. QED BY <4>1, <4>2, <4>3 DEF Recovered
    <3>2. QED BY <2>1, <3>1 DEF RecoverRuns
  <2>2. QED BY <2>1 DEF StopRun, DownRun
<1>4. UNCHANGED <<dec, led, page, access>>
  BY DEF StopRun, DownRun, RecoverRuns
<1>5. QED BY <1>2, <1>3, <1>4 DEF Threads, Source

LEMMA ReviewStepTyped ==
  ASSUME IntakeTypeOK, ReviewTyped, ReviewStep
  PROVE  ReviewTyped'
<1>1. ASSUME NEW w \in ReviewWorkers, NEW d \in Docs, Review(w, d) PROVE ReviewTyped'
  <2>1. CASE Record(w, d)
    BY <2>1, RecordTyped
  <2>2. CASE BreakOff(w, d)
    BY <2>2, EndTyped
  <2>3. CASE ~Record(w, d) /\ ~BreakOff(w, d)
    BY <1>1, <2>3, PoolStep, PoolTyped DEF Review
  <2>4. QED BY <2>1, <2>2, <2>3
<1>2. ASSUME NEW w \in ReviewWorkers, Coordinate(w) PROVE ReviewTyped'
  BY <1>2, BatchTyped, EndTyped DEF Coordinate
<1>3. QED BY <1>1, <1>2, RequestTyped, CheckTyped DEF ReviewStep, InPool, Population

\* What the review does to the rest: it spends, and takes and frees the guard.
LEMMA ReviewLeaves ==
  ASSUME IntakeTypeOK, ReviewStep
  PROVE  /\ UNCHANGED <<boot, doc, job, copies, iw>>
         /\ guard' \in {guard, None} \cup ReviewWorkers
         /\ guard' = guard \/ guard \in {None} \cup ReviewWorkers
         /\ left' \in [Events -> Nat]
<1>1. ASSUME NEW e \in Events, Spend(e) PROVE left' \in [Events -> Nat]
  BY <1>1 DEF Spend, IntakeTypeOK
<1>2. CASE Request
  <2>1. UNCHANGED <<boot, doc, job, copies, iw, guard>>
    BY <1>2 DEF Request, QueueRun, CancelRun, RetryRun, DeleteRun, ChangeAccess, OpenPage,
       Adjudicate, sourceVars, intakeVars
  <2>2. left' = left \/ \E e \in Events : Spend(e)
    BY <1>2, ReviewAssumption DEF Request, QueueRun, CancelRun, RetryRun, DeleteRun,
       ChangeAccess, OpenPage, Adjudicate, intakeVars
  <2>3. QED BY <1>1, <2>1, <2>2 DEF IntakeTypeOK
<1>3. ASSUME NEW w \in ReviewWorkers, Coordinate(w)
      PROVE  /\ UNCHANGED <<boot, doc, job, copies, iw, left>>
             /\ guard' \in {guard, None} \cup ReviewWorkers
             /\ guard' = guard \/ guard \in {None} \cup ReviewWorkers
  BY <1>3 DEF Coordinate, ClaimRun, Batch, EndBatch, Interrupted, BeginFinish, FinishRun,
     FinishRaises, FailRun, TakeGuard, FreeGuard, intakeVars
<1>4. ASSUME NEW w \in ReviewWorkers, NEW d \in Docs, Review(w, d) \/ CheckSource(w, d)
      PROVE  UNCHANGED intakeVars
  BY <1>4 DEF Review, Raise, RefuseWrite, BeginStale, Begin, Classify, Inventory, Scan,
     ReadRange, CloseSource, Record, BreakOff, CheckSource
<1>5. QED BY <1>2, <1>3, <1>4 DEF ReviewStep, InPool, Population, IntakeTypeOK, intakeVars
=============================================================================
