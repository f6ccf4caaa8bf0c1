--------------------------- MODULE MatterWorkProofs ---------------------------
(***************************************************************************)
(* Theorems of MatterWork, for any requests, conversations, reviewers,     *)
(* threads and bounds.  Every step moves each row in one of a few ways     *)
(* (Move); what holds of single rows, the action properties and the        *)
(* refinement follow from the moves and no longer look at the actions.     *)
(***************************************************************************)
EXTENDS MatterWork, FiniteSetTheorems, TLAPS

\* Program counters of a thread that is at work on a job.
Holding == {"claimed", "opened", "working", "produced", "finishing", "failing"}

\* A row that was never used or was erased is blank, a queued one is not to be
\* cancelled, and only one that succeeded has a result, its own.
RowInv(j, r, P) ==
    /\ r.state = "none" => r = BlankRow
    /\ r.state = "deleted" => r = DeletedRow
    /\ r.state = "queued" => ~r.cancel
    /\ IF r.state = "succeeded" THEN \E a \in 1..MaxAttempts : P = {a} ELSE P = {}
    /\ j \in Fenced => P \subseteq {r.attempts}
    /\ KindOf[j] = "synthesis" => r.conv = None

RowsInv == \A j \in Jobs : RowInv(j, job[j], posted[j])

\* The pool of j has recovered its rows and started.
Served(j) == boot \in IF j \in Answers THEN {"research", "up"} ELSE {"up"}

\* The bound on attempts leaves a claim for every queued row, for every crash to
\* come and for the recovery that is due.
BudgetInv ==
    \A j \in Jobs :
      LET need == job[j].attempts + (MaxCrashes - faults.crashes)
      IN  /\ job[j].state = "queued" => need < MaxAttempts
          /\ job[j].state = "running" => need <= MaxAttempts
          /\ job[j].state = "running" /\ ~Served(j) => need < MaxAttempts

ConvInv == OneJobPerConversation /\ JobsHaveConversation

WorkerInv ==
    \A w \in Workers : wk[w].pc \in Holding =>
      LET j == wk[w].job
      IN  /\ j \in IF w \in AnswerWorkers THEN Answers ELSE Research
          /\ wk[w].attempt >= 1
          /\ job[j].state # "none"
          /\ job[j].state # "deleted" => wk[w].attempt <= job[j].attempts

OpenInv ==
    \A w \in Workers :
      LET j == wk[w].job
      IN  /\ wk[w].pc \in {"working", "produced", "finishing"} /\ j \in Answers
          /\ job[j].state = "running" /\ job[j].attempts = wk[w].attempt
          /\ job[j].conv # None
          => conv[job[j].conv] = "active"

OwnInv ==
    Delayed \cap AnswerWorkers = {} =>
      \A w \in AnswerWorkers :
        /\ boot \in {"down", "answers"} => wk[w].pc = "dead"
        /\ wk[w].pc \in Holding =>
             /\ job[wk[w].job].state = "running"
             /\ job[wk[w].job].attempts = wk[w].attempt
             /\ \A v \in AnswerWorkers \ {w} : wk[v].pc \in Holding => wk[v].job # wk[w].job

PurgeInv ==
    /\ purger # "none" => matter.state = "purging" /\ boot = "up"
    /\ purger = "close" => matter.files = "gone"
    /\ PurgeIsQuiet

IInv == /\ TypeOK /\ RowsInv /\ BudgetInv /\ ConvInv
        /\ WorkerInv /\ OpenInv /\ OwnInv /\ PurgeInv

-----------------------------------------------------------------------------
(* How a step may move the row a of job j, with results P, to b, with Q.   *)

Asked(j, a, b) == /\ a.state = "none" /\ b.state = "queued" /\ ~b.cancel /\ b.attempts = 0
                  /\ KindOf[j] = "synthesis" => b.conv = None
Stopped(a, b)  == /\ a.state \in Active
                  /\ b = [a EXCEPT !.cancel = TRUE,
                                   !.state  = IF @ = "queued" THEN "cancelled" ELSE @]
Reopened(a, b) == /\ a.state \in {"failed", "cancelled"}
                  /\ b = [a EXCEPT !.state = "queued", !.cancel = FALSE]
Claimed(a, b)  == /\ a.state = "queued"
                  /\ b = [a EXCEPT !.state = "running", !.cancel = FALSE, !.attempts = @ + 1]
Ended(a, b)    == /\ a.state = "running"
                  /\ \/ b = [a EXCEPT !.state = "cancelled"]
                     \/ ~a.cancel /\ b = [a EXCEPT !.state = "failed"]
Requeued(a, b) == a.state = "running" /\ ~a.cancel /\ b = [a EXCEPT !.state = "queued"]
Saved(a, b)    == a.state = "running" /\ ~a.cancel /\ b = [a EXCEPT !.state = "succeeded"]
Erased(a, b)   == a.state \in Finished /\ b = DeletedRow

\* A conversation that a job may belong to.
Standing(c) == conv[c] \in {"active", "archived"}
Stands(c)   == conv'[c] \in {"active", "archived"}   \* and after the step

\* No work is under way in conversation c, and the matter is open.
Free(c) == (c # None => ~Busy(c)) /\ matter.state = "active"

\* A thread is done with job j.
Released(j) == \E w \in Workers : wk[w].pc \in Holding /\ wk[w].job = j /\ wk'[w] = Idle

Move(j, a, b, P, Q) ==
    \/ /\ Q = P
       /\ \/ b = a
          \/ Asked(j, a, b) /\ Free(b.conv) /\ (b.conv # None => Stands(b.conv))
          \/ Stopped(a, b)
          \/ /\ Reopened(a, b) /\ Free(a.conv)
             /\ a.attempts + (MaxCrashes - faults.crashes) < MaxAttempts
          \/ Claimed(a, b) /\ Served(j)
          \/ Ended(a, b) /\ (Released(j) \/ ~Served(j))
          \/ Requeued(a, b) /\ ~Served(j)
    \/ /\ Saved(a, b) /\ Released(j)
       /\ \E t \in 1..MaxAttempts : Q = P \cup {t} /\ (j \in Fenced => t = a.attempts)
    \/ Erased(a, b) /\ Q = {}

Enters(j) == job[j].state \notin Active /\ job'[j].state \in Active

\* Rows move, and one at most enters the queue.
RowsMove ==
    /\ \A j \in Jobs : Move(j, job[j], job'[j], posted[j], posted'[j])
    /\ \A j, k \in Jobs : Enters(j) /\ Enters(k) => j = k

\* A conversation that is gone has taken its jobs along; an active one is left
\* alone while work is under way in it.
ConvsMove ==
    \A c \in Convs :
      /\ Standing(c) => Stands(c) \/ \A j \in Jobs : job'[j].conv # c
      /\ conv[c] = "active" => conv'[c] = "active" \/ ~Busy(c)

\* Program counters of a thread that has looked at its conversation.
Inside == {"working", "produced", "finishing"}

\* A thread at work claimed its job in this step or goes on with it; one whose pool
\* is not started, and which cannot outlive its process, stays dead.
ThreadsMove ==
    \A w \in Workers :
      /\ wk'[w].pc \in Holding =>
           \/ \E j \in Jobs : Claim(w, j)
           \/ /\ wk[w].pc \in Holding
              /\ wk'[w].job = wk[w].job /\ wk'[w].attempt = wk[w].attempt
              /\ wk'[w].pc \in Inside =>
                   \/ wk[w].pc \in Inside
                   \/ wk[w].job \in Answers => InOpenConversation(wk[w].job)
      /\ /\ w \in AnswerWorkers \ Delayed /\ boot' \in {"down", "answers"}
         /\ boot \in {"down", "answers"} => wk[w].pc = "dead"
         => wk'[w].pc = "dead"

-----------------------------------------------------------------------------
(* Types                                                                   *)

LEMMA KindFacts == /\ Answers \subseteq Jobs /\ Fenced \subseteq Jobs
                   /\ Research = Jobs \ Answers
                   /\ \A j \in Jobs : KindOf[j] = "synthesis" => j \in Research /\ j \in Fenced
                   /\ \A j \in Jobs : KindOf[j] = "research" => j \in Research
                   /\ None \notin Convs /\ None \notin Jobs
BY RequestAssumption, NoneAssumption DEF Answers, Fenced, Research, Kinds

\* A row stays a row when its fields are replaced one by one.
LEMMA RowFields ==
  ASSUME NEW r \in Row
  PROVE  /\ \A s \in Active \cup Finished : [r EXCEPT !.state = s] \in Row
         /\ \A c \in BOOLEAN : [r EXCEPT !.cancel = c] \in Row
         /\ \A n \in 0..MaxAttempts : [r EXCEPT !.attempts = n] \in Row
         /\ \A n \in 0..MaxAttempts :
              [r EXCEPT !.state = "running", !.cancel = FALSE, !.attempts = n] \in Row
BY DEF Row, Active

LEMMA BlankRows == BlankRow \in Row /\ DeletedRow \in Row
<1>1. 0 \in 0..MaxAttempts
  BY BoundAssumption
<1>2. QED BY <1>1 DEF BlankRow, DeletedRow, Row

LEMMA BlankMemory == Idle \in Memory /\ Dead \in Memory
<1>1. 0 \in 0..MaxAttempts
  BY BoundAssumption
<1>2. QED BY <1>1 DEF Idle, Dead, Memory

\* A step of a worker thread that only moves its program counter.
Advance(w) ==
    /\ wk[w].pc \in Holding
    /\ \E m \in Memory :
         /\ wk' = [wk EXCEPT ![w] = m]
         /\ m.pc \in Holding /\ m.job = wk[w].job /\ m.attempt = wk[w].attempt
         /\ m.pc = "working" /\ m.job \in Answers => InOpenConversation(m.job)
         /\ m.pc \in {"produced", "finishing"} => wk[w].pc \in {"working", "produced", "finishing"}
    /\ UNCHANGED <<conv, job, posted, member, matter, purger, boot, faults>>

LEMMA AdvanceStep ==
  ASSUME TypeOK, NEW w \in Workers,
         Probe(w) \/ Open(w) \/ Generate(w) \/ Recheck(w) \/ SaveRefused(w)
  PROVE  Advance(w)
<1>1. /\ wk \in [Workers -> Memory] /\ wk[w] \in Memory
  BY DEF TypeOK
<1>2. ASSUME NEW why, why \in {"error", "cancelled"}, wk[w].pc \in Holding,
             wk' = [wk EXCEPT ![w].pc = "failing", ![w].why = why],
             UNCHANGED <<conv, job, posted, member, matter, purger, boot, faults>>
      PROVE  Advance(w)
  <2> DEFINE m == [wk[w] EXCEPT !.pc = "failing", !.why = why]
  <2>1. /\ m \in Memory /\ m.pc = "failing" /\ m.job = wk[w].job
        /\ m.attempt = wk[w].attempt
    BY <1>1, <1>2 DEF Memory
  <2>2. wk' = [wk EXCEPT ![w] = m]
    BY <1>1, <1>2
  <2> HIDE DEF m
  <2>3. QED BY <1>2, <2>1, <2>2 DEF Advance, Holding
<1>3. ASSUME NEW pc, pc \in {"opened", "working", "produced", "finishing"},
             wk[w].pc \in Holding, wk' = [wk EXCEPT ![w].pc = pc],
             pc = "working" /\ wk[w].job \in Answers => InOpenConversation(wk[w].job),
             pc \in {"produced", "finishing"} => wk[w].pc \in {"working", "produced", "finishing"},
             UNCHANGED <<conv, job, posted, member, matter, purger, boot, faults>>
      PROVE  Advance(w)
  <2> DEFINE m == [wk[w] EXCEPT !.pc = pc]
  <2>1. m \in Memory /\ m.pc = pc /\ m.job = wk[w].job /\ m.attempt = wk[w].attempt
    BY <1>1, <1>3 DEF Memory
  <2>2. wk' = [wk EXCEPT ![w] = m]
    BY <1>1, <1>3
  <2> HIDE DEF m
  <2>3. QED BY <1>3, <2>1, <2>2 DEF Advance, Holding
<1>4. CASE Probe(w)
  BY <1>2, <1>3, <1>4 DEF Probe, Proceed, Holding
<1>5. CASE Open(w)
  <2>1. /\ wk[w].pc = "opened"
        /\ UNCHANGED <<conv, job, posted, member, matter, purger, boot, faults>>
        /\ \/ /\ wk' = [wk EXCEPT ![w].pc = "working"]
              /\ CASE KindOf[wk[w].job] = "synthesis" -> Holds(w)
                   [] KindOf[wk[w].job] = "research"  -> Access(ActorOf[wk[w].job])
                   [] OTHER -> Access(ActorOf[wk[w].job]) /\ InOpenConversation(wk[w].job)
           \/ \E why \in {"error", "cancelled"} :
                wk' = [wk EXCEPT ![w].pc = "failing", ![w].why = why]
    BY <1>5 DEF Open, Proceed
  <2>2. wk[w].job \in Answers => /\ KindOf[wk[w].job] # "synthesis"
                                 /\ KindOf[wk[w].job] # "research"
    BY KindFacts
  <2>3. QED BY <1>2, <1>3, <2>1, <2>2 DEF Holding
<1>6. CASE Generate(w)
  BY <1>2, <1>3, <1>6 DEF Generate, Proceed, Holding
<1>7. CASE Recheck(w)
  BY <1>2, <1>3, <1>7 DEF Recheck, Proceed, Holding
<1>8. CASE SaveRefused(w)
  BY <1>2, <1>8 DEF SaveRefused, Proceed, Holding
<1>9. QED BY <1>4, <1>5, <1>6, <1>7, <1>8

-----------------------------------------------------------------------------
(* Every step keeps the types and moves the rows                           *)

LEMMA RowsKept ==
  ASSUME TypeOK, job' = job, posted' = posted
  PROVE  job' \in [Jobs -> Row] /\ posted' \in [Jobs -> SUBSET (1..MaxAttempts)] /\ RowsMove
BY DEF TypeOK, RowsMove, Move, Enters

LEMMA ConvsKept == ASSUME conv' = conv PROVE ConvsMove
BY DEF ConvsMove, Standing, Stands

LEMMA OneRow ==
  ASSUME TypeOK, NEW j \in Jobs, NEW b \in Row, job' = [job EXCEPT ![j] = b],
         posted' = posted, Move(j, job[j], b, posted[j], posted[j])
  PROVE  job' \in [Jobs -> Row] /\ posted' \in [Jobs -> SUBSET (1..MaxAttempts)] /\ RowsMove
<1>1. job' \in [Jobs -> Row] /\ posted' \in [Jobs -> SUBSET (1..MaxAttempts)]
  BY DEF TypeOK
<1>2. ASSUME NEW k \in Jobs PROVE Move(k, job[k], job'[k], posted[k], posted'[k])
  <2>1. CASE k = j
    BY <2>1 DEF TypeOK
  <2>2. CASE k # j
    BY <2>2 DEF TypeOK, Move
  <2>3. QED BY <2>1, <2>2
<1>3. \A k \in Jobs : Enters(k) => k = j
  BY DEF Enters, TypeOK
<1>4. QED BY <1>1, <1>2, <1>3 DEF RowsMove

\* What is asked for is a row in the queue.
LEMMA AdmitStep ==
  ASSUME TypeOK, NEW j \in Jobs, job[j].state = "none",
         NEW r \in Row, r.attempts = 0, ~r.cancel, KindOf[j] = "synthesis" => r.conv = None,
         Free(r.conv), r.conv # None => Stands(r.conv),
         Admit(j, r), posted' = posted
  PROVE  job' \in [Jobs -> Row] /\ posted' \in [Jobs -> SUBSET (1..MaxAttempts)] /\ RowsMove
<1> DEFINE b == [r EXCEPT !.state = "queued"]
<1>1. /\ b \in Row /\ b.state = "queued" /\ ~b.cancel /\ b.attempts = 0 /\ b.conv = r.conv
  BY DEF Row, Active
<1>2. job' = [job EXCEPT ![j] = b]
  BY DEF Admit
<1> HIDE DEF b
<1>3. Move(j, job[j], b, posted[j], posted[j])
  BY <1>1 DEF Move, Asked
<1>4. QED BY <1>1, <1>2, <1>3, OneRow

LEMMA BlankRequests ==
  /\ BlankRow.attempts = 0 /\ ~BlankRow.cancel /\ BlankRow.conv = None
  /\ \A c \in Convs \cup {None} :
       LET r == [BlankRow EXCEPT !.conv = c]
       IN  r \in Row /\ r.attempts = 0 /\ ~r.cancel /\ r.conv = c
  /\ \A c \in Convs \cup {None}, j \in Jobs :
       LET r == [BlankRow EXCEPT !.conv = c, !.from = j]
       IN  r \in Row /\ r.attempts = 0 /\ ~r.cancel /\ r.conv = c
BY BlankRows DEF BlankRow, Row

LEMMA RequestStep ==
  ASSUME TypeOK, RowsInv, ConvInv, PurgeInv, Request
  PROVE  job' \in [Jobs -> Row] /\ posted' \in [Jobs -> SUBSET (1..MaxAttempts)] /\ RowsMove
<1>1. ASSUME NEW j \in Jobs, NEW c \in Convs, Ask(j, c) \/ AskInDraft(j, c)
      PROVE  job' \in [Jobs -> Row] /\ posted' \in [Jobs -> SUBSET (1..MaxAttempts)] /\ RowsMove
  <2> DEFINE r == [BlankRow EXCEPT !.conv = c]
  <2>1. r \in Row /\ r.attempts = 0 /\ ~r.cancel /\ r.conv = c /\ Admit(j, r)
    BY <1>1, BlankRequests DEF Ask, AskInDraft
  <2>2. job[j].state = "none" /\ KindOf[j] # "synthesis" /\ posted' = posted
    BY <1>1 DEF Ask, AskInDraft, Answers
  <2>3. matter.state = "active" /\ ~Busy(c)
    BY <1>1, KindFacts DEF Ask, AskInDraft, Access, ConvInv, JobsHaveConversation, Busy
  <2>4. Stands(c)
    BY <1>1 DEF Ask, AskInDraft, TypeOK, Stands, Standing
  <2> HIDE DEF r
  <2>5. Free(r.conv) /\ (r.conv # None => Stands(r.conv))
    BY <2>1, <2>3, <2>4 DEF Free
  <2>6. QED BY <2>1, <2>2, <2>5, AdmitStep
<1>2. ASSUME NEW j \in Jobs, AskSynthesis(j)
      PROVE  job' \in [Jobs -> Row] /\ posted' \in [Jobs -> SUBSET (1..MaxAttempts)] /\ RowsMove
  <2>1. Admit(j, BlankRow)
    BY <1>2 DEF AskSynthesis
  <2>2. job[j].state = "none" /\ posted' = posted /\ Free(None)
    BY <1>2 DEF AskSynthesis, Access, Free
  <2>3. QED BY <2>1, <2>2, BlankRows, BlankRequests, AdmitStep
<1>3. ASSUME NEW j \in Jobs, NEW k \in Jobs, Continue(j, k)
      PROVE  job' \in [Jobs -> Row] /\ posted' \in [Jobs -> SUBSET (1..MaxAttempts)] /\ RowsMove
  <2> DEFINE r == [BlankRow EXCEPT !.conv = job[j].conv, !.from = j]
  <2>1. Admit(k, r)
    BY <1>3 DEF Continue
  <2>2. /\ job[k].state = "none" /\ posted' = posted /\ KindOf[k] # "synthesis"
        /\ job[j].conv \in Convs \cup {None}
    BY <1>3 DEF Continue, TypeOK, Row
  <2>3. r \in Row /\ r.attempts = 0 /\ ~r.cancel /\ r.conv = job[j].conv
    BY <2>2, BlankRequests
  <2>4. Free(job[j].conv)
    BY <1>3 DEF Continue, Access, Retryable, Free
  <2>5. job[j].conv # None => Standing(job[j].conv) /\ conv' = conv
    BY <1>3 DEF Continue, ConvInv, JobsHaveConversation, Standing
  <2> HIDE DEF r
  <2>6. Free(r.conv) /\ (r.conv # None => Stands(r.conv))
    BY <2>3, <2>4, <2>5 DEF Standing, Stands
  <2>7. QED BY <2>1, <2>2, <2>3, <2>6, AdmitStep
<1>4. ASSUME NEW j \in Jobs, Cancel(j)
      PROVE  job' \in [Jobs -> Row] /\ posted' \in [Jobs -> SUBSET (1..MaxAttempts)] /\ RowsMove
  <2> DEFINE b == [job[j] EXCEPT !.cancel = TRUE,
                                 !.state  = IF @ = "queued" THEN "cancelled" ELSE @]
  <2>1. job[j] \in Row /\ job[j].state \in Active /\ posted' = posted
    BY <1>4 DEF Cancel, Working, TypeOK
  <2>2. b \in Row
    BY <2>1 DEF Row, Active, Finished
  <2>3. job' = [job EXCEPT ![j] = b]
    BY <1>4 DEF Cancel, TypeOK
  <2>4. Move(j, job[j], b, posted[j], posted[j])
    BY <2>1 DEF Move, Stopped
  <2> HIDE DEF b
  <2>5. QED BY <2>1, <2>2, <2>3, <2>4, OneRow
<1>5. ASSUME NEW j \in Jobs, Retry(j)
      PROVE  job' \in [Jobs -> Row] /\ posted' \in [Jobs -> SUBSET (1..MaxAttempts)] /\ RowsMove
  <2> DEFINE b == [job[j] EXCEPT !.state = "queued", !.cancel = FALSE]
  <2>1. job[j] \in Row /\ job[j].state \in {"failed", "cancelled"} /\ posted' = posted
    BY <1>5 DEF Retry, TypeOK
  <2>2. b \in Row
    BY <2>1 DEF Row, Active
  <2>3. job' = [job EXCEPT ![j] = b]
    BY <1>5 DEF Retry, TypeOK
  <2>4. /\ Free(job[j].conv)
        /\ job[j].attempts + (MaxCrashes - faults.crashes) < MaxAttempts
    <3>1. job[j].attempts + MaxCrashes - faults.crashes < MaxAttempts
      BY <1>5 DEF Retry
    <3>2. job[j].attempts \in Int /\ faults.crashes \in Int /\ MaxCrashes \in Int
      BY <2>1, BoundAssumption DEF Row, TypeOK
    <3>3. Free(job[j].conv)
      BY <1>5 DEF Retry, Access, Retryable, Free
    <3>4. QED BY <3>1, <3>2, <3>3
  <2>5. Move(j, job[j], b, posted[j], posted[j])
    BY <2>1, <2>4 DEF Move, Reopened
  <2> HIDE DEF b
  <2>6. QED BY <2>1, <2>2, <2>3, <2>5, OneRow
<1>6. ASSUME NEW c \in Convs, Delete(c)
      PROVE  job' \in [Jobs -> Row] /\ posted' \in [Jobs -> SUBSET (1..MaxAttempts)] /\ RowsMove
  <2>1. /\ job' = [j \in Jobs |-> IF Goes(j, c) THEN DeletedRow ELSE job[j]]
        /\ posted' = [j \in Jobs |-> IF Goes(j, c) THEN {} ELSE posted[j]]
    BY <1>6 DEF Delete
  <2>2. ASSUME NEW j \in Jobs PROVE Move(j, job[j], job'[j], posted[j], posted'[j])
    <3>1. CASE Goes(j, c)
      <4>1. job[j].conv # None /\ ~Working(j)
        BY <1>6, <3>1, KindFacts DEF Goes, Delete, Busy
      <4>2. job[j].state \in Finished
        BY <4>1 DEF RowsInv, RowInv, TypeOK, Row, Working, BlankRow, DeletedRow
      <4>3. QED BY <2>1, <3>1, <4>2 DEF Move, Erased
    <3>2. CASE ~Goes(j, c)
      BY <2>1, <3>2 DEF Move
    <3>3. QED BY <3>1, <3>2
  <2>3. job' \in [Jobs -> Row] /\ posted' \in [Jobs -> SUBSET (1..MaxAttempts)]
    BY <2>1, BlankRows DEF TypeOK
  <2>4. \A j \in Jobs : ~Enters(j)
    BY <2>1 DEF Enters, DeletedRow, BlankRow, Active
  <2>5. QED BY <2>2, <2>3, <2>4 DEF RowsMove
<1>7. ASSUME NEW c \in Convs, Create(c) \/ Archive(c) \/ Restore(c)
      PROVE  job' \in [Jobs -> Row] /\ posted' \in [Jobs -> SUBSET (1..MaxAttempts)] /\ RowsMove
  BY <1>7, RowsKept DEF Create, Archive, Restore
<1>8. ASSUME NEW p \in People, Revoke(p) \/ Grant(p)
      PROVE  job' \in [Jobs -> Row] /\ posted' \in [Jobs -> SUBSET (1..MaxAttempts)] /\ RowsMove
  BY <1>8, RowsKept DEF Revoke, Grant
<1>9. QED BY <1>1, <1>2, <1>3, <1>4, <1>5, <1>6, <1>7, <1>8 DEF Request

LEMMA ClaimRow ==
  ASSUME TypeOK, BudgetInv, NEW w \in Workers, NEW j \in Jobs, Claim(w, j)
  PROVE  /\ job[j].state = "queued" /\ job[j].attempts + 1 \in 1..MaxAttempts
         /\ j \in IF w \in AnswerWorkers THEN Answers ELSE Research
         /\ job' = [job EXCEPT ![j] = [job[j] EXCEPT !.state = "running", !.cancel = FALSE,
                                                     !.attempts = @ + 1]]
         /\ wk' = [wk EXCEPT ![w] = [pc |-> "claimed", job |-> j,
                                     attempt |-> job[j].attempts + 1, why |-> "error"]]
<1>1. /\ job[j].state = "queued" /\ j \in IF w \in AnswerWorkers THEN Answers ELSE Research
  BY DEF Claim, Claimable
<1>2. /\ job[j] \in Row /\ faults.crashes \in 0..MaxCrashes
  BY DEF TypeOK
<1>3. job[j].attempts + (MaxCrashes - faults.crashes) < MaxAttempts
  BY <1>1 DEF BudgetInv
<1>4. job[j].attempts + 1 \in 1..MaxAttempts
  <2>1. job[j].attempts \in 0..MaxAttempts
    BY <1>2 DEF Row
  <2>2. QED BY <1>2, <1>3, <2>1, BoundAssumption
<1>5. QED BY <1>1, <1>4 DEF Claim, TypeOK

LEMMA ClaimStep ==
  ASSUME TypeOK, BudgetInv, NEW w \in Workers, NEW j \in Jobs, Claim(w, j)
  PROVE  TypeOK' /\ RowsMove
<1> DEFINE b == [job[j] EXCEPT !.state = "running", !.cancel = FALSE, !.attempts = @ + 1]
<1>1. /\ job[j] \in Row /\ job[j].state = "queued" /\ job[j].attempts + 1 \in 1..MaxAttempts
      /\ job' = [job EXCEPT ![j] = b] /\ posted' = posted
  BY ClaimRow DEF TypeOK, Claim
<1>2. b \in Row
  <2>1. job[j].attempts + 1 \in 0..MaxAttempts
    BY <1>1, BoundAssumption
  <2>2. QED BY <1>1, <2>1, RowFields
<1>3. Move(j, job[j], b, posted[j], posted[j])
  <2>1. Served(j)
    BY ClaimRow, KindFacts DEF Claim, Served, Answers, Research
  <2>2. QED BY <1>1, <2>1 DEF Move, Claimed
<1> HIDE DEF b
<1>4. job' \in [Jobs -> Row] /\ posted' \in [Jobs -> SUBSET (1..MaxAttempts)] /\ RowsMove
  BY <1>1, <1>2, <1>3, OneRow
<1>5. wk' \in [Workers -> Memory]
  <2> DEFINE m == [pc |-> "claimed", job |-> j, attempt |-> job[j].attempts + 1, why |-> "error"]
  <2>1. m \in Memory
    BY <1>1, BoundAssumption DEF Memory
  <2>2. wk' = [wk EXCEPT ![w] = m]
    BY DEF Claim
  <2> HIDE DEF m
  <2>3. QED BY <2>1, <2>2 DEF TypeOK
<1>6. QED BY <1>4, <1>5 DEF TypeOK, Claim

LEMMA AtWork ==
  ASSUME TypeOK, WorkerInv, NEW w \in Workers, wk[w].pc \in Holding
  PROVE  /\ wk[w].job \in Jobs /\ wk[w].attempt \in 1..MaxAttempts
         /\ wk[w].job \in Answers <=> w \in AnswerWorkers
         /\ job[wk[w].job] \in Row
<1>1. wk[w] \in Memory /\ wk[w].attempt >= 1
      /\ wk[w].job \in IF w \in AnswerWorkers THEN Answers ELSE Research
  BY DEF TypeOK, WorkerInv
<1>2. wk[w].attempt \in 1..MaxAttempts
  BY <1>1, BoundAssumption DEF Memory
<1>3. QED BY <1>1, <1>2, KindFacts DEF TypeOK

LEMMA SaveStep ==
  ASSUME TypeOK, WorkerInv, NEW w \in Workers, Save(w)
  PROVE  TypeOK' /\ RowsMove
<1> DEFINE j == wk[w].job
           b == [job[j] EXCEPT !.state = "succeeded"]
<1>1. /\ j \in Jobs /\ wk[w].attempt \in 1..MaxAttempts /\ job[j] \in Row
      /\ job[j].state = "running" /\ ~job[j].cancel
      /\ job' = [job EXCEPT ![j] = b]
      /\ posted' = [posted EXCEPT ![j] = @ \cup {wk[w].attempt}]
  BY AtWork DEF Save, Savable, Holding, TypeOK
<1>2. b \in Row
  BY <1>1 DEF Row, Finished
<1>3. j \in Fenced => wk[w].attempt = job[j].attempts
  <2>1. CASE KindOf[j] = "context"
    BY <2>1 DEF Save, Superseded
  <2>2. CASE KindOf[j] = "synthesis"
    BY <2>2 DEF Save, Superseded, Holds
  <2>3. QED BY <2>1, <2>2 DEF Fenced
<1>4. Released(j)
  BY DEF Save, Released, Holding, TypeOK
<1>5. Move(j, job[j], b, posted[j], posted[j] \cup {wk[w].attempt})
  BY <1>1, <1>3, <1>4 DEF Move, Saved
<1> HIDE DEF j, b
<1>6. job' \in [Jobs -> Row] /\ posted' \in [Jobs -> SUBSET (1..MaxAttempts)]
  BY <1>1, <1>2 DEF TypeOK
<1>7. RowsMove
  <2>1. ASSUME NEW k \in Jobs PROVE Move(k, job[k], job'[k], posted[k], posted'[k])
    <3>1. CASE k = j
      BY <1>1, <1>5, <3>1 DEF TypeOK
    <3>2. CASE k # j
      BY <1>1, <3>2 DEF TypeOK, Move
    <3>3. QED BY <3>1, <3>2
  <2>2. \A k \in Jobs : ~Enters(k)
    BY <1>1, <1>2 DEF Enters, TypeOK, Active
  <2>3. QED BY <2>1, <2>2 DEF RowsMove
<1>8. QED BY <1>6, <1>7, BlankMemory DEF TypeOK, Save

LEMMA SaveNothingStep ==
  ASSUME TypeOK, WorkerInv, NEW w \in Workers, SaveNothing(w)
  PROVE  TypeOK' /\ RowsMove
<1> DEFINE j == wk[w].job
           b == [job[j] EXCEPT !.state = "cancelled"]
<1>1. j \in Jobs /\ job[j] \in Row /\ posted' = posted /\ Released(j)
  BY AtWork DEF SaveNothing, Holding, Released, TypeOK
<1>2. job' \in [Jobs -> Row] /\ posted' \in [Jobs -> SUBSET (1..MaxAttempts)] /\ RowsMove
  <2>1. CASE job' = job
    BY <1>1, <2>1, RowsKept
  <2>2. CASE /\ job[j].state = "running" /\ job[j].cancel
             /\ job' = [job EXCEPT ![j].state = "cancelled"]
    <3>1. b \in Row /\ Move(j, job[j], b, posted[j], posted[j])
      BY <1>1, <2>2 DEF Row, Finished, Move, Ended
    <3>2. job' = [job EXCEPT ![j] = b]
      BY <2>2 DEF TypeOK
    <3> HIDE DEF b, j
    <3>3. QED BY <1>1, <3>1, <3>2, OneRow
  <2>3. QED BY <2>1, <2>2 DEF SaveNothing
<1>3. QED BY <1>2, BlankMemory DEF TypeOK, SaveNothing

\* The row fail_* leaves behind.
LEMMA FailedMove ==
  ASSUME TypeOK, WorkerInv, NEW w \in Workers, wk[w].pc = "failing"
  PROVE  /\ FailedRow(w) \in Row
         /\ FailedRow(w) = job[wk[w].job] \/ Ended(job[wk[w].job], FailedRow(w))
<1> DEFINE j == wk[w].job
<1>1. j \in Jobs /\ job[j] \in Row
  BY AtWork DEF Holding
<1>2. \/ FailedRow(w) = job[j]
      \/ /\ job[j].state = "running"
         /\ \/ FailedRow(w) = [job[j] EXCEPT !.state = "cancelled"]
            \/ ~job[j].cancel /\ FailedRow(w) = [job[j] EXCEPT !.state = "failed"]
  BY DEF FailedRow
<1>3. QED BY <1>1, <1>2 DEF Row, Finished, Ended

LEMMA FailStep ==
  ASSUME TypeOK, WorkerInv, NEW w \in Workers, Fail(w)
  PROVE  TypeOK' /\ RowsMove
<1>1. /\ wk[w].pc = "failing" /\ wk[w].job \in Jobs /\ posted' = posted
      /\ job' = [job EXCEPT ![wk[w].job] = FailedRow(w)]
      /\ Released(wk[w].job)
  BY AtWork DEF Fail, Holding, Released, TypeOK
<1>2. /\ FailedRow(w) \in Row
      /\ Move(wk[w].job, job[wk[w].job], FailedRow(w), posted[wk[w].job], posted[wk[w].job])
  BY <1>1, FailedMove DEF Move
<1>3. job' \in [Jobs -> Row] /\ posted' \in [Jobs -> SUBSET (1..MaxAttempts)] /\ RowsMove
  BY <1>1, <1>2, OneRow
<1>4. QED BY <1>3, BlankMemory DEF TypeOK, Fail

LEMMA RecoveredMove ==
  ASSUME NEW r \in Row
  PROVE  /\ Recovered(r) \in Row
         /\ Recovered(r) = r \/ Ended(r, Recovered(r)) \/ Requeued(r, Recovered(r))
BY DEF Recovered, Row, Active, Finished, Ended, Requeued

LEMMA StartStep ==
  ASSUME TypeOK, StartAnswers \/ StartResearch
  PROVE  TypeOK' /\ RowsMove
<1>1. PICK R \in SUBSET Jobs, P \in SUBSET Workers :
         /\ \A j \in R : ~Served(j)
         /\ job' = [j \in Jobs |-> IF j \in R THEN Recovered(job[j]) ELSE job[j]]
         /\ wk' = [w \in Workers |-> IF w \in P /\ wk[w].pc = "dead" THEN Idle ELSE wk[w]]
         /\ UNCHANGED <<conv, posted, member, matter, purger, faults>>
         /\ boot' \in {"research", "up"}
  <2>1. CASE StartAnswers
    <3>1. \A j \in Answers : ~Served(j)
      BY <2>1 DEF StartAnswers, StartPool, Served
    <3>2. QED BY <2>1, <3>1, KindFacts DEF StartAnswers, StartPool, Workers
  <2>2. CASE StartResearch
    <3>1. \A j \in Research : ~Served(j)
      BY <2>2, KindFacts DEF StartResearch, StartPool, Served
    <3>2. QED BY <2>2, <3>1, KindFacts DEF StartResearch, StartPool, Workers
  <2>3. QED BY <2>1, <2>2
<1>2. ASSUME NEW j \in Jobs
      PROVE  /\ job'[j] \in Row /\ ~Enters(j)
             /\ Move(j, job[j], job'[j], posted[j], posted'[j])
  <2>1. CASE j \in R
    <3>1. /\ job'[j] = Recovered(job[j]) /\ job[j] \in Row
          /\ posted'[j] = posted[j] /\ ~Served(j)
      BY <1>1, <2>1 DEF TypeOK
    <3>2. ~Enters(j)
      BY <3>1 DEF Recovered, Enters, Active, Row
    <3>3. QED BY <3>1, <3>2, RecoveredMove DEF Move
  <2>2. CASE j \notin R
    BY <1>1, <2>2 DEF TypeOK, Move, Enters
  <2>3. QED BY <2>1, <2>2
<1>3. QED BY <1>1, <1>2, BlankMemory DEF TypeOK, RowsMove

LEMMA ClosePurgeStep ==
  ASSUME TypeOK, RowsInv, PurgeInv, ClosePurge
  PROVE  TypeOK' /\ RowsMove
<1>1. matter.state = "purging" /\ \A j \in Jobs : job[j].state \notin Active
  BY DEF ClosePurge, PurgeInv, PurgeIsQuiet
<1>2. ASSUME NEW j \in Jobs
      PROVE  job'[j] \in Row /\ Move(j, job[j], job'[j], posted[j], posted'[j])
  <2>1. /\ job'[j] = IF job[j].state = "none" THEN job[j] ELSE DeletedRow
        /\ posted'[j] = {} /\ job[j] \in Row
    BY DEF ClosePurge, TypeOK
  <2>2. job[j].state \in {"none", "deleted"} => posted[j] = {}
    BY DEF RowsInv, RowInv
  <2>3. job[j].state = "deleted" => job[j] = DeletedRow
    BY DEF RowsInv, RowInv
  <2>4. job[j].state \in Finished \cup {"none", "deleted"}
    BY <1>1, <2>1 DEF Row
  <2>5. QED BY <2>1, <2>2, <2>3, <2>4, BlankRows DEF Move, Erased
<1>3. RowsMove
  <2>1. \A j \in Jobs : ~Enters(j)
    BY DEF Enters, ClosePurge, DeletedRow, BlankRow, Active
  <2>2. QED BY <1>2, <2>1 DEF RowsMove
<1>4. job' \in [Jobs -> Row] /\ posted' \in [Jobs -> SUBSET (1..MaxAttempts)]
  BY <1>2 DEF ClosePurge
<1>5. /\ conv' \in [Convs -> {"none", "active", "archived", "deleted"}]
      /\ member' \subseteq People
      /\ matter' \in [state : {"active", "purging", "purge_failed", "deleted"},
                      files : {"present", "quarantined", "gone"}]
      /\ purger' = "none"
  BY DEF ClosePurge, TypeOK
<1>6. QED BY <1>3, <1>4, <1>5 DEF ClosePurge, TypeOK

LEMMA EnsureActiveConversations ==
  ASSUME NEW after \in [Convs -> {"none", "active", "archived", "deleted"}],
         NEW f \in EnsureActive(after)
  PROVE  /\ f \in [Convs -> {"none", "active", "archived", "deleted"}]
         /\ \A c \in Convs : f[c] = after[c] \/ (conv[c] = "none" /\ f[c] = "active")
BY DEF EnsureActive

LEMMA ThreadsKept == ASSUME wk' = wk, boot' = boot PROVE ThreadsMove
BY DEF ThreadsMove

LEMMA RequestTypes ==
  ASSUME TypeOK, RowsInv, ConvInv, PurgeInv, Request
  PROVE  TypeOK' /\ RowsMove /\ ConvsMove /\ ThreadsMove
<1>1. job' \in [Jobs -> Row] /\ posted' \in [Jobs -> SUBSET (1..MaxAttempts)] /\ RowsMove
  BY RequestStep
<1>2. conv' \in [Convs -> {"none", "active", "archived", "deleted"}] /\ ConvsMove
  <2>1. ASSUME NEW c \in Convs, NEW s \in {"archived", "deleted"}, ~Busy(c),
               conv' \in EnsureActive([conv EXCEPT ![c] = s]),
               s = "deleted" => \A j \in Jobs : job'[j].conv # c
        PROVE  conv' \in [Convs -> {"none", "active", "archived", "deleted"}] /\ ConvsMove
    <3>1. [conv EXCEPT ![c] = s] \in [Convs -> {"none", "active", "archived", "deleted"}]
      BY DEF TypeOK
    <3>2. \A d \in Convs : \/ conv'[d] = [conv EXCEPT ![c] = s][d]
                           \/ conv[d] = "none" /\ conv'[d] = "active"
      BY <2>1, <3>1, EnsureActiveConversations
    <3>3. \A d \in Convs \ {c} : conv'[d] = conv[d] \/ (conv[d] = "none" /\ conv'[d] = "active")
      BY <3>2 DEF TypeOK
    <3>4. conv'[c] = s \/ conv'[c] = "active"
      BY <3>2 DEF TypeOK
    <3>5. ConvsMove
      BY <2>1, <3>3, <3>4 DEF ConvsMove, Standing, Stands
    <3>6. QED BY <2>1, <3>1, <3>5, EnsureActiveConversations
  <2>2. ASSUME NEW c \in Convs, Archive(c)
        PROVE  conv' \in [Convs -> {"none", "active", "archived", "deleted"}] /\ ConvsMove
    BY <2>1, <2>2 DEF Archive
  <2>3. ASSUME NEW c \in Convs, Delete(c)
        PROVE  conv' \in [Convs -> {"none", "active", "archived", "deleted"}] /\ ConvsMove
    <3>1. \A j \in Jobs : job'[j].conv # c
      BY <2>3, KindFacts DEF Delete, Goes, DeletedRow, BlankRow
    <3>2. QED BY <2>1, <2>3, <3>1 DEF Delete
  <2>4. ASSUME NEW c \in Convs, Create(c) \/ Restore(c) \/ \E j \in Jobs : AskInDraft(j, c)
        PROVE  conv' \in [Convs -> {"none", "active", "archived", "deleted"}] /\ ConvsMove
    BY <2>4 DEF Create, Restore, AskInDraft, TypeOK, ConvsMove, Standing, Stands
  <2>5. CASE conv' = conv
    BY <2>5, ConvsKept DEF TypeOK
  <2>6. QED BY <2>2, <2>3, <2>4, <2>5 DEF Request, Ask, AskSynthesis, Cancel, Retry, Continue,
                                          Revoke, Grant
<1>3. UNCHANGED <<matter, purger, wk, boot, faults>> /\ member' \subseteq People
  BY DEF Request, Ask, AskInDraft, AskSynthesis, Cancel, Retry, Continue, Create, Archive,
         Restore, Delete, Revoke, Grant, TypeOK
<1>4. QED BY <1>1, <1>2, <1>3, ThreadsKept DEF TypeOK

LEMMA QuietSteps ==
  ASSUME TypeOK
  PROVE  /\ \A w \in Workers : Advance(w) \/ LoseFailure(w) \/ ClaimRaises(w) => TypeOK' /\ RowsMove
         /\ BeginPurge \/ PurgeStep \/ FailPurge \/ LosePurge \/ Crash \/ RecoverPurges => TypeOK' /\ RowsMove
<1>1. ASSUME NEW w \in Workers, Advance(w) PROVE TypeOK' /\ RowsMove
  BY <1>1, RowsKept DEF Advance, TypeOK
<1>2. ASSUME NEW w \in Workers, LoseFailure(w) \/ ClaimRaises(w) PROVE TypeOK' /\ RowsMove
  <2>1. job' = job /\ posted' = posted /\ wk' \in [Workers -> Memory]
    BY <1>2, BlankMemory DEF LoseFailure, ClaimRaises, TypeOK
  <2>2. /\ faults' = [faults EXCEPT !.errors = @ + 1] /\ faults.errors < MaxErrors
        /\ faults \in [crashes : 0..MaxCrashes, errors : 0..MaxErrors]
    BY <1>2 DEF LoseFailure, ClaimRaises, TypeOK
  <2>3. faults' \in [crashes : 0..MaxCrashes, errors : 0..MaxErrors]
    BY <2>2, BoundAssumption
  <2>4. QED BY <1>2, <2>1, <2>3, RowsKept DEF LoseFailure, ClaimRaises, TypeOK
<1>3. ASSUME BeginPurge \/ PurgeStep \/ FailPurge \/ LosePurge PROVE TypeOK' /\ RowsMove
  BY <1>3, RowsKept DEF BeginPurge, PurgeStep, FailPurge, LosePurge, TypeOK
<1>4. ASSUME Crash PROVE TypeOK' /\ RowsMove
  <2>1. job' = job /\ posted' = posted /\ wk' \in [Workers -> Memory]
    BY <1>4, BlankMemory DEF Crash, TypeOK
  <2>2. /\ faults' = [faults EXCEPT !.crashes = @ + 1] /\ faults.crashes < MaxCrashes
        /\ faults \in [crashes : 0..MaxCrashes, errors : 0..MaxErrors]
    BY <1>4 DEF Crash, TypeOK
  <2>3. faults' \in [crashes : 0..MaxCrashes, errors : 0..MaxErrors]
    BY <2>2, BoundAssumption
  <2>4. QED BY <1>4, <2>1, <2>3, RowsKept DEF Crash, TypeOK
<1>5. ASSUME RecoverPurges PROVE TypeOK' /\ RowsMove
  BY <1>5, RowsKept DEF RecoverPurges, PurgeAfterRestart, TypeOK
<1>6. QED BY <1>1, <1>2, <1>3, <1>4, <1>5

\* The steps of the processes, by what they do.
WorkSteps ==
    \/ \E w \in Workers, j \in Jobs : Claim(w, j)
    \/ \E w \in Workers : Advance(w) \/ Save(w) \/ SaveNothing(w) \/ Fail(w)
                          \/ LoseFailure(w) \/ ClaimRaises(w)
    \/ BeginPurge \/ PurgeStep \/ ClosePurge \/ FailPurge \/ LosePurge
    \/ Crash \/ RecoverPurges \/ StartAnswers \/ StartResearch

LEMMA Steps == ASSUME TypeOK, Next PROVE Request \/ WorkSteps
BY AdvanceStep DEF Next, Claiming, Process, Purge, Start, WorkSteps


\* No worker step touches a conversation; only the closing purge does, when
\* nothing is under way.
LEMMA WorkConvs == ASSUME TypeOK, RowsInv, PurgeInv, WorkSteps PROVE ConvsMove
<1>1. CASE ClosePurge
  <2>1. \A j \in Jobs : job'[j].conv = None
    BY <1>1 DEF ClosePurge, RowsInv, RowInv, DeletedRow, BlankRow
  <2>2. \A c \in Convs : ~Busy(c)
    BY <1>1 DEF ClosePurge, PurgeInv, PurgeIsQuiet, Busy, Working
  <2>3. QED BY <2>1, <2>2, KindFacts DEF ConvsMove
<1>2. CASE ~ClosePurge
  <2>1. conv' = conv
    BY <1>2 DEF WorkSteps, Claim, Advance, Save, SaveNothing, Fail, LoseFailure, ClaimRaises,
                BeginPurge, PurgeStep, FailPurge, LosePurge, Crash, RecoverPurges, StartAnswers,
                StartResearch, StartPool
  <2>2. QED BY <2>1, ConvsKept
<1>3. QED BY <1>1, <1>2

LEMMA WorkThreads == ASSUME TypeOK, WorkSteps PROVE ThreadsMove
<1>0. wk \in [Workers -> Memory] /\ Idle.pc = "idle" /\ Dead.pc = "dead"
  BY DEF TypeOK, Idle, Dead
<1>1. ASSUME NEW v \in Workers, NEW j \in Jobs, Claim(v, j) PROVE ThreadsMove
  <2>1. /\ boot' = boot /\ boot \in {"research", "up"} /\ \A w \in Workers \ {v} : wk'[w] = wk[w]
    BY <1>0, <1>1 DEF Claim
  <2>2. QED BY <1>1, <2>1 DEF ThreadsMove
<1>2. ASSUME NEW v \in Workers, Advance(v) PROVE ThreadsMove
  <2>1. PICK m \in Memory :
           /\ wk' = [wk EXCEPT ![v] = m]
           /\ m.pc \in Holding /\ m.job = wk[v].job /\ m.attempt = wk[v].attempt
           /\ m.pc = "working" /\ m.job \in Answers => InOpenConversation(m.job)
           /\ m.pc \in {"produced", "finishing"} => wk[v].pc \in Inside
    BY <1>2 DEF Advance, Inside
  <2>2. /\ wk[v].pc \in Holding /\ boot' = boot
        /\ wk'[v] = m /\ \A w \in Workers \ {v} : wk'[w] = wk[w]
    BY <1>0, <1>2, <2>1 DEF Advance
  <2>3. wk[v].pc # "dead"
    BY <2>2 DEF Holding
  <2>4. QED BY <2>1, <2>2, <2>3 DEF ThreadsMove, Inside
<1>3. ASSUME NEW v \in Workers,
             Save(v) \/ SaveNothing(v) \/ Fail(v) \/ LoseFailure(v) \/ ClaimRaises(v)
      PROVE  ThreadsMove
  <2>1. /\ wk' = [wk EXCEPT ![v] = Idle] \/ wk' = [wk EXCEPT ![v] = Dead]
        /\ wk[v].pc # "dead" /\ boot' = boot
    BY <1>3 DEF Save, SaveNothing, Fail, LoseFailure, ClaimRaises
  <2>2. /\ wk'[v].pc \notin Holding /\ \A w \in Workers \ {v} : wk'[w] = wk[w]
    BY <1>0, <2>1 DEF Holding
  <2>3. QED BY <2>1, <2>2 DEF ThreadsMove
<1>4. CASE BeginPurge \/ PurgeStep \/ ClosePurge \/ FailPurge \/ LosePurge
  BY <1>4, ThreadsKept DEF BeginPurge, PurgeStep, ClosePurge, FailPurge, LosePurge
<1>5. CASE Crash
  BY <1>0, <1>5 DEF Crash, ThreadsMove, Holding
<1>6. CASE RecoverPurges
  BY <1>6 DEF RecoverPurges, ThreadsMove
<1>7. CASE StartAnswers \/ StartResearch
  <2>1. /\ boot' \in {"research", "up"}
        /\ \A w \in Workers : wk'[w] = wk[w] \/ wk'[w] = Idle
    BY <1>0, <1>7 DEF StartAnswers, StartResearch, StartPool
  <2>2. QED BY <1>0, <2>1 DEF ThreadsMove, Holding
<1>8. QED BY <1>1, <1>2, <1>3, <1>4, <1>5, <1>6, <1>7 DEF WorkSteps

LEMMA NextStep ==
  ASSUME IInv, Next
  PROVE  TypeOK' /\ RowsMove /\ ConvsMove /\ ThreadsMove
<1>1. CASE Request
  BY <1>1, RequestTypes DEF IInv
<1>2. CASE WorkSteps
  <2>1. TypeOK' /\ RowsMove
    BY <1>2, ClaimStep, SaveStep, SaveNothingStep, FailStep, QuietSteps, StartStep,
       ClosePurgeStep DEF IInv, WorkSteps
  <2>2. QED BY <1>2, <2>1, WorkConvs, WorkThreads DEF IInv
<1>3. QED BY <1>1, <1>2, Steps DEF IInv

\* Rows stay as they have to be, whichever way they move.
LEMMA RowMoves ==
  ASSUME NEW j \in Jobs, NEW a \in Row, NEW b, NEW P \in SUBSET (1..MaxAttempts), NEW Q,
         RowInv(j, a, P), Move(j, a, b, P, Q)
  PROVE  RowInv(j, b, Q)
<1>1. CASE Q = P /\ (b = a \/ Asked(j, a, b))
  BY <1>1 DEF RowInv, Asked
<1>2. CASE Q = P /\ (Stopped(a, b) \/ Reopened(a, b))
  BY <1>2 DEF RowInv, Stopped, Reopened, Active, Row
<1>3. CASE Q = P /\ (Ended(a, b) \/ Requeued(a, b) \/ Claimed(a, b))
  BY <1>3 DEF RowInv, Ended, Requeued, Claimed, Row
<1>4. CASE /\ Saved(a, b)
           /\ \E t \in 1..MaxAttempts : Q = P \cup {t} /\ (j \in Fenced => t = a.attempts)
  BY <1>4 DEF RowInv, Saved, Row
<1>5. CASE Erased(a, b) /\ Q = {}
  BY <1>5, KindFacts DEF RowInv, Erased, BlankRow, DeletedRow
<1>6. QED BY <1>1, <1>2, <1>3, <1>4, <1>5 DEF Move

LEMMA RowsStep == ASSUME TypeOK, RowsInv, RowsMove PROVE RowsInv'
<1>1. ASSUME NEW j \in Jobs PROVE RowInv(j, job'[j], posted'[j])
  BY RowMoves DEF TypeOK, RowsInv, RowsMove
<1>2. QED BY <1>1 DEF RowsInv

-----------------------------------------------------------------------------
(* The invariant                                                           *)

\* What happens to the bound and to the pools in one step.
LEMMA Boots ==
  ASSUME IInv, Next
  PROVE  /\ faults.crashes \in 0..MaxCrashes /\ faults'.crashes \in 0..MaxCrashes
         /\ faults'.crashes >= faults.crashes
         /\ \A j \in Jobs : Served(j) /\ ~Served(j)' =>
              faults'.crashes = faults.crashes + 1 /\ job' = job
<1>1. faults.crashes \in 0..MaxCrashes /\ faults'.crashes \in 0..MaxCrashes
  BY NextStep DEF IInv, TypeOK
<1>2. CASE Crash
  BY <1>1, <1>2 DEF Crash, IInv, TypeOK
<1>3. CASE Request
  <2>1. faults' = faults /\ boot' = boot
    BY <1>3 DEF Request, Ask, AskInDraft, AskSynthesis, Cancel, Retry, Continue, Create,
                Archive, Restore, Delete, Revoke, Grant
  <2>2. QED BY <1>1, <2>1 DEF Served
<1>4. CASE WorkSteps /\ ~Crash
  <2>1. /\ faults'.crashes = faults.crashes
        /\ \/ boot' = boot
           \/ boot = "down" /\ boot' = "answers"
           \/ boot = "answers" /\ boot' = "research"
           \/ boot = "research" /\ boot' = "up"
    BY <1>4 DEF WorkSteps, Claim, Advance, Save, SaveNothing, Fail, LoseFailure, ClaimRaises,
                BeginPurge, PurgeStep, ClosePurge, FailPurge, LosePurge, RecoverPurges, StartAnswers,
                StartResearch, StartPool, IInv, TypeOK
  <2>2. QED BY <1>1, <2>1 DEF Served
<1>5. QED BY <1>2, <1>3, <1>4, Steps DEF IInv

LEMMA BudgetStep == ASSUME IInv, Next PROVE BudgetInv'
<1>1. ASSUME NEW j \in Jobs
      PROVE  /\ job'[j].state = "queued" =>
                  job'[j].attempts + (MaxCrashes - faults'.crashes) < MaxAttempts
             /\ job'[j].state = "running" =>
                  job'[j].attempts + (MaxCrashes - faults'.crashes) <= MaxAttempts
             /\ job'[j].state = "running" /\ ~Served(j)' =>
                  job'[j].attempts + (MaxCrashes - faults'.crashes) < MaxAttempts
  <2> DEFINE a == job[j]
             b == job'[j]
             f == faults.crashes
             g == faults'.crashes
  <2>1. /\ a \in Row /\ b \in Row
        /\ a.attempts \in Int /\ b.attempts \in Int
        /\ f \in Int /\ g \in 0..MaxCrashes /\ g >= f /\ MaxCrashes \in 0..(MaxAttempts - 1)
        /\ MaxAttempts \in Nat
    BY NextStep, Boots, BoundAssumption DEF IInv, TypeOK, Row
  <2>2. /\ a.state = "queued" => a.attempts + (MaxCrashes - f) < MaxAttempts
        /\ a.state = "running" => a.attempts + (MaxCrashes - f) <= MaxAttempts
        /\ a.state = "running" /\ ~Served(j) => a.attempts + (MaxCrashes - f) < MaxAttempts
    BY DEF IInv, BudgetInv
  <2>3. Move(j, a, b, posted[j], posted'[j])
    BY NextStep DEF RowsMove
  <2>4. Served(j) /\ ~Served(j)' => g = f + 1 /\ b = a
    BY Boots
  <2> HIDE DEF a, b, f, g
  <2>5. CASE b.state \notin Active
    BY <2>5 DEF Active, a, b, f, g
  <2>6. CASE b = a \/ Stopped(a, b)
    <3>1. b.attempts = a.attempts /\ (b.state \in Active => b.state = a.state)
      BY <2>1, <2>6 DEF Stopped, Row, Active
    <3>2. QED BY <2>1, <2>2, <2>4, <3>1 DEF Active, a, b, f, g
  <2>7. CASE Asked(j, a, b)
    BY <2>1, <2>7 DEF Asked, a, b, f, g
  <2>8. CASE Reopened(a, b) /\ a.attempts + (MaxCrashes - f) < MaxAttempts
    <3>1. b.attempts = a.attempts /\ b.state = "queued"
      BY <2>1, <2>8 DEF Reopened, Row
    <3>2. QED BY <2>1, <2>8, <3>1 DEF a, b, f, g
  <2>9. CASE Claimed(a, b) /\ Served(j)
    <3>1. b.attempts = a.attempts + 1 /\ b.state = "running" /\ a.state = "queued"
      BY <2>1, <2>9 DEF Claimed, Row
    <3>2. Served(j)'
      BY <2>1, <2>4, <2>9, <3>1
    <3>3. QED BY <2>1, <2>2, <3>1, <3>2 DEF a, b, f, g
  <2>10. CASE Requeued(a, b) /\ ~Served(j)
    <3>1. b.attempts = a.attempts /\ b.state = "queued" /\ a.state = "running"
      BY <2>1, <2>10 DEF Requeued, Row
    <3>2. QED BY <2>1, <2>2, <2>10, <3>1 DEF a, b, f, g
  <2>11. CASE Ended(a, b) \/ Saved(a, b) \/ Erased(a, b)
    <3>1. b.state \notin Active
      BY <2>1, <2>11 DEF Ended, Saved, Erased, DeletedRow, BlankRow, Row, Active
    <3>2. QED BY <2>5, <3>1
  <2>12. QED BY <2>3, <2>6, <2>7, <2>8, <2>9, <2>10, <2>11 DEF Move, f
<1>2. QED BY <1>1 DEF BudgetInv

LEMMA ConvStep == ASSUME TypeOK, ConvInv, RowsMove, ConvsMove, TypeOK' PROVE ConvInv'
<1>1. ASSUME NEW j \in Jobs
      PROVE  /\ job'[j].state \in Active /\ job[j].state \in Active => job'[j].conv = job[j].conv
             /\ Enters(j) /\ job'[j].conv # None => ~Busy(job'[j].conv)
             /\ job'[j].conv # None => Stands(job'[j].conv)
  <2>1. /\ job[j] \in Row /\ job'[j] \in Row
        /\ Move(j, job[j], job'[j], posted[j], posted'[j])
    BY DEF TypeOK, RowsMove
  <2>2. CASE Asked(j, job[j], job'[j])
    BY <2>1, <2>2 DEF Asked, Active, Move, Free, Stopped, Reopened, Claimed, Ended, Requeued,
                      Saved, Erased, Finished
  <2>3. CASE ~Asked(j, job[j], job'[j])
    <3>1. job'[j].conv = job[j].conv \/ job'[j] = DeletedRow
      BY <2>1, <2>3 DEF Move, Stopped, Reopened, Claimed, Ended, Requeued, Saved, Erased, Row
    <3>2. Enters(j) => Free(job[j].conv) /\ job'[j].conv = job[j].conv
      BY <2>1, <2>3 DEF Enters, Move, Stopped, Reopened, Claimed, Ended, Requeued, Saved, Erased,
                        Row, Active, Finished, DeletedRow, BlankRow
    <3>3. DeletedRow.conv = None /\ DeletedRow.state \notin Active
      BY DEF DeletedRow, BlankRow, Active
    <3>4. job'[j].conv # None => Standing(job'[j].conv) /\ job'[j].conv \in Convs
      BY <2>1, <3>1, <3>3 DEF ConvInv, JobsHaveConversation, Standing, Row
    <3>5. QED BY <3>1, <3>2, <3>3, <3>4 DEF Free, ConvsMove
  <2>4. QED BY <2>2, <2>3
<1>2. JobsHaveConversation'
  BY <1>1 DEF JobsHaveConversation, Stands
<1>3. ASSUME NEW j \in Jobs, NEW k \in Jobs, j # k,
             job'[j].state \in Active, job'[k].state \in Active, job'[j].conv # None
      PROVE  job'[j].conv # job'[k].conv
  <2>1. CASE ~Enters(j) /\ ~Enters(k)
    <3>1. job[j].state \in Active /\ job[k].state \in Active
      BY <1>3, <2>1 DEF Enters
    <3>2. QED BY <1>1, <1>3, <3>1 DEF ConvInv, OneJobPerConversation, Working
  <2>2. CASE Enters(j)
    <3>1. job[k].state \in Active
      BY <1>3, <2>2 DEF Enters, RowsMove
    <3>2. QED BY <1>1, <1>3, <2>2, <3>1 DEF Busy, Working
  <2>3. CASE Enters(k)
    <3>1. job[j].state \in Active
      BY <1>3, <2>3 DEF Enters, RowsMove
    <3>2. QED BY <1>1, <1>3, <2>3, <3>1 DEF Busy, Working
  <2>4. QED BY <2>1, <2>2, <2>3
<1>4. OneJobPerConversation'
  BY <1>3 DEF OneJobPerConversation, Working
<1>5. QED BY <1>2, <1>4 DEF ConvInv

\* A row that was asked for is not forgotten, and its attempts are counted up.
LEMMA RowsGrow ==
  ASSUME TypeOK, RowsMove, NEW j \in Jobs, job[j].state # "none"
  PROVE  /\ job'[j].state # "none"
         /\ job'[j].state # "deleted" => /\ job[j].state # "deleted"
                                         /\ job'[j].attempts >= job[j].attempts
         /\ job'[j].state = "running" =>
              \/ /\ job[j].state = "running" /\ job'[j].attempts = job[j].attempts
                 /\ job'[j].conv = job[j].conv
              \/ Claimed(job[j], job'[j]) /\ job'[j].attempts = job[j].attempts + 1
<1>1. /\ job[j] \in Row /\ job[j].attempts \in Int
      /\ Move(j, job[j], job'[j], posted[j], posted'[j])
  BY DEF TypeOK, RowsMove, Row
<1> DEFINE a == job[j]
           b == job'[j]
<1> HIDE DEF a, b
<1>2. CASE b = a
  BY <1>1, <1>2 DEF a, b
<1>3. CASE Stopped(a, b) \/ Reopened(a, b) \/ Ended(a, b) \/ Requeued(a, b) \/ Saved(a, b)
  <2>1. /\ b.state \notin {"none", "deleted"} /\ a.state # "deleted" /\ b.attempts = a.attempts
        /\ b.state = "running" => a.state = "running" /\ b.conv = a.conv
    BY <1>1, <1>3 DEF Stopped, Reopened, Ended, Requeued, Saved, Row, Active, a
  <2>2. QED BY <1>1, <2>1 DEF a, b
<1>4. CASE Claimed(a, b)
  <2>1. b.state = "running" /\ a.state = "queued" /\ b.attempts = a.attempts + 1
    BY <1>1, <1>4 DEF Claimed, Row, a
  <2>2. QED BY <1>1, <1>4, <2>1 DEF a, b
<1>5. CASE Erased(a, b)
  <2>1. b.state = "deleted"
    BY <1>5 DEF Erased, DeletedRow, BlankRow
  <2>2. QED BY <2>1 DEF a, b
<1>6. QED BY <1>1, <1>2, <1>3, <1>4, <1>5 DEF Move, Asked, a, b

\* The claim, as the thread and the row show it afterwards.
LEMMA ClaimShows ==
  ASSUME TypeOK, BudgetInv, NEW w \in Workers, NEW j \in Jobs, Claim(w, j)
  PROVE  /\ job[j].state = "queued" /\ job[j].attempts + 1 \in 1..MaxAttempts
         /\ j \in IF w \in AnswerWorkers THEN Answers ELSE Research
         /\ job'[j].state = "running" /\ job'[j].attempts = job[j].attempts + 1
         /\ wk'[w].pc = "claimed" /\ wk'[w].job = j
         /\ wk'[w].attempt = job[j].attempts + 1
         /\ \A v \in Workers \ {w} : wk'[v] = wk[v]
<1> DEFINE m == [pc |-> "claimed", job |-> j, attempt |-> job[j].attempts + 1, why |-> "error"]
           b == [job[j] EXCEPT !.state = "running", !.cancel = FALSE, !.attempts = @ + 1]
<1>1. /\ b.state = "running" /\ b.attempts = job[j].attempts + 1
      /\ m.pc = "claimed" /\ m.job = j /\ m.attempt = job[j].attempts + 1
  BY DEF TypeOK, Row
<1>2. job' = [job EXCEPT ![j] = b] /\ wk' = [wk EXCEPT ![w] = m]
  BY ClaimRow
<1> HIDE DEF b, m
<1>3. job'[j] = b /\ wk'[w] = m /\ \A v \in Workers \ {w} : wk'[v] = wk[v]
  BY <1>2 DEF TypeOK
<1>4. QED BY <1>1, <1>3, ClaimRow

LEMMA WorkerStep ==
  ASSUME TypeOK, BudgetInv, WorkerInv, RowsMove, ThreadsMove, TypeOK'
  PROVE  WorkerInv'
<1>1. ASSUME NEW w \in Workers, wk'[w].pc \in Holding
      PROVE  /\ wk'[w].job \in IF w \in AnswerWorkers THEN Answers ELSE Research
             /\ wk'[w].attempt >= 1
             /\ job'[wk'[w].job].state # "none"
             /\ job'[wk'[w].job].state # "deleted" => wk'[w].attempt <= job'[wk'[w].job].attempts
  <2>1. CASE \E j \in Jobs : Claim(w, j)
    <3>1. PICK j \in Jobs : Claim(w, j)
      BY <2>1
    <3>2. /\ j \in IF w \in AnswerWorkers THEN Answers ELSE Research
          /\ job[j].attempts + 1 \in 1..MaxAttempts
          /\ wk'[w].job = j /\ wk'[w].attempt = job[j].attempts + 1
          /\ job'[j].state = "running" /\ job'[j].attempts = job[j].attempts + 1
      BY <3>1, ClaimShows
    <3>3. QED BY <3>2
  <2>2. CASE /\ wk[w].pc \in Holding
             /\ wk'[w].job = wk[w].job /\ wk'[w].attempt = wk[w].attempt
    <3> DEFINE j == wk[w].job
    <3>1. /\ j \in IF w \in AnswerWorkers THEN Answers ELSE Research
          /\ wk[w].attempt >= 1 /\ job[j].state # "none"
          /\ job[j].state # "deleted" => wk[w].attempt <= job[j].attempts
      BY <2>2 DEF WorkerInv
    <3>2. /\ j \in Jobs /\ wk[w].attempt \in Int
          /\ job[j].attempts \in Int /\ job'[j].attempts \in Int
      BY <2>2, AtWork DEF TypeOK, Row
    <3> HIDE DEF j
    <3>3. /\ job'[j].state # "none"
          /\ job'[j].state # "deleted" => wk[w].attempt <= job'[j].attempts
      BY <3>1, <3>2, RowsGrow
    <3>4. QED BY <2>2, <3>1, <3>3 DEF j
  <2>3. QED BY <1>1, <2>1, <2>2 DEF ThreadsMove
<1>2. QED BY <1>1 DEF WorkerInv

LEMMA OpenStep ==
  ASSUME TypeOK, BudgetInv, WorkerInv, OpenInv, RowsMove, ConvsMove, ThreadsMove
  PROVE  OpenInv'
<1>1. ASSUME NEW w \in Workers, wk'[w].pc \in Inside, wk'[w].job \in Answers,
             job'[wk'[w].job].state = "running",
             job'[wk'[w].job].attempts = wk'[w].attempt,
             job'[wk'[w].job].conv # None
      PROVE  conv'[job'[wk'[w].job].conv] = "active"
  <2>1. ~\E j \in Jobs : Claim(w, j)
    <3>1. ASSUME NEW j \in Jobs, Claim(w, j) PROVE wk'[w].pc = "claimed"
      BY <3>1 DEF Claim, TypeOK
    <3>2. QED BY <1>1, <3>1 DEF Inside
  <2> DEFINE j == wk[w].job
  <2>2. /\ wk[w].pc \in Holding /\ wk'[w].job = j /\ wk'[w].attempt = wk[w].attempt
        /\ wk[w].pc \in Inside \/ (j \in Answers => InOpenConversation(j))
    BY <1>1, <2>1 DEF ThreadsMove, Inside, Holding
  <2>3. /\ j \in Jobs /\ job[j] \in Row /\ wk[w].attempt \in Int /\ job[j].attempts \in Int
        /\ job[j].state # "none"
        /\ job[j].state # "deleted" => wk[w].attempt <= job[j].attempts
    BY <2>2, AtWork DEF WorkerInv, Row
  <2>4. /\ job[j].state = "running" /\ job[j].attempts = wk[w].attempt
        /\ job'[j].conv = job[j].conv
    <3>1. \/ /\ job[j].state = "running" /\ job'[j].attempts = job[j].attempts
             /\ job'[j].conv = job[j].conv
          \/ job[j].state = "queued" /\ job'[j].attempts = job[j].attempts + 1
      BY <1>1, <2>2, <2>3, RowsGrow DEF Claimed
    <3>2. QED BY <1>1, <2>2, <2>3, <3>1
  <2>5. conv[job[j].conv] = "active"
    BY <1>1, <2>2, <2>3, <2>4 DEF OpenInv, InOpenConversation, Inside
  <2>6. job[j].conv \in Convs /\ Busy(job[j].conv)
    BY <1>1, <2>2, <2>3, <2>4 DEF Row, Busy, Working, Active
  <2>7. QED BY <2>2, <2>4, <2>5, <2>6 DEF ConvsMove
<1>2. QED BY <1>1 DEF OpenInv, Inside

LEMMA OwnStep ==
  ASSUME TypeOK, BudgetInv, WorkerInv, OwnInv, RowsMove, ThreadsMove,
         Delayed \cap AnswerWorkers = {}, TypeOK'
  PROVE  OwnInv'
<1>1. \A w \in AnswerWorkers : w \in Workers /\ w \notin Delayed
  BY DEF Workers
<1>2. ASSUME NEW w \in AnswerWorkers
      PROVE  boot' \in {"down", "answers"} => wk'[w].pc = "dead"
  BY <1>1 DEF OwnInv, ThreadsMove
<1>3. ASSUME NEW w \in AnswerWorkers, wk'[w].pc \in Holding, ~\E j \in Jobs : Claim(w, j)
      PROVE  /\ wk[w].pc \in Holding /\ wk'[w].job = wk[w].job
             /\ wk'[w].attempt = wk[w].attempt
             /\ job[wk[w].job].state = "running" /\ job[wk[w].job].attempts = wk[w].attempt
  BY <1>1, <1>3 DEF ThreadsMove, OwnInv
<1>4. ASSUME NEW w \in AnswerWorkers, wk'[w].pc \in Holding, NEW j \in Jobs, Claim(w, j)
      PROVE  /\ wk'[w].job = j /\ job[j].state = "queued"
             /\ job'[j].state = "running" /\ job'[j].attempts = wk'[w].attempt
             /\ \A v \in Workers \ {w} : wk'[v] = wk[v]
  BY <1>1, <1>4, ClaimShows
<1>5. ASSUME NEW w \in AnswerWorkers, wk'[w].pc \in Holding
      PROVE  /\ job'[wk'[w].job].state = "running"
             /\ job'[wk'[w].job].attempts = wk'[w].attempt
  <2>1. CASE \E j \in Jobs : Claim(w, j)
    BY <1>4, <1>5, <2>1
  <2>2. CASE ~\E j \in Jobs : Claim(w, j)
    <3> DEFINE j == wk[w].job
    <3>1. /\ wk[w].pc \in Holding /\ wk'[w].job = j /\ wk'[w].attempt = wk[w].attempt
          /\ job[j].state = "running" /\ job[j].attempts = wk[w].attempt
      BY <1>3, <1>5, <2>2
    <3>2. j \in Answers /\ j \in Jobs /\ job[j] \in Row
      BY <1>1, <3>1, AtWork DEF Answers
    <3> HIDE DEF j
    <3>3. Served(j)
      <4>1. boot \notin {"down", "answers"}
        BY <3>1 DEF OwnInv, Holding
      <4>2. QED BY <3>2, <4>1 DEF Served, TypeOK
    <3>4. ~Released(j)
      <4>1. ASSUME NEW v \in Workers, wk[v].pc \in Holding, wk[v].job = j, wk'[v] = Idle
            PROVE  FALSE
        <5>1. v \in AnswerWorkers
          BY <3>2, <4>1, AtWork
        <5>2. v # w
          BY <1>5, <4>1 DEF Idle, Holding
        <5>3. QED BY <3>1, <4>1, <5>1, <5>2 DEF OwnInv, j
      <4>2. QED BY <4>1 DEF Released
    <3>5. job'[j].state = "running" /\ job'[j].attempts = job[j].attempts
      <4>1. Move(j, job[j], job'[j], posted[j], posted'[j])
        BY <3>2 DEF RowsMove
      <4>2. job'[j] = job[j] \/ Stopped(job[j], job'[j])
        BY <3>1, <3>3, <3>4, <4>1 DEF Move, Asked, Reopened, Claimed, Erased, Finished
      <4>3. QED BY <3>1, <3>2, <4>2 DEF Stopped, Row
    <3>6. QED BY <3>1, <3>5
  <2>3. QED BY <2>1, <2>2
<1>6. ASSUME NEW w \in AnswerWorkers, NEW v \in AnswerWorkers \ {w},
             wk'[w].pc \in Holding, wk'[v].pc \in Holding
      PROVE  wk'[v].job # wk'[w].job
  <2>1. CASE (~\E j \in Jobs : Claim(w, j)) /\ (~\E j \in Jobs : Claim(v, j))
    BY <1>3, <1>6, <2>1 DEF OwnInv
  <2>2. ASSUME NEW x \in AnswerWorkers, NEW y \in AnswerWorkers, x # y,
               wk'[x].pc \in Holding, wk'[y].pc \in Holding,
               NEW j \in Jobs, Claim(x, j)
        PROVE  wk'[y].job # wk'[x].job
    <3>1. wk'[x].job = j /\ job[j].state = "queued" /\ wk'[y] = wk[y]
      BY <1>1, <1>4, <2>2
    <3>2. job[wk[y].job].state = "running"
      BY <2>2, <3>1 DEF OwnInv
    <3>3. QED BY <3>1, <3>2
  <2>3. QED BY <1>6, <2>1, <2>2
<1>7. QED BY <1>2, <1>5, <1>6 DEF OwnInv

LEMMA PurgeStepHolds == ASSUME IInv, Next PROVE PurgeInv'
<1>1. TypeOK /\ TypeOK' /\ RowsMove /\ PurgeInv
  BY NextStep DEF IInv
<1>2. ASSUME UNCHANGED <<conv, matter, purger>>, purger # "none" => boot' = "up"
      PROVE  PurgeInv'
  <2>1. ASSUME NEW j \in Jobs, matter.state # "active"
        PROVE  /\ job'[j].state \notin Active
               /\ job[j].state \in {"none", "deleted"} => job'[j].state = job[j].state
    <3>1. /\ job[j] \in Row /\ job[j].state \notin Active
          /\ Move(j, job[j], job'[j], posted[j], posted'[j])
      BY <1>1, <2>1 DEF RowsMove, PurgeInv, PurgeIsQuiet, TypeOK
    <3>2. job'[j] = job[j] \/ Erased(job[j], job'[j])
      BY <2>1, <3>1 DEF Move, Free, Stopped, Claimed, Ended, Requeued, Saved, Active
    <3>3. QED BY <3>1, <3>2 DEF Erased, DeletedRow, BlankRow, Active, Finished
  <2>2. QED BY <1>1, <1>2, <2>1 DEF PurgeInv, PurgeIsQuiet
<1>3. CASE Request
  <2>1. matter.state = "active" /\ UNCHANGED <<matter, purger, boot>>
    BY <1>1, <1>3 DEF Request, Ask, AskInDraft, AskSynthesis, Cancel, Retry, Continue, Create,
       Archive, Restore, Delete, Revoke, Grant, Access, PurgeInv, PurgeIsQuiet, Working
  <2>2. QED BY <1>1, <2>1 DEF PurgeInv, PurgeIsQuiet
<1>4. CASE BeginPurge
  BY <1>1, <1>4 DEF BeginPurge, Quiet, Working, PurgeInv, PurgeIsQuiet, TypeOK
<1>5. CASE PurgeStep
  BY <1>1, <1>5 DEF PurgeStep, PurgeInv, PurgeIsQuiet, TypeOK
<1>6. CASE ClosePurge
  BY <1>1, <1>6 DEF ClosePurge, PurgeInv, PurgeIsQuiet, TypeOK, DeletedRow, BlankRow, Active
<1>7. CASE FailPurge \/ RecoverPurges
  <2>1. /\ \/ matter'.state = matter.state
           \/ matter'.state = "purge_failed" /\ matter.state = "purging"
        /\ matter'.files = matter.files /\ purger' = "none"
        /\ UNCHANGED <<conv, job>>
    BY <1>1, <1>7 DEF FailPurge, RecoverPurges, PurgeAfterRestart, PurgeInv, TypeOK
  <2>2. QED BY <1>1, <2>1 DEF PurgeInv, PurgeIsQuiet
<1>8. CASE Crash
  BY <1>1, <1>8 DEF Crash, PurgeInv, PurgeIsQuiet
<1>9. CASE /\ WorkSteps
           /\ ~(BeginPurge \/ PurgeStep \/ ClosePurge \/ FailPurge \/ LosePurge \/ RecoverPurges \/ Crash)
  <2>1. UNCHANGED <<conv, matter, purger>> /\ (purger # "none" => boot' = "up")
    BY <1>1, <1>9 DEF WorkSteps, Claim, Advance, Save, SaveNothing, Fail, LoseFailure, ClaimRaises,
                StartAnswers, StartResearch, StartPool, PurgeInv
  <2>2. QED BY <1>2, <2>1
<1>10. CASE LosePurge
  <2>1. /\ matter.state = "purging" /\ purger # "none" /\ boot = "up"
        /\ purger' = "lost" /\ UNCHANGED <<conv, matter, job, boot>>
    BY <1>1, <1>10 DEF LosePurge, PurgeInv
  <2>2. QED BY <1>1, <2>1 DEF PurgeInv, PurgeIsQuiet
<1>11. QED BY <1>3, <1>4, <1>5, <1>6, <1>7, <1>8, <1>9, <1>10, Steps DEF IInv

LEMMA InitHolds == ASSUME Init PROVE IInv
<1>1. TypeOK
  <2>1. 0 \in 0..MaxCrashes /\ 0 \in 0..MaxErrors
    BY BoundAssumption
  <2>2. conv \in [Convs -> {"none", "active", "archived", "deleted"}]
    BY DEF Init
  <2>3. faults \in [crashes : 0..MaxCrashes, errors : 0..MaxErrors]
    BY <2>1 DEF Init
  <2>4. QED BY <2>2, <2>3, BlankRows, BlankMemory DEF Init, TypeOK
<1>2. \A j \in Jobs : job[j] = BlankRow /\ posted[j] = {}
  BY DEF Init
<1>3. /\ BlankRow.state = "none" /\ BlankRow.conv = None /\ Dead.pc = "dead"
  BY DEF BlankRow, Dead, Idle
<1>4. RowsInv
  BY <1>2, <1>3 DEF RowsInv, RowInv
<1>5. BudgetInv /\ ConvInv
  BY <1>2, <1>3 DEF BudgetInv, ConvInv, OneJobPerConversation, JobsHaveConversation, Working, Active
<1>6. \A w \in Workers : wk[w].pc = "dead"
  BY <1>3 DEF Init
<1>7. WorkerInv /\ OpenInv /\ OwnInv
  BY <1>6 DEF WorkerInv, OpenInv, OwnInv, Holding, Workers
<1>8. PurgeInv
  BY DEF Init, PurgeInv, PurgeIsQuiet
<1>9. QED BY <1>1, <1>4, <1>5, <1>7, <1>8 DEF IInv

LEMMA InvStep == ASSUME IInv, [Next]_vars PROVE IInv'
<1>1. CASE Next
  <2>1. TypeOK' /\ RowsMove /\ ConvsMove /\ ThreadsMove
    BY <1>1, NextStep
  <2>2. RowsInv' /\ ConvInv' /\ WorkerInv' /\ OpenInv'
    BY <2>1, RowsStep, ConvStep, WorkerStep, OpenStep DEF IInv
  <2>3. BudgetInv' /\ PurgeInv'
    BY <1>1, BudgetStep, PurgeStepHolds
  <2>4. OwnInv'
    <3>1. CASE Delayed \cap AnswerWorkers = {}
      BY <2>1, <3>1, OwnStep DEF IInv
    <3>2. CASE Delayed \cap AnswerWorkers # {}
      BY <3>2 DEF OwnInv
    <3>3. QED BY <3>1, <3>2
  <2>5. QED BY <2>1, <2>2, <2>3, <2>4 DEF IInv
<1>2. CASE UNCHANGED vars
  <2>1. TypeOK' /\ RowsInv' /\ BudgetInv'
    BY <1>2 DEF vars, IInv, TypeOK, RowsInv, BudgetInv, Served
  <2>2. ConvInv' /\ PurgeInv'
    BY <1>2 DEF vars, IInv, ConvInv, OneJobPerConversation, JobsHaveConversation, Working,
                PurgeInv, PurgeIsQuiet
  <2>3. WorkerInv' /\ OpenInv' /\ OwnInv'
    BY <1>2 DEF vars, IInv, WorkerInv, OpenInv, OwnInv
  <2>4. QED BY <2>1, <2>2, <2>3 DEF IInv
<1>3. QED BY <1>1, <1>2

LEMMA Invariant == Spec => []IInv
BY InitHolds, InvStep, PTL DEF Spec

-----------------------------------------------------------------------------
(* Theorems                                                                *)

\* Every variable keeps its type; the claims of a job stay within the bound
\* although every crash costs one (claim_*_job, recover_running_*_jobs).
THEOREM TypeCorrect == Spec => []TypeOK
BY Invariant, PTL DEF IInv

\* However work is asked for, retried, continued, deleted or recovered, two
\* requests are never under way in one conversation.
THEOREM ExclusiveConversations == Spec => []OneJobPerConversation
BY Invariant, PTL DEF IInv, ConvInv

\* No job belongs to a conversation that is not there.
THEOREM NoStrayJobs == Spec => []JobsHaveConversation
BY Invariant, PTL DEF IInv, ConvInv

\* A matter that is not active has no work under way, and what is left of a
\* deleted one is nothing.
THEOREM QuietPurge == Spec => []PurgeIsQuiet
BY Invariant, PTL DEF IInv, PurgeInv

\* A job has one saved result exactly if it succeeded.
THEOREM OneResult == Spec => []ResultMatchesState
<1>1. ASSUME IInv PROVE ResultMatchesState
  <2>1. ASSUME NEW j \in Jobs
        PROVE  Cardinality(posted[j]) = IF job[j].state = "succeeded" THEN 1 ELSE 0
    <3>1. CASE job[j].state = "succeeded"
      <4>1. \E a : posted[j] = {a}
        BY <1>1, <3>1 DEF IInv, RowsInv, RowInv
      <4>2. QED BY <3>1, <4>1, FS_Singleton
    <3>2. CASE job[j].state # "succeeded"
      <4>1. posted[j] = {}
        BY <1>1, <3>2 DEF IInv, RowsInv, RowInv
      <4>2. QED BY <3>2, <4>1, FS_EmptySet
    <3>3. QED BY <3>1, <3>2
  <2>2. QED BY <2>1 DEF ResultMatchesState
<1>2. QED BY <1>1, Invariant, PTL

\* What is saved of a fenced job is the work of its last attempt.
THEOREM LastAttempt == Spec => []LastAttemptWins
<1>1. ASSUME IInv PROVE LastAttemptWins
  BY <1>1, KindFacts DEF IInv, RowsInv, RowInv, LastAttemptWins
<1>2. QED BY <1>1, Invariant, PTL

\* Once a running job is to be cancelled, nothing that may still happen to it ends
\* it in another way.
THEOREM CancellationWins == Spec => CancelWins
<1>1. ASSUME IInv, Next, NEW j \in Jobs, job[j].state = "running", job[j].cancel
      PROVE  job'[j].state = "cancelled" \/ (job'[j].state = "running" /\ job'[j].cancel)
  <2>1. job[j] \in Row /\ Move(j, job[j], job'[j], posted[j], posted'[j])
    BY <1>1, NextStep DEF IInv, TypeOK, RowsMove
  <2>2. \/ job'[j] = job[j] \/ Stopped(job[j], job'[j])
        \/ job'[j] = [job[j] EXCEPT !.state = "cancelled"]
    BY <1>1, <2>1 DEF Move, Asked, Reopened, Claimed, Ended, Requeued, Saved, Erased, Finished
  <2>3. QED BY <1>1, <2>1, <2>2 DEF Stopped, Row
<1>2. ASSUME IInv, [Next]_vars
      PROVE  [\A j \in Jobs : job[j].state = "running" /\ job[j].cancel =>
                job'[j].state = "cancelled" \/ (job'[j].state = "running" /\ job'[j].cancel)]_vars
  BY <1>1, <1>2
<1>3. QED BY <1>2, Invariant, PTL DEF Spec, CancelWins

\* A result lands where its reviewer may see it, although an answer is saved without
\* another look at its conversation.  Without plain answers it does so whatever
\* threads outlive their process; a plain answer is not fenced by its attempt, so
\* for it no answer thread may.
THEOREM OpenResults ==
  ASSUME Delayed \cap AnswerWorkers = {} \/ \A j \in Jobs : KindOf[j] # "answer"
  PROVE  Spec => ResultsLandInTheOpen
<1>1. ASSUME IInv, Next, NEW j \in Jobs, posted'[j] \ posted[j] # {}
      PROVE  /\ Access(ActorOf[j])
             /\ job[j].conv # None => conv[job[j].conv] = "active"
  <2>1. PICK w \in Workers : Save(w)
    <3>1. ASSUME posted' = posted PROVE FALSE
      BY <1>1, <3>1
    <3>2. ASSUME NEW c \in Convs, Delete(c) PROVE FALSE
      BY <1>1, <3>2 DEF Delete
    <3>3. ~ClosePurge
      BY <1>1 DEF ClosePurge
    <3>4. ~Request
      BY <3>1, <3>2 DEF Request, Ask, AskInDraft, AskSynthesis, Cancel, Retry, Continue, Create,
                        Archive, Restore, Revoke, Grant
    <3>5. WorkSteps
      BY <1>1, <3>4, Steps DEF IInv
    <3>6. QED BY <3>1, <3>3, <3>5 DEF WorkSteps, Claim, Advance, SaveNothing, Fail, LoseFailure,
                ClaimRaises, BeginPurge, PurgeStep, FailPurge, LosePurge, Crash, RecoverPurges,
                StartAnswers, StartResearch, StartPool
  <2>2. wk[w].pc = "finishing" /\ wk[w].job = j
    BY <1>1, <2>1 DEF Save, IInv, TypeOK
  <2>3. Savable(w) /\ ~Superseded(w)
    BY <2>1 DEF Save
  <2>4. /\ Access(ActorOf[j]) /\ job[j].state = "running"
        /\ KindOf[j] = "research" => InOpenConversation(j)
    BY <2>2, <2>3 DEF Savable
  <2>5. CASE KindOf[j] \in {"research", "synthesis"}
    BY <1>1, <2>4, <2>5 DEF InOpenConversation, IInv, RowsInv, RowInv
  <2>6. CASE j \in Answers
    <3>1. job[j].attempts = wk[w].attempt
      <4>1. CASE KindOf[j] = "context"
        BY <2>2, <2>3, <4>1 DEF Superseded
      <4>2. CASE KindOf[j] = "answer"
        <5>1. w \in AnswerWorkers
          BY <1>1, <2>2, <2>6, AtWork DEF IInv, Holding
        <5>2. Delayed \cap AnswerWorkers = {}
          BY <4>2
        <5>3. QED BY <1>1, <2>2, <5>1, <5>2 DEF IInv, OwnInv, Holding
      <4>3. QED BY <2>6, <4>1, <4>2 DEF Answers
    <3>2. QED BY <1>1, <2>2, <2>4, <2>6, <3>1 DEF IInv, OpenInv
  <2>7. QED BY <2>5, <2>6, RequestAssumption DEF Answers, Kinds
<1>2. ASSUME IInv, [Next]_vars
      PROVE  [\A j \in Jobs : posted'[j] \ posted[j] # {} =>
                /\ Access(ActorOf[j])
                /\ job[j].conv # None => conv[job[j].conv] = "active"]_vars
  BY <1>1, <1>2
<1>3. QED BY <1>2, Invariant, PTL DEF Spec, ResultsLandInTheOpen

-----------------------------------------------------------------------------
(* The promise                                                             *)

\* A request as its reviewer sees it, from its row and its results.
Status(a) == CASE a.state = "none"      -> "none"
               [] a.state = "deleted"   -> "erased"
               [] a.state = "succeeded" -> "answered"
               [] a.state \in Active    -> "open"
               [] OTHER                 -> "ended"

View(a, P) == [state |-> Status(a), stop |-> a.state \in Active /\ a.cancel, answer |-> P # {}]

\* Requests as the reviewer may see them: nobody wants to end it and there is no
\* answer, it is to be stopped, it is answered.
Look(s, t, u) == [state |-> s, stop |-> t, answer |-> u]
Plain(s)      == Look(s, FALSE, FALSE)
Stop          == Look("open", TRUE, FALSE)
Success       == Look("answered", FALSE, TRUE)

LEMMA ViewOf ==
  ASSUME NEW a, NEW P, NEW s \in BOOLEAN, NEW n \in BOOLEAN,
         s <=> a.state \in Active /\ a.cancel, n <=> P # {}
  PROVE  View(a, P) = Look(Status(a), s, n)
<1>1. (a.state \in Active /\ a.cancel) = s
  OBVIOUS
<1>2. (P # {}) = n
  OBVIOUS
<1>3. QED BY <1>1, <1>2 DEF View, Look

LEMMA Views ==
  ASSUME NEW a, NEW P, P # {} <=> a.state = "succeeded"
  PROVE  /\ ~(a.state = "running" /\ a.cancel) /\ (a.state = "queued" => ~a.cancel)
              /\ a.state # "succeeded" => View(a, P) = Plain(Status(a))
         /\ a.state = "running" /\ a.cancel => View(a, P) = Stop
         /\ a.state = "succeeded" => View(a, P) = Success
<1>1. ASSUME ~(a.state = "running" /\ a.cancel), a.state = "queued" => ~a.cancel,
             a.state # "succeeded"
      PROVE  View(a, P) = Plain(Status(a))
  <2>1. /\ FALSE <=> a.state \in Active /\ a.cancel
        /\ FALSE <=> P # {}
    BY <1>1 DEF Active
  <2>2. QED BY <2>1, ViewOf DEF Plain
<1>2. ASSUME a.state = "running", a.cancel
      PROVE  View(a, P) = Stop
  <2>1. /\ TRUE <=> a.state \in Active /\ a.cancel
        /\ FALSE <=> P # {}
        /\ Status(a) = "open"
    BY <1>2 DEF Active, Status
  <2>2. QED BY <2>1, ViewOf DEF Stop
<1>3. ASSUME a.state = "succeeded"
      PROVE  View(a, P) = Success
  <2>1. /\ FALSE <=> a.state \in Active /\ a.cancel
        /\ TRUE <=> P # {}
        /\ Status(a) = "answered"
    BY <1>3 DEF Active, Status
  <2>2. QED BY <2>1, ViewOf DEF Success
<1>4. QED BY <1>1, <1>2, <1>3

\* A request is what its three fields say.
LEMMA Looks ==
  ASSUME NEW s \in {"none", "open", "answered", "ended", "erased"},
         NEW t \in BOOLEAN, NEW u \in BOOLEAN
  PROVE  /\ \A x \in {"none", "open", "answered", "ended", "erased"} :
              [Look(s, t, u) EXCEPT !.state = x] = Look(x, t, u)
         /\ [Look(s, t, u) EXCEPT !.stop = TRUE] = Look(s, TRUE, u)
         /\ \A x \in {"none", "open", "answered", "ended", "erased"} :
              [Look(s, t, u) EXCEPT !.state = x, !.answer = TRUE] = Look(x, t, TRUE)
<1> DEFINE l == Look(s, t, u)
<1>1. /\ l \in Durable!Request /\ l.state = s /\ l.stop = t /\ l.answer = u
      /\ \A x \in {"none", "open", "answered", "ended", "erased"}, y \in BOOLEAN, z \in BOOLEAN :
           /\ Look(x, y, z) \in Durable!Request /\ Look(x, y, z).state = x
           /\ Look(x, y, z).stop = y /\ Look(x, y, z).answer = z
  BY DEF Look, Durable!Request
<1>2. ASSUME NEW x \in Durable!Request, NEW y \in Durable!Request,
             x.state = y.state, x.stop = y.stop, x.answer = y.answer
      PROVE  x = y
  BY <1>2 DEF Durable!Request
<1> HIDE DEF l
<1>3. ASSUME NEW x \in {"none", "open", "answered", "ended", "erased"}
      PROVE  [l EXCEPT !.state = x] = Look(x, t, u)
  <2> DEFINE m == [l EXCEPT !.state = x]
  <2>1. m \in Durable!Request /\ m.state = x /\ m.stop = t /\ m.answer = u
    BY <1>1 DEF Durable!Request
  <2> HIDE DEF m
  <2>2. m = Look(x, t, u)
    BY <1>1, <1>2, <2>1
  <2>3. QED BY <2>2 DEF m
<1>4. ASSUME NEW y \in BOOLEAN
      PROVE  [l EXCEPT !.stop = y] = Look(s, y, u)
  <2> DEFINE m == [l EXCEPT !.stop = y]
  <2>1. m \in Durable!Request /\ m.state = s /\ m.stop = y /\ m.answer = u
    BY <1>1 DEF Durable!Request
  <2> HIDE DEF m
  <2>2. m = Look(s, y, u)
    BY <1>1, <1>2, <2>1
  <2>3. QED BY <2>2 DEF m
<1>5. ASSUME NEW x \in {"none", "open", "answered", "ended", "erased"}, NEW z \in BOOLEAN
      PROVE  [l EXCEPT !.state = x, !.answer = z] = Look(x, t, z)
  <2> DEFINE m == [l EXCEPT !.state = x, !.answer = z]
  <2>1. m \in Durable!Request /\ m.state = x /\ m.stop = t /\ m.answer = z
    BY <1>1 DEF Durable!Request
  <2> HIDE DEF m
  <2>2. m = Look(x, t, z)
    BY <1>1, <1>2, <2>1
  <2>3. QED BY <2>2 DEF m
<1>6. QED BY <1>3, <1>4, <1>5 DEF l

\* The steps of DurableRequest on such views.
LEMMA PlainSteps ==
  /\ Durable!Admit(Plain("none"), Plain("open"))
  /\ Durable!AskToStop(Plain("open"), Stop) /\ Durable!AskToStop(Stop, Stop)
  /\ Durable!Answer(Plain("open"), Success)
  /\ Durable!End(Plain("open"), Plain("ended")) /\ Durable!End(Stop, Plain("ended"))
  /\ Durable!Reopen(Plain("ended"), Plain("open"))
  /\ Durable!Erase(Plain("ended"), Plain("erased"))
  /\ Durable!Erase(Success, Plain("erased"))
<1>1. \A s \in {"none", "ended", "erased"} : [Durable!Fresh EXCEPT !.state = s] = Plain(s)
  BY Looks DEF Plain, Look, Durable!Fresh
<1>2. /\ Plain("none").state = "none" /\ Durable!Fresh = Plain("open")
      /\ Plain("open").state = "open" /\ Stop.state = "open" /\ ~Plain("open").stop
      /\ Plain("ended").state = "ended" /\ ~Plain("ended").answer /\ Success.state = "answered"
  BY DEF Plain, Look, Stop, Success, Durable!Fresh
<1>3. [Plain("open") EXCEPT !.stop = TRUE] = Stop /\ [Stop EXCEPT !.stop = TRUE] = Stop
  BY Looks DEF Plain, Stop
<1>4. [Plain("open") EXCEPT !.state = "answered", !.answer = TRUE] = Success
  BY Looks DEF Plain, Success
<1>5. QED BY <1>1, <1>2, <1>3, <1>4 DEF Durable!Admit, Durable!AskToStop, Durable!Answer,
                                       Durable!End, Durable!Reopen, Durable!Erase

Promised(x, y) ==
    \/ y = x
    \/ Durable!Admit(x, y) \/ Durable!AskToStop(x, y) \/ Durable!Answer(x, y)
    \/ Durable!End(x, y) \/ Durable!Discard(x, y) \/ Durable!Reopen(x, y)
    \/ Durable!Erase(x, y)

LEMMA MovePromised ==
  ASSUME NEW j \in Jobs, NEW a \in Row, NEW b \in Row, NEW P \in SUBSET (1..MaxAttempts), NEW Q,
         RowInv(j, a, P), Move(j, a, b, P, Q)
  PROVE  Promised(View(a, P), View(b, Q))
<1>1. /\ RowInv(j, b, Q)
      /\ P # {} <=> a.state = "succeeded"
      /\ a.state = "queued" => ~a.cancel
  BY RowMoves DEF RowInv
<1>2. /\ Q # {} <=> b.state = "succeeded"
      /\ b.state = "queued" => ~b.cancel
  BY <1>1 DEF RowInv
<1>3. /\ a.state \in {"queued", "running"} /\ ~a.cancel => View(a, P) = Plain("open")
      /\ a.state = "running" /\ a.cancel => View(a, P) = Stop
      /\ a.state = "none" => View(a, P) = Plain("none")
      /\ a.state \in {"failed", "cancelled"} => View(a, P) = Plain("ended")
      /\ a.state = "succeeded" => View(a, P) = Success
  BY <1>1, Views DEF Status, Active
<1>4. /\ b.state \in {"queued", "running"} /\ ~b.cancel => View(b, Q) = Plain("open")
      /\ b.state = "running" /\ b.cancel => View(b, Q) = Stop
      /\ b.state \in {"failed", "cancelled"} => View(b, Q) = Plain("ended")
      /\ b.state = "succeeded" => View(b, Q) = Success
      /\ b.state = "deleted" => View(b, Q) = Plain("erased")
  BY <1>2, Views DEF Status, Active
<1>5. CASE Q = P /\ b = a
  BY <1>5 DEF Promised
<1>6. CASE Asked(j, a, b)
  BY <1>3, <1>4, <1>6, PlainSteps DEF Asked, Promised
<1>7. CASE Stopped(a, b)
  <2>1. \/ a.state = "queued" /\ ~a.cancel /\ b.state = "cancelled"
        \/ a.state = "running" /\ b.state = "running" /\ b.cancel
    BY <1>1, <1>7 DEF Stopped, Row, Active
  <2>2. QED BY <1>3, <1>4, <2>1, PlainSteps DEF Promised
<1>8. CASE Reopened(a, b)
  <2>1. a.state \in {"failed", "cancelled"} /\ b.state = "queued" /\ ~b.cancel
    BY <1>8 DEF Reopened, Row
  <2>2. QED BY <1>3, <1>4, <2>1, PlainSteps DEF Promised
<1>9. CASE Claimed(a, b) \/ Requeued(a, b)
  <2>1. /\ a.state \in {"queued", "running"} /\ ~a.cancel
        /\ b.state \in {"queued", "running"} /\ ~b.cancel
    BY <1>1, <1>9 DEF Claimed, Requeued, Row
  <2>2. QED BY <1>3, <1>4, <2>1 DEF Promised
<1>10. CASE Ended(a, b)
  <2>1. a.state = "running" /\ b.state \in {"failed", "cancelled"}
    BY <1>10 DEF Ended, Row
  <2>2. QED BY <1>3, <1>4, <2>1, PlainSteps DEF Promised
<1>11. CASE Saved(a, b)
  <2>1. a.state = "running" /\ ~a.cancel /\ b.state = "succeeded"
    BY <1>11 DEF Saved, Row
  <2>2. QED BY <1>3, <1>4, <2>1, PlainSteps DEF Promised
<1>12. CASE Erased(a, b)
  <2>1. a.state \in {"succeeded", "failed", "cancelled"} /\ b.state = "deleted"
    BY <1>12 DEF Erased, Finished, DeletedRow, BlankRow
  <2>2. QED BY <1>3, <1>4, <2>1, PlainSteps DEF Promised
<1>13. QED BY <1>5, <1>6, <1>7, <1>8, <1>9, <1>10, <1>11, <1>12 DEF Move

\* Every step of the matter is, for each request, a step that DurableRequest allows
\* or none at all: crashes, claims and delayed threads are invisible to the reviewer.
THEOREM Refinement == Spec => KeepsPromise
<1>1. \A j \in Jobs : Seen(j) = View(job[j], posted[j])
  BY DEF Seen, View, Status, Working
<1>2. Init => Durable!Init
  <2>1. View(BlankRow, {}) = [Durable!Fresh EXCEPT !.state = "none"]
    <3>1. View(BlankRow, {}) = Plain(Status(BlankRow))
      <4>1. BlankRow.state = "none" /\ ~BlankRow.cancel
        BY DEF BlankRow
      <4>2. QED BY <4>1, Views
    <3>2. Status(BlankRow) = "none" /\ Durable!Fresh = Plain("open")
      <4>1. BlankRow.state = "none"
        BY DEF BlankRow
      <4>2. Status(BlankRow) = "none"
        BY <4>1 DEF Status, Active
      <4>3. QED BY <4>2 DEF Plain, Look, Durable!Fresh
    <3>3. [Plain("open") EXCEPT !.state = "none"] = Plain("none")
      BY Looks DEF Plain
    <3>4. QED BY <3>1, <3>2, <3>3
  <2>2. QED BY <1>1, <2>1 DEF Init, Durable!Init
<1>3. ASSUME IInv, [Next]_vars
      PROVE  [Durable!Next]_([j \in Jobs |-> Seen(j)])
  <2>1. \A j \in Jobs : Seen(j)' = View(job'[j], posted'[j])
    BY DEF Seen, View, Status, Working
  <2>2. CASE Next
    <3>1. ASSUME NEW j \in Jobs
          PROVE  Promised(View(job[j], posted[j]), View(job'[j], posted'[j]))
      <4>1. /\ job[j] \in Row /\ job'[j] \in Row /\ posted[j] \in SUBSET (1..MaxAttempts)
            /\ RowInv(j, job[j], posted[j])
            /\ Move(j, job[j], job'[j], posted[j], posted'[j])
        BY <1>3, <2>2, NextStep DEF IInv, TypeOK, RowsInv, RowsMove
      <4>2. QED BY <4>1, MovePromised
    <3>2. Durable!Next
      BY <1>1, <2>1, <3>1 DEF Durable!Next, Promised
    <3>3. QED BY <3>2
  <2>3. CASE UNCHANGED vars
    BY <2>3 DEF vars, Seen, Working
  <2>4. QED BY <1>3, <2>2, <2>3
<1>4. QED BY <1>2, <1>3, Invariant, PTL DEF Spec, KeepsPromise, Durable!Spec
====
