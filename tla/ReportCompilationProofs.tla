---------------------- MODULE ReportCompilationProofs ----------------------
(***************************************************************************)
(* Theorems of ReportCompilation, for any requests, reviewers, processes   *)
(* and bounds.  Every step moves each row in one of a few ways (Move); the *)
(* invariant, the action properties and the refinement follow from the     *)
(* moves and no longer look at the actions.                                *)
(***************************************************************************)
EXTENDS ReportCompilation, FiniteSetTheorems, TLAPS

States == Active \cup {"none", "succeeded", "failed", "cancelled"}

\* What most proofs need of the types; that the numbers stay in their bounds is
\* shown once the leases are counted (Typing).
RowShape == [state : States, cancel : BOOLEAN, attempts : Int, token : Int \cup {None},
             live : BOOLEAN, print : Int \cup {None}, report : BOOLEAN]

MemoryShape == [pc    : {"dead", "idle", "claimed", "started", "resolved", "compiling",
                         "compiled", "saving", "failing"},
                job   : Jobs \cup {None}, token : Int \cup {None}, print : Int \cup {None},
                stop  : {"no", "asked", "done"}, why : {"error", "stopped"}]

Shape ==
    /\ job \in [Jobs -> RowShape]
    /\ reports \in [Jobs -> SUBSET (Int \cup {None})]
    /\ basis \in [version : Int, by : Workers \cup {None}]
    /\ wk \in [Workers -> MemoryShape]
    /\ used \in [claims : [Jobs -> Int], retries : [Jobs -> Int], ends : Int]

\* At most one report, and only of a row that succeeded with it; what nobody has
\* asked for nobody has cancelled.
Consistent(r, R) ==
    /\ R = {} \/ \E t \in Int \cup {None} : R = {t}
    /\ R # {} <=> r.report
    /\ r.report => r.state = "succeeded"
    /\ r.state = "none" => ~r.cancel

ReportInv == \A j \in Jobs : Consistent(job[j], reports[j])

IInv == Shape /\ ReportInv

-----------------------------------------------------------------------------
(* How a step may move row a, with reports R, to row b, with reports S.    *)

Continues(a, b) == /\ a.state \in Active /\ b.state \in Active
                   /\ b.cancel = a.cancel /\ b.report = a.report
                   /\ a.state = "running" /\ a.cancel => b.state = "running"
AskedFor(a, b)  == a.state = "none" /\ b = [a EXCEPT !.state = "queued"]
Stopping(a, b)  == a.state = "running" /\ b = [a EXCEPT !.cancel = TRUE]
Ends(a, b, ok)  == /\ a.state \in Active /\ b.state \in {"failed", "cancelled"}
                   /\ b.report = a.report
                   /\ a.state = "running" /\ a.cancel /\ ok => b.state = "cancelled"
Succeeds(a, b)  == /\ a.state = "running" /\ ~a.cancel /\ ~b.cancel
                   /\ b.state = "succeeded" /\ b.report
Reopens(a, b)   == Over(a) /\ b.state = "queued" /\ ~b.cancel /\ b.report = a.report
Forgets(a, b)   == b = [a EXCEPT !.report = FALSE]

Move(a, b, R, S, ok) ==
    \/ S = R /\ \/ b = a \/ Continues(a, b) \/ AskedFor(a, b) \/ Stopping(a, b)
                \/ Ends(a, b, ok) \/ Reopens(a, b)
    \/ Succeeds(a, b) /\ \E t \in Int \cup {None} : S = R \cup {t}
    \/ Forgets(a, b) /\ S = {}

\* Only the holder of a live lease moves the token.
Protected(j) ==
    /\ job[j].state = "running" /\ job[j].live /\ Access(j)
    /\ job'[j].token # job[j].token
    => \E w \in Workers : wk[w].job = j /\ wk[w].token = job[j].token /\ wk'[w] # wk[w]

Moves == \A j \in Jobs : /\ Move(job[j], job'[j], reports[j], reports'[j], Access(j))
                         /\ Protected(j)

\* A row that is left alone.
LEMMA RowKept ==
  ASSUME NEW j \in Jobs, job'[j] = job[j], reports'[j] = reports[j]
  PROVE  Move(job[j], job'[j], reports[j], reports'[j], Access(j)) /\ Protected(j)
BY DEF Move, Protected

\* A row stays a row when one field is replaced.
LEMMA RowFields ==
  ASSUME NEW r \in RowShape
  PROVE  /\ \A s \in States : [r EXCEPT !.state = s] \in RowShape
         /\ \A c \in BOOLEAN : [r EXCEPT !.cancel = c] \in RowShape
         /\ \A n \in Int : [r EXCEPT !.attempts = n] \in RowShape
         /\ \A t \in Int \cup {None} : [r EXCEPT !.token = t] \in RowShape
         /\ \A l \in BOOLEAN : [r EXCEPT !.live = l] \in RowShape
         /\ \A p \in Int \cup {None} : [r EXCEPT !.print = p] \in RowShape
         /\ \A f \in BOOLEAN : [r EXCEPT !.report = f] \in RowShape
BY DEF RowShape

LEMMA RowStates == {"queued", "running", "succeeded", "failed", "cancelled"} \subseteq States
BY DEF States, Active

-----------------------------------------------------------------------------
(* Reviewers                                                               *)

LEMMA QueueStep == ASSUME Shape, NEW j \in Jobs, Queue(j) PROVE Shape' /\ Moves
<1>1. Shape'
  BY DEF Shape, Queue, RowShape, States, Active
<1>2. ASSUME NEW k \in Jobs
      PROVE  Move(job[k], job'[k], reports[k], reports'[k], Access(k)) /\ Protected(k)
  <2>1. CASE k = j
    BY <2>1 DEF Shape, Queue, RowShape, Move, AskedFor, Protected
  <2>2. CASE k # j
    BY <2>2, RowKept DEF Shape, Queue
  <2>3. QED BY <2>1, <2>2
<1>3. QED BY <1>1, <1>2 DEF Moves

LEMMA CancelStep == ASSUME Shape, NEW j \in Jobs, Cancel(j) PROVE Shape' /\ Moves
<1>1. Shape'
  <2>1. job[j] \in RowShape
    BY DEF Shape
  <2>2. job'[j] \in RowShape
    BY <2>1 DEF Shape, Cancel, RowShape, States, Active
  <2>3. job' \in [Jobs -> RowShape]
    BY <2>2 DEF Shape, Cancel
  <2>4. QED BY <2>3 DEF Shape, Cancel
<1>2. ASSUME NEW k \in Jobs
      PROVE  Move(job[k], job'[k], reports[k], reports'[k], Access(k)) /\ Protected(k)
  <2>1. CASE k = j /\ job[j].state = "queued"
    BY <2>1 DEF Shape, Cancel, RowShape, Move, Ends, Protected, Active
  <2>2. CASE k = j /\ job[j].state = "running"
    BY <2>2 DEF Shape, Cancel, RowShape, Move, Stopping, Protected, Active
  <2>3. CASE k # j
    BY <2>3, RowKept DEF Shape, Cancel
  <2>4. QED BY <2>1, <2>2, <2>3 DEF Cancel, Active
<1>3. QED BY <1>1, <1>2 DEF Moves

LEMMA RetryStep == ASSUME Shape, NEW j \in Jobs, Retry(j) PROVE Shape' /\ Moves
<1>1. Shape'
  <2>1. job[j].report \in BOOLEAN
    BY DEF Shape, RowShape
  <2>2. BlankRow \in RowShape
    BY DEF RowShape, States, Active, BlankRow
  <2>3. job' \in [Jobs -> RowShape]
    <3>1. [BlankRow EXCEPT !.state = "queued"] \in RowShape
      BY <2>2, RowFields, RowStates
    <3>2. [BlankRow EXCEPT !.state = "queued", !.report = job[j].report] \in RowShape
      BY <2>1, <3>1, RowFields
    <3>3. QED BY <3>2 DEF Shape, Retry
  <2>4. used' \in [claims : [Jobs -> Int], retries : [Jobs -> Int], ends : Int]
    BY DEF Shape, Retry
  <2>5. QED BY <2>3, <2>4 DEF Shape, Retry
<1>2. ASSUME NEW k \in Jobs
      PROVE  Move(job[k], job'[k], reports[k], reports'[k], Access(k)) /\ Protected(k)
  <2>1. CASE k = j
    BY <2>1 DEF Shape, Retry, RowShape, BlankRow, MayRetry, Move, Reopens, Over, Protected
  <2>2. CASE k # j
    BY <2>2, RowKept DEF Shape, Retry
  <2>3. QED BY <2>1, <2>2
<1>3. QED BY <1>1, <1>2 DEF Moves

LEMMA DeleteReportStep == ASSUME Shape, NEW j \in Jobs, DeleteReport(j) PROVE Shape' /\ Moves
<1>1. Shape'
  BY DEF Shape, DeleteReport, RowShape
<1>2. ASSUME NEW k \in Jobs
      PROVE  Move(job[k], job'[k], reports[k], reports'[k], Access(k)) /\ Protected(k)
  <2>1. CASE k = j
    BY <2>1 DEF Shape, DeleteReport, RowShape, Move, Forgets, Protected
  <2>2. CASE k # j
    BY <2>2, RowKept DEF Shape, DeleteReport
  <2>3. QED BY <2>1, <2>2
<1>3. QED BY <1>1, <1>2 DEF Moves

LEMMA LapseStep == ASSUME Shape, NEW j \in Jobs, Lapse(j) PROVE Shape' /\ Moves
<1>1. Shape'
  BY DEF Shape, Lapse, RowShape
<1>2. ASSUME NEW k \in Jobs
      PROVE  Move(job[k], job'[k], reports[k], reports'[k], Access(k)) /\ Protected(k)
  <2>1. CASE k = j
    BY <2>1 DEF Shape, Lapse, RowShape, Move, Continues, Protected, Active
  <2>2. CASE k # j
    BY <2>2, RowKept DEF Shape, Lapse
  <2>3. QED BY <2>1, <2>2
<1>3. QED BY <1>1, <1>2 DEF Moves

-----------------------------------------------------------------------------
(* Claims and recovery                                                     *)

\* What recovery makes of a row: it is a row, it moves, and a live lease of a
\* reviewer with access is left alone.
LEMMA SweptRow ==
  ASSUME Shape, NEW j \in Jobs
  PROVE  /\ Swept(j) \in RowShape
         /\ Swept(j).state = "queued" => job[j].state \in Active
         /\ Swept(j).cancel = job[j].cancel /\ Swept(j).report = job[j].report
         /\ Swept(j).state = "queued" /\ job[j].state = "running" => ~job[j].cancel /\ ~job[j].live
         /\ Swept(j) # job[j] => Continues(job[j], Swept(j)) \/ Ends(job[j], Swept(j), Access(j))
         /\ job[j].state = "running" /\ job[j].live /\ Access(j) => Swept(j) = job[j]
<1>1. job[j] \in RowShape
  BY DEF Shape
<1>2. CASE job[j].state = "running" /\ ~job[j].live
  BY <1>1, <1>2 DEF Swept, Recovered, Free, RowShape, States, Active, Continues, Ends
<1>3. CASE ~(job[j].state = "running" /\ ~job[j].live)
  BY <1>1, <1>3 DEF Swept, Recovered, Free, RowShape, States, Active, Continues, Ends
<1>4. QED BY <1>2, <1>3

LEMMA SweepStep == ASSUME Shape, NEW w \in Workers, Sweep(w) PROVE Shape' /\ Moves
<1>1. Shape'
  BY SweptRow DEF Shape, Sweep
<1>2. ASSUME NEW k \in Jobs
      PROVE  Move(job[k], job'[k], reports[k], reports'[k], Access(k)) /\ Protected(k)
  <2>1. job'[k] = Swept(k) /\ reports'[k] = reports[k]
    BY DEF Sweep
  <2>2. QED BY <2>1, SweptRow DEF Move, Protected
<1>3. QED BY <1>1, <1>2 DEF Moves

LEMMA ClaimStep ==
  ASSUME Shape, NEW w \in Workers, NEW j \in Jobs, Claim(w, j)
  PROVE  Shape' /\ Moves
<1> DEFINE r == Swept(j)
           b == [r EXCEPT !.state = "running", !.attempts = @ + 1,
                          !.token = used.claims[j] + 1, !.live = TRUE]
<1>1. job' = [k \in Jobs |-> IF k = j THEN b ELSE Swept(k)]
  BY DEF Claim
<1>2. used.claims[j] + 1 \in Int
  BY DEF Shape
<1>3. b \in RowShape /\ b.state = "running" /\ b.cancel = job[j].cancel /\ b.report = job[j].report
  <2>1. r \in RowShape /\ r.cancel = job[j].cancel /\ r.report = job[j].report
    BY SweptRow
  <2> HIDE DEF r
  <2>2. b.state = "running" /\ b.cancel = r.cancel /\ b.report = r.report
    BY <2>1 DEF RowShape
  <2>3. b \in RowShape
    <3>1. [r EXCEPT !.state = "running"] \in RowShape
      BY <2>1, RowFields, RowStates
    <3>2. [r EXCEPT !.state = "running", !.attempts = @ + 1] \in RowShape
      <4>1. r.attempts + 1 \in Int
        BY <2>1 DEF RowShape
      <4>2. QED BY <3>1, <4>1, RowFields
    <3>3. [r EXCEPT !.state = "running", !.attempts = @ + 1,
                    !.token = used.claims[j] + 1] \in RowShape
      BY <1>2, <3>2, RowFields
    <3>4. QED BY <3>3, RowFields
  <2>4. QED BY <2>1, <2>2, <2>3
<1>4. Shape'
  <2>1. job' \in [Jobs -> RowShape]
    BY <1>1, <1>3, SweptRow
  <2>2. wk' \in [Workers -> MemoryShape]
    BY <1>2 DEF Shape, Claim, MemoryShape, Idle
  <2>3. used' \in [claims : [Jobs -> Int], retries : [Jobs -> Int], ends : Int]
    BY <1>2 DEF Shape, Claim
  <2>4. QED BY <2>1, <2>2, <2>3 DEF Shape, Claim
<1>5. ASSUME NEW k \in Jobs
      PROVE  Move(job[k], job'[k], reports[k], reports'[k], Access(k)) /\ Protected(k)
  <2>0. reports'[k] = reports[k]
    BY DEF Claim
  <2>1. CASE k = j
    <3>1. job'[k] = b /\ Swept(j).state = "queued"
      BY <1>1, <2>1 DEF Claim
    <3>2. Continues(job[j], b)
      BY <3>1, <1>3, SweptRow DEF Continues, Active
    <3>3. Protected(j)
      BY <3>1, SweptRow DEF Protected
    <3>4. QED BY <2>0, <2>1, <3>1, <3>2, <3>3 DEF Move
  <2>2. CASE k # j
    <3>1. job'[k] = Swept(k)
      BY <1>1, <2>2
    <3>2. QED BY <2>0, <3>1, SweptRow DEF Move, Protected
  <2>3. QED BY <2>1, <2>2
<1>6. QED BY <1>4, <1>5 DEF Moves

-----------------------------------------------------------------------------
(* Processes                                                               *)

RowsUntouched == job' = job /\ reports' = reports

LEMMA Untouched == ASSUME RowsUntouched PROVE Moves
BY RowKept DEF RowsUntouched, Moves

\* Memory stays memory when one field is replaced.
LEMMA MemoryFields ==
  ASSUME NEW m \in MemoryShape
  PROVE  /\ \A pc \in {"started", "resolved", "compiling", "compiled", "saving", "failing"} :
              [m EXCEPT !.pc = pc] \in MemoryShape
         /\ \A p \in Int \cup {None} : [m EXCEPT !.print = p] \in MemoryShape
         /\ \A s \in {"no", "asked", "done"} : [m EXCEPT !.stop = s] \in MemoryShape
         /\ \A y \in {"error", "stopped"} : [m EXCEPT !.why = y] \in MemoryShape
BY DEF MemoryShape

LEMMA IdleShape == Idle \in MemoryShape /\ Dead \in MemoryShape
BY DEF Idle, Dead, MemoryShape

LEMMA GotoShape ==
  ASSUME Shape, NEW w \in Workers,
         NEW pc \in {"started", "resolved", "compiling", "compiled", "saving", "failing"},
         Goto(w, pc)
  PROVE  wk' \in [Workers -> MemoryShape] /\ (wk[w].pc # pc => wk'[w] # wk[w])
<1>1. [wk[w] EXCEPT !.pc = pc] \in MemoryShape
  BY MemoryFields DEF Shape
<1>2. wk' \in [Workers -> MemoryShape]
  BY <1>1 DEF Shape, Goto
<1>3. wk'[w].pc = pc
  BY DEF Shape, Goto, MemoryShape
<1>4. QED BY <1>2, <1>3

LEMMA DropShape ==
  ASSUME Shape, NEW w \in Workers, Drop(w)
  PROVE  wk' \in [Workers -> MemoryShape] /\ (wk[w].pc # "idle" => wk'[w] # wk[w])
<1>1. wk[w].stop \in {"no", "asked", "done"}
  BY DEF Shape, MemoryShape
<1>2. [Idle EXCEPT !.stop = wk[w].stop] \in MemoryShape
  BY <1>1, IdleShape, MemoryFields
<1>3. wk' \in [Workers -> MemoryShape]
  BY <1>2 DEF Shape, Drop
<1>4. wk'[w].pc = "idle"
  BY DEF Shape, Drop, Idle
<1>5. QED BY <1>3, <1>4

\* A process that owns a lease writes the row it is of.
LEMMA OwnerWrites ==
  ASSUME Shape, NEW w \in Workers, Owned(w), wk'[w] # wk[w],
         NEW b, job' = [job EXCEPT ![wk[w].job] = b],
         wk[w].job \in Jobs =>
           /\ b \in RowShape
           /\ Move(job[wk[w].job], b, reports[wk[w].job], reports'[wk[w].job], Access(wk[w].job)),
         \A k \in Jobs \ {wk[w].job} : reports'[k] = reports[k]
  PROVE  job' \in [Jobs -> RowShape] /\ Moves
<1>1. job' \in [Jobs -> RowShape]
  BY DEF Shape
<1>2. ASSUME NEW k \in Jobs
      PROVE  Move(job[k], job'[k], reports[k], reports'[k], Access(k)) /\ Protected(k)
  <2>1. CASE k = wk[w].job
    <3>1. job'[k] = b
      BY <2>1 DEF Shape
    <3>2. Protected(k)
      BY <2>1 DEF Protected, Owned
    <3>3. QED BY <2>1, <3>1, <3>2
  <2>2. CASE k # wk[w].job
    BY <2>2, RowKept DEF Shape
  <2>3. QED BY <2>1, <2>2
<1>3. QED BY <1>1, <1>2 DEF Moves

\* The row a process gives back.
LEMMA ReleasedRow ==
  ASSUME NEW r \in RowShape, r.state = "running"
  PROVE  Released(r) \in RowShape /\ (Continues(r, Released(r)) \/ Ends(r, Released(r), TRUE))
<1> DEFINE n == IF r.attempts = 0 THEN 0 ELSE r.attempts - 1
           s == IF r.cancel THEN "cancelled" ELSE "queued"
           a == [r EXCEPT !.token = None, !.live = FALSE]
<1>1. a \in RowShape
  <2>1. [r EXCEPT !.token = None] \in RowShape
    BY RowFields
  <2>2. QED BY <2>1, RowFields
<1>2. n \in Int
  BY DEF RowShape
<1>3. [a EXCEPT !.print = None] \in RowShape
  BY <1>1, RowFields
<1>4. [a EXCEPT !.print = None, !.attempts = n] \in RowShape
  BY <1>2, <1>3, RowFields
<1>5. [a EXCEPT !.print = None, !.attempts = n, !.state = s] \in RowShape
  BY <1>4, RowFields, RowStates
<1>6. Released(r) = [a EXCEPT !.print = None, !.attempts = n, !.state = s]
  BY DEF Released, Free, RowShape
<1>7. Released(r).state = s /\ Released(r).cancel = r.cancel /\ Released(r).report = r.report
  BY DEF Released, Free, RowShape
<1>8. QED BY <1>5, <1>6, <1>7 DEF Continues, Ends, Active

LEMMA ReleaseStep ==
  ASSUME Shape, NEW w \in Workers, Release(w), reports' = reports, wk'[w] # wk[w]
  PROVE  job' \in [Jobs -> RowShape] /\ Moves
<1>1. CASE Owned(w)
  <2> DEFINE j == wk[w].job
  <2>1. job' = [job EXCEPT ![j] = Released(job[j])]
    BY <1>1 DEF Release
  <2>2. ASSUME j \in Jobs
        PROVE  Released(job[j]) \in RowShape
               /\ Move(job[j], Released(job[j]), reports[j], reports'[j], Access(j))
    <3>1. job[j] \in RowShape /\ job[j].state = "running"
      BY <1>1, <2>2 DEF Shape, Owned
    <3>2. Released(job[j]) \in RowShape
          /\ (Continues(job[j], Released(job[j])) \/ Ends(job[j], Released(job[j]), TRUE))
      BY <3>1, ReleasedRow
    <3>3. QED BY <3>2 DEF Move, Ends
  <2>3. QED BY <1>1, <2>1, <2>2, OwnerWrites
<1>2. CASE ~Owned(w)
  BY <1>2, Untouched DEF Release, RowsUntouched, Shape
<1>3. QED BY <1>1, <1>2

LEMMA RegisterStep == ASSUME Shape, NEW w \in Workers, Register(w) PROVE Shape' /\ Moves
<1>1. CASE wk[w].stop = "no"
  <2>1. Goto(w, "started") /\ RowsUntouched
    BY <1>1 DEF Register, RowsUntouched
  <2>2. QED BY <2>1, GotoShape, Untouched DEF Shape, Register, RowsUntouched
<1>2. CASE wk[w].stop # "no"
  <2>1. Drop(w) /\ Release(w) /\ wk[w].pc # "idle" /\ reports' = reports
    BY <1>2 DEF Register
  <2>2. wk' \in [Workers -> MemoryShape] /\ wk'[w] # wk[w]
    BY <2>1, DropShape
  <2>3. job' \in [Jobs -> RowShape] /\ Moves
    BY <2>1, <2>2, ReleaseStep
  <2>4. QED BY <2>2, <2>3 DEF Shape, Register
<1>3. QED BY <1>1, <1>2

LEMMA ResolveStep == ASSUME Shape, NEW w \in Workers, Resolve(w) PROVE Shape' /\ Moves
<1>1. basis.version \in Int /\ wk[w] \in MemoryShape
  BY DEF Shape
<1>2. [wk[w] EXCEPT !.pc = "resolved"] \in MemoryShape
  BY <1>1, MemoryFields
<1>3. [wk[w] EXCEPT !.pc = "resolved", !.print = basis.version] \in MemoryShape
  BY <1>1, <1>2, MemoryFields
<1>4. wk' \in [Workers -> MemoryShape]
  BY <1>3 DEF Shape, Resolve
<1>5. QED BY <1>4, Untouched DEF Shape, Resolve, RowsUntouched

LEMMA RecordStep == ASSUME Shape, NEW w \in Workers, Record(w) PROVE Shape' /\ Moves
<1> DEFINE j == wk[w].job
           b == [job[j] EXCEPT !.print = wk[w].print]
<1>1. wk' \in [Workers -> MemoryShape] /\ wk'[w] # wk[w]
  BY GotoShape DEF Record
<1>2. Owned(w) /\ job' = [job EXCEPT ![j] = b]
  BY DEF Record, OwnedUncancelled
<1>3. ASSUME j \in Jobs
      PROVE  b \in RowShape /\ Move(job[j], b, reports[j], reports'[j], Access(j))
  <2>1. job[j] \in RowShape /\ wk[w].print \in Int \cup {None} /\ job[j].state = "running"
    BY <1>2, <1>3 DEF Shape, MemoryShape, Owned
  <2>2. b \in RowShape
    BY <2>1, RowFields
  <2>3. b.state = "running" /\ b.cancel = job[j].cancel /\ b.report = job[j].report
    BY <2>1 DEF RowShape
  <2>4. Continues(job[j], b)
    BY <2>1, <2>3 DEF Continues, Active
  <2>5. QED BY <2>2, <2>4 DEF Move, Record
<1>4. job' \in [Jobs -> RowShape] /\ Moves
  BY <1>1, <1>2, <1>3, OwnerWrites DEF Record
<1>5. QED BY <1>1, <1>4 DEF Shape, Record

LEMMA CompileStep == ASSUME Shape, NEW w \in Workers, Compile(w) PROVE Shape' /\ Moves
BY GotoShape, Untouched DEF Shape, Compile, RowsUntouched

LEMMA ResnapshotStep == ASSUME Shape, NEW w \in Workers, Resnapshot(w) PROVE Shape' /\ Moves
BY GotoShape, Untouched DEF Shape, Resnapshot, RowsUntouched

LEMMA CompleteStep == ASSUME Shape, NEW w \in Workers, Complete(w) PROVE Shape' /\ Moves
<1> DEFINE j == wk[w].job
           b == [Free(job[j]) EXCEPT !.state = "succeeded", !.report = TRUE]
<1>1. wk' \in [Workers -> MemoryShape] /\ wk'[w] # wk[w]
  BY DropShape DEF Complete
<1>2. Owned(w) /\ ~job[j].cancel /\ job' = [job EXCEPT ![j] = b]
  BY DEF Complete, OwnedUncancelled
<1>3. reports' = [reports EXCEPT ![j] = @ \cup {wk[w].token}] /\ wk[w].token \in Int \cup {None}
  BY DEF Complete, Shape, MemoryShape
<1>4. ASSUME j \in Jobs
      PROVE  b \in RowShape /\ Move(job[j], b, reports[j], reports'[j], Access(j))
  <2>1. job[j] \in RowShape /\ job[j].state = "running"
    BY <1>2, <1>4 DEF Shape, Owned
  <2>2. b \in RowShape
    <3>1. [job[j] EXCEPT !.token = None] \in RowShape
      BY <2>1, RowFields
    <3>2. Free(job[j]) \in RowShape
      BY <3>1, RowFields DEF Free
    <3>3. [Free(job[j]) EXCEPT !.state = "succeeded"] \in RowShape
      BY <3>2, RowFields, RowStates
    <3>4. QED BY <3>3, RowFields
  <2>3. b.state = "succeeded" /\ b.cancel = job[j].cancel /\ b.report
    BY <2>1 DEF RowShape, Free
  <2>4. reports'[j] = reports[j] \cup {wk[w].token}
    BY <1>3, <1>4 DEF Shape
  <2>5. Succeeds(job[j], b)
    BY <1>2, <2>1, <2>3 DEF Succeeds
  <2>6. QED BY <1>3, <2>2, <2>4, <2>5 DEF Move
<1>5. \A k \in Jobs \ {j} : reports'[k] = reports[k]
  BY <1>3 DEF Shape
<1>6. job' \in [Jobs -> RowShape] /\ Moves
  BY <1>1, <1>2, <1>4, <1>5, OwnerWrites
<1>7. reports' \in [Jobs -> SUBSET (Int \cup {None})]
  BY <1>3 DEF Shape
<1>8. QED BY <1>1, <1>6, <1>7 DEF Shape, Complete

LEMMA RaiseStep == ASSUME Shape, NEW w \in Workers, Raise(w) PROVE Shape' /\ Moves
<1>1. PICK why \in {"error", "stopped"} :
         wk' = [wk EXCEPT ![w].pc = "failing", ![w].why = why, ![w].print = None]
  BY DEF Raise
<1>2. [wk[w] EXCEPT !.pc = "failing"] \in MemoryShape
  BY MemoryFields DEF Shape
<1>3. [wk[w] EXCEPT !.pc = "failing", !.why = why] \in MemoryShape
  BY <1>2, MemoryFields
<1>4. [wk[w] EXCEPT !.pc = "failing", !.why = why, !.print = None] \in MemoryShape
  BY <1>3, MemoryFields
<1>5. wk' \in [Workers -> MemoryShape]
  BY <1>1, <1>4 DEF Shape
<1>6. QED BY <1>5, Untouched DEF Shape, Raise, RowsUntouched

LEMMA FailStep == ASSUME Shape, NEW w \in Workers, Fail(w) PROVE Shape' /\ Moves
<1> DEFINE j == wk[w].job
           s == IF job[j].cancel THEN "cancelled" ELSE "failed"
           b == [Free(job[j]) EXCEPT !.state = s]
<1>1. wk' \in [Workers -> MemoryShape] /\ wk'[w] # wk[w]
  BY DropShape DEF Fail
<1>2. CASE Owned(w) /\ job' = [job EXCEPT ![j] = b]
  <2>1. ASSUME j \in Jobs
        PROVE  b \in RowShape /\ Move(job[j], b, reports[j], reports'[j], Access(j))
    <3>1. job[j] \in RowShape /\ job[j].state = "running"
      BY <1>2, <2>1 DEF Shape, Owned
    <3>2. [job[j] EXCEPT !.token = None] \in RowShape
      BY <3>1, RowFields
    <3>3. Free(job[j]) \in RowShape
      BY <3>2, RowFields DEF Free
    <3>4. b \in RowShape
      BY <3>3, RowFields, RowStates
    <3>5. b.state = s /\ b.report = job[j].report
      BY <3>1 DEF RowShape, Free
    <3>6. Ends(job[j], b, Access(j))
      BY <3>1, <3>5 DEF Ends, Active
    <3>7. QED BY <3>4, <3>6 DEF Move, Fail
  <2>2. job' \in [Jobs -> RowShape] /\ Moves
    BY <1>1, <1>2, <2>1, OwnerWrites DEF Fail
  <2>3. QED BY <1>1, <2>2 DEF Shape, Fail
<1>3. CASE job' = job
  BY <1>1, <1>3, Untouched DEF Shape, Fail, RowsUntouched
<1>4. QED BY <1>2, <1>3 DEF Fail

LEMMA StopStep == ASSUME Shape, NEW w \in Workers, Stop(w) PROVE Shape' /\ Moves
<1>1. [wk[w] EXCEPT !.stop = "asked"] \in MemoryShape
  BY MemoryFields DEF Shape
<1>2. wk' \in [Workers -> MemoryShape]
  BY <1>1 DEF Shape, Stop
<1>3. used' \in [claims : [Jobs -> Int], retries : [Jobs -> Int], ends : Int]
  BY DEF Shape, Stop
<1>4. QED BY <1>2, <1>3, Untouched DEF Shape, Stop, RowsUntouched

LEMMA ReleaseActiveStep ==
  ASSUME Shape, NEW w \in Workers, ReleaseActive(w)
  PROVE  Shape' /\ Moves
<1>1. [wk[w] EXCEPT !.stop = "done"] \in MemoryShape
  BY MemoryFields DEF Shape
<1>2. wk' \in [Workers -> MemoryShape] /\ wk'[w].stop = "done"
  BY <1>1 DEF Shape, ReleaseActive, MemoryShape
<1>3. CASE wk[w].pc \in {"idle", "claimed"}
  BY <1>2, <1>3, Untouched DEF Shape, ReleaseActive, RowsUntouched
<1>4. CASE wk[w].pc \notin {"idle", "claimed"}
  <2>1. Release(w) /\ reports' = reports /\ wk'[w] # wk[w]
    BY <1>2, <1>4 DEF ReleaseActive
  <2>2. job' \in [Jobs -> RowShape] /\ Moves
    BY <2>1, ReleaseStep
  <2>3. QED BY <1>2, <2>2 DEF Shape, ReleaseActive
<1>5. QED BY <1>3, <1>4

LEMMA EndingStep ==
  ASSUME Shape, NEW w \in Workers, Start(w) \/ Exit(w) \/ Crash(w)
  PROVE  Shape' /\ Moves
<1>1. wk' \in [Workers -> MemoryShape]
  BY IdleShape DEF Shape, Start, Exit, Crash
<1>2. used' \in [claims : [Jobs -> Int], retries : [Jobs -> Int], ends : Int]
  BY DEF Shape, Start, Exit, Crash
<1>3. QED BY <1>1, <1>2, Untouched DEF Shape, Start, Exit, Crash, RowsUntouched

LEMMA OutsideStep ==
  ASSUME Shape, (\E p \in Workers : Edit(p)) \/ (\E a \in Actors : ChangeAccess(a)) \/ UNCHANGED vars
  PROVE  Shape' /\ Moves
<1>1. RowsUntouched /\ wk' = wk /\ used' = used
  BY DEF Edit, ChangeAccess, vars, RowsUntouched
<1>2. basis' \in [version : Int, by : Workers \cup {None}]
  BY DEF Shape, Edit, ChangeAccess, vars
<1>3. QED BY <1>1, <1>2, Untouched DEF Shape, RowsUntouched

-----------------------------------------------------------------------------
(* The invariant                                                           *)

\* One lemma per action, put together.
LEMMA ShapeStep == ASSUME Shape, [Next]_vars PROVE Shape' /\ Moves
<1>1. CASE \E j \in Jobs : Queue(j) \/ Cancel(j) \/ Retry(j) \/ DeleteReport(j) \/ Lapse(j)
  BY <1>1, QueueStep, CancelStep, RetryStep, DeleteReportStep, LapseStep
<1>2. CASE \E w \in Workers : Thread(w)
  BY <1>2, RegisterStep, ResolveStep, RecordStep, CompileStep, ResnapshotStep, CompleteStep,
     RaiseStep, FailStep DEF Thread
<1>3. CASE \E w \in Workers : Poll(w)
  BY <1>3, SweepStep, ClaimStep DEF Poll
<1>4. CASE \E w \in Workers : Close(w) \/ Start(w) \/ Stop(w) \/ Crash(w)
  BY <1>4, ReleaseActiveStep, EndingStep, StopStep DEF Close
<1>5. CASE (\E p \in Workers : Edit(p)) \/ (\E a \in Actors : ChangeAccess(a)) \/ UNCHANGED vars
  BY <1>5, OutsideStep
<1>6. QED BY <1>1, <1>2, <1>3, <1>4, <1>5 DEF Next

LEMMA InvInit == Init => IInv
<1> SUFFICES ASSUME Init PROVE IInv
  OBVIOUS
<1>1. /\ BlankRow \in RowShape
      /\ ~BlankRow.report /\ ~BlankRow.cancel
  BY DEF BlankRow, RowShape, States, Active
<1>2. Shape
  BY <1>1, IdleShape DEF Shape, Init
<1>3. ASSUME NEW j \in Jobs PROVE Consistent(job[j], reports[j])
  <2>1. job[j] = BlankRow /\ reports[j] = {}
    BY DEF Init
  <2>2. QED BY <1>1, <2>1 DEF Consistent
<1>4. QED BY <1>2, <1>3 DEF IInv, ReportInv

\* A move keeps a row and its reports in agreement.
LEMMA MoveConsistent ==
  ASSUME NEW a \in RowShape, NEW b \in RowShape, NEW R, NEW S, NEW ok \in BOOLEAN,
         Consistent(a, R), Move(a, b, R, S, ok)
  PROVE  Consistent(b, S)
<1>1. CASE b = a /\ S = R
  BY <1>1
<1>2. CASE S = R /\ (Continues(a, b) \/ AskedFor(a, b) \/ Stopping(a, b) \/ Ends(a, b, ok)
                     \/ Reopens(a, b))
  <2>1. ~a.report
    BY <1>2 DEF Consistent, Continues, AskedFor, Stopping, Ends, Reopens, Over, Active
  <2>2. b.report = a.report /\ b.state # "none"
    BY <1>2 DEF Continues, AskedFor, Stopping, Ends, Reopens, Active, RowShape
  <2>3. QED BY <1>2, <2>1, <2>2 DEF Consistent
<1>3. CASE Succeeds(a, b) /\ \E t \in Int \cup {None} : S = R \cup {t}
  <2>1. R = {}
    BY <1>3 DEF Succeeds, Consistent
  <2>2. PICK t \in Int \cup {None} : S = {t}
    BY <1>3, <2>1
  <2>3. QED BY <1>3, <2>2 DEF Succeeds, Consistent
<1>4. CASE Forgets(a, b) /\ S = {}
  <2>1. b.state = a.state /\ b.cancel = a.cancel /\ ~b.report
    BY <1>4 DEF Forgets, RowShape
  <2>2. QED BY <1>4, <2>1 DEF Consistent
<1>5. QED BY <1>1, <1>2, <1>3, <1>4 DEF Move

LEMMA InvStep == ASSUME IInv, [Next]_vars PROVE IInv' /\ Moves
<1>1. Shape' /\ Moves
  BY ShapeStep DEF IInv
<1>2. ASSUME NEW j \in Jobs PROVE Consistent(job'[j], reports'[j])
  <2>1. /\ job[j] \in RowShape /\ job'[j] \in RowShape
        /\ Access(j) \in BOOLEAN
        /\ Consistent(job[j], reports[j])
        /\ Move(job[j], job'[j], reports[j], reports'[j], Access(j))
    BY <1>1 DEF IInv, Shape, ReportInv, Moves, Access
  <2>2. QED BY <2>1, MoveConsistent
<1>3. QED BY <1>1, <1>2 DEF IInv, ReportInv, Consistent

-----------------------------------------------------------------------------
(* The theorems                                                            *)

\* The inductive invariant holds: rows and reports agree in every state.
THEOREM Invariant == Spec => []IInv
<1>1. QED BY InvInit, InvStep, PTL DEF Spec

\* A compilation has at most one report, and only while its row is recorded as
\* succeeded with it, whoever claimed it, lost it and took it up again.
THEOREM ReportOnce == Spec => []ReportMatchesJob
<1>1. ASSUME IInv PROVE ReportMatchesJob
  <2>1. ASSUME NEW j \in Jobs
        PROVE  /\ Cardinality(reports[j]) <= 1
               /\ (reports[j] # {}) = job[j].report
               /\ job[j].report => job[j].state = "succeeded"
    <3>1. Consistent(job[j], reports[j]) /\ job[j].report \in BOOLEAN
      BY <1>1 DEF IInv, ReportInv, Shape, RowShape
    <3>2. Cardinality(reports[j]) <= 1
      <4>1. CASE reports[j] = {}
        <5>1. Cardinality(reports[j]) = 0
          BY <4>1, FS_EmptySet
        <5>2. QED BY <5>1
      <4>2. ASSUME NEW t \in Int \cup {None}, reports[j] = {t} PROVE Cardinality(reports[j]) <= 1
        <5>1. Cardinality(reports[j]) = 1
          BY <4>2, FS_Singleton
        <5>2. QED BY <5>1
      <4>3. QED BY <3>1, <4>1, <4>2 DEF Consistent
    <3>3. (reports[j] # {}) = job[j].report
      <4>1. CASE job[j].report = TRUE
        BY <3>1, <4>1 DEF Consistent
      <4>2. CASE job[j].report = FALSE
        BY <3>1, <4>2 DEF Consistent
      <4>3. QED BY <3>1, <4>1, <4>2
    <3>4. QED BY <3>1, <3>2, <3>3 DEF Consistent
  <2>2. QED BY <2>1 DEF ReportMatchesJob
<1>2. QED BY <1>1, Invariant, PTL

\* While a lease is live and its reviewer has access, only the process that holds
\* it ends the attempt.
THEOREM LeaseProtection == Spec => LeaseProtects
<1>1. ASSUME IInv, [Next]_vars
      PROVE  [\A j \in Jobs :
                /\ job[j].state = "running" /\ job[j].live /\ Access(j)
                /\ job'[j].token # job[j].token
                => \E w \in Workers : /\ wk[w].job = j /\ wk[w].token = job[j].token
                                      /\ wk'[w] # wk[w]]_vars
  BY <1>1, InvStep DEF Moves, Protected
<1>2. QED BY <1>1, Invariant, PTL DEF Spec, LeaseProtects

\* Where a running row that is to be cancelled may move.
LEMMA MoveCancelled ==
  ASSUME NEW a \in RowShape, NEW b \in RowShape, NEW R, NEW S, NEW ok \in BOOLEAN,
         Consistent(a, R), Move(a, b, R, S, ok), a.state = "running", a.cancel
  PROVE  \/ b.state = "cancelled"
         \/ b.state = "running" /\ b.cancel
         \/ b.state = "failed" /\ ~ok
<1>1. CASE b = a \/ Continues(a, b) \/ AskedFor(a, b) \/ Reopens(a, b)
  BY <1>1 DEF Continues, AskedFor, Reopens, Over
<1>2. CASE Stopping(a, b)
  BY <1>2 DEF Stopping, RowShape
<1>3. CASE Ends(a, b, ok)
  BY <1>3 DEF Ends
<1>4. CASE Forgets(a, b)
  BY <1>4 DEF Forgets, RowShape
<1>5. QED BY <1>1, <1>2, <1>3, <1>4 DEF Move, Succeeds

\* A running compilation that was asked to stop ends cancelled, or failed if its
\* reviewer lost access: no worker and no recovery turns it into anything else.
THEOREM CancellationWins == Spec => CancelWins
<1>1. ASSUME IInv, [Next]_vars
      PROVE  [\A j \in Jobs : job[j].state = "running" /\ job[j].cancel =>
                \/ job'[j].state = "cancelled"
                \/ job'[j].state = "running" /\ job'[j].cancel
                \/ job'[j].state = "failed" /\ ~Access(j)]_vars
  <2>1. IInv' /\ Moves
    BY <1>1, InvStep
  <2>2. ASSUME NEW j \in Jobs, job[j].state = "running", job[j].cancel
        PROVE  \/ job'[j].state = "cancelled"
               \/ job'[j].state = "running" /\ job'[j].cancel
               \/ job'[j].state = "failed" /\ ~Access(j)
    <3>1. /\ job[j] \in RowShape /\ job'[j] \in RowShape /\ Access(j) \in BOOLEAN
          /\ Consistent(job[j], reports[j])
          /\ Move(job[j], job'[j], reports[j], reports'[j], Access(j))
      BY <1>1, <2>1 DEF IInv, Shape, ReportInv, Moves, Access
    <3>2. QED BY <2>2, <3>1, MoveCancelled
  <2>3. QED BY <2>2
<1>2. QED BY <1>1, Invariant, PTL DEF Spec, CancelWins

-----------------------------------------------------------------------------
(* Leases and fingerprints                                                 *)

Early == {"claimed", "started", "resolved"}
Busy  == Early \cup {"compiling", "compiled", "saving", "failing"}

\* What may be claimed has no lease, no fingerprint and an attempt left.
Ready(r) ==
    /\ r.state \in {"none", "queued"} =>
         r.token = None /\ r.print = None /\ ~r.cancel /\ r.attempts < MaxAttempts
    /\ r.state = "running" => r.attempts <= MaxAttempts

\* Token t is one of the first n.
Given(n, t) == t \in Int /\ t <= n

Unrecorded(w) == wk[w].pc \in Early /\ Owned(w) => job[wk[w].job].print = None

\* Two processes at work on one compilation hold different leases, so what one
\* records is never found by another that still owns the compilation.
LeaseInv ==
    /\ \A j \in Jobs : Ready(job[j])
    /\ \A j \in Jobs : job[j].state = "running" => Given(used.claims[j], job[j].token)
    /\ \A w \in Workers : wk[w].pc \in Busy =>
         wk[w].job \in Jobs /\ Given(used.claims[wk[w].job], wk[w].token)
    /\ \A v, w \in Workers : v # w /\ wk[v].pc \in Busy /\ wk[w].pc \in Busy
                             /\ wk[v].job = wk[w].job => wk[v].token # wk[w].token
    /\ \A w \in Workers : Unrecorded(w)

\* A row that gets no lease and no fingerprint.
RowHolds(a, b) ==
    /\ Ready(b)
    /\ b.state = "running" => /\ a.state = "running" /\ b.token = a.token
                              /\ b.print = a.print /\ (b.live => a.live)

\* A process that begins nothing.
MemoryHolds(m, n) ==
    n.pc \in Busy => /\ m.pc \in Busy /\ n.job = m.job /\ n.token = m.token
                     /\ n.pc \in Early => m.pc \in Early

RowsHold   == \A j \in Jobs : RowHolds(job[j], job'[j])
MemoryKept == \A w \in Workers : MemoryHolds(wk[w], wk'[w])

LEMMA HoldingKeepsLeases ==
  ASSUME LeaseInv, RowsHold, MemoryKept, used'.claims = used.claims
  PROVE  LeaseInv'
<1>1. \A j \in Jobs : Ready(job'[j])
  BY DEF RowsHold, RowHolds
<1>2. ASSUME NEW j \in Jobs, job'[j].state = "running"
      PROVE  Given(used.claims[j], job[j].token) /\ job'[j].token = job[j].token
  BY <1>2 DEF LeaseInv, RowsHold, RowHolds
<1>3. ASSUME NEW w \in Workers, wk'[w].pc \in Busy
      PROVE  /\ wk'[w].job = wk[w].job /\ wk'[w].token = wk[w].token /\ wk[w].pc \in Busy
             /\ wk[w].job \in Jobs /\ Given(used.claims[wk[w].job], wk[w].token)
             /\ wk'[w].pc \in Early => wk[w].pc \in Early
  BY <1>3 DEF LeaseInv, MemoryKept, MemoryHolds
<1>4. ASSUME NEW w \in Workers PROVE Unrecorded(w)'
  <2> SUFFICES ASSUME wk'[w].pc \in Early, Owned(w)' PROVE job'[wk'[w].job].print = None
    BY DEF Unrecorded
  <2>1. wk'[w].pc \in Busy
    BY DEF Busy
  <2>2. wk'[w].job = wk[w].job /\ wk'[w].token = wk[w].token /\ wk[w].pc \in Early /\ wk[w].job \in Jobs
    BY <1>3, <2>1
  <2>3. RowHolds(job[wk[w].job], job'[wk[w].job])
    BY <2>2 DEF RowsHold
  <2>4. Owned(w) /\ job'[wk[w].job].print = job[wk[w].job].print
    BY <2>2, <2>3 DEF Owned, RowHolds
  <2>5. QED BY <2>2, <2>4 DEF LeaseInv, Unrecorded
<1>5. QED BY <1>1, <1>2, <1>3, <1>4 DEF LeaseInv, Given

LEMMA KeptRow == ASSUME NEW j \in Jobs, LeaseInv, job'[j] = job[j] PROVE RowHolds(job[j], job'[j])
BY DEF LeaseInv, RowHolds

LEMMA KeptRows == ASSUME LeaseInv, job' = job PROVE RowsHold
BY KeptRow DEF RowsHold

LEMMA KeptMemory == ASSUME wk' = wk PROVE MemoryKept
BY DEF MemoryKept, MemoryHolds

\* One process moves on, and the others stay as they are.
LEMMA OneMoves ==
  ASSUME Shape, NEW w \in Workers, NEW m, wk' = [wk EXCEPT ![w] = m], MemoryHolds(wk[w], m)
  PROVE  MemoryKept
BY DEF Shape, MemoryKept, MemoryHolds

\* The fields of a row without its lease.
LEMMA FreeFields ==
  ASSUME NEW r \in RowShape
  PROVE  Free(r) \in RowShape /\ Free(r).token = None /\ ~Free(r).live /\ Free(r).state = r.state
         /\ Free(r).cancel = r.cancel /\ Free(r).attempts = r.attempts /\ Free(r).print = r.print
<1>1. [r EXCEPT !.token = None] \in RowShape
  BY RowFields
<1>2. Free(r) \in RowShape
  BY <1>1, RowFields DEF Free
<1>3. QED BY <1>2 DEF Free, RowShape

LEMMA RequestLeases ==
  ASSUME Shape, ReportInv, LeaseInv, NEW j \in Jobs,
         Queue(j) \/ Cancel(j) \/ Retry(j) \/ DeleteReport(j) \/ Lapse(j)
  PROVE  LeaseInv'
<1>1. job[j] \in RowShape /\ Ready(job[j])
  BY DEF Shape, LeaseInv
<1>2. RowHolds(job[j], job'[j])
  <2>1. CASE Queue(j)
    BY <1>1, <2>1 DEF Shape, Queue, RowShape, Ready, RowHolds
  <2>2. CASE Cancel(j)
    BY <1>1, <2>2 DEF Shape, Cancel, RowShape, Ready, RowHolds, Active
  <2>3. CASE Retry(j)
    <3>1. job'[j] = [BlankRow EXCEPT !.state = "queued", !.report = job[j].report]
      BY <2>3 DEF Shape, Retry
    <3>2. /\ job'[j].state = "queued" /\ job'[j].token = None /\ job'[j].print = None
          /\ ~job'[j].cancel /\ job'[j].attempts = 0
      BY <3>1 DEF BlankRow
    <3>3. 0 < MaxAttempts
      BY PolicyAssumption
    <3>4. QED BY <3>2, <3>3 DEF Ready, RowHolds
  <2>4. CASE DeleteReport(j)
    BY <1>1, <2>4 DEF Shape, DeleteReport, RowShape, Ready, RowHolds
  <2>5. CASE Lapse(j)
    BY <1>1, <2>5 DEF Shape, Lapse, RowShape, Ready, RowHolds
  <2>6. QED BY <2>1, <2>2, <2>3, <2>4, <2>5
<1>3. \A k \in Jobs \ {j} : job'[k] = job[k]
  BY DEF Shape, Queue, Cancel, Retry, DeleteReport, Lapse
<1>4. RowsHold
  BY <1>2, <1>3, KeptRow DEF RowsHold
<1>5. wk' = wk /\ used'.claims = used.claims
  BY DEF Shape, Queue, Cancel, Retry, DeleteReport, Lapse
<1>6. QED BY <1>4, <1>5, KeptMemory, HoldingKeepsLeases

\* What recovery leaves can be claimed, or is as it was.
LEMMA SweptHolds ==
  ASSUME Shape, LeaseInv, NEW j \in Jobs
  PROVE  RowHolds(job[j], Swept(j))
<1> DEFINE a == job[j]
           s == IF a.cancel THEN "cancelled"
                ELSE IF a.attempts >= MaxAttempts THEN "failed" ELSE "queued"
           c == Recovered(a)
<1>1. a \in RowShape /\ Ready(a)
  BY DEF Shape, LeaseInv
<1>2. RowHolds(a, c) /\ c \in RowShape
  <2>1. CASE a.state = "running" /\ ~a.live
    <3>1. c = [Free(a) EXCEPT !.print = None, !.state = s]
      BY <2>1 DEF Recovered
    <3>2. Free(a) \in RowShape
      BY <1>1, FreeFields
    <3>3. [Free(a) EXCEPT !.print = None] \in RowShape
      BY <3>2, RowFields
    <3>4. c \in RowShape
      <4>1. s \in States
        BY RowStates
      <4> HIDE DEF s
      <4>2. QED BY <3>1, <3>3, <4>1, RowFields
    <3>5. /\ c.state = s /\ c.token = None /\ c.print = None
          /\ c.cancel = a.cancel /\ c.attempts = a.attempts
      BY <1>1, <3>1, FreeFields DEF RowShape
    <3>6. c.state = "queued" => ~c.cancel /\ c.attempts < MaxAttempts
      <4>1. c.attempts \in Int /\ MaxAttempts \in Int
        BY <3>4, PolicyAssumption DEF RowShape
      <4>2. QED BY <3>5, <4>1
    <3>7. c.state # "running" /\ c.state # "none"
      BY <3>5
    <3> HIDE DEF c, s
    <3>8. QED BY <3>4, <3>5, <3>6, <3>7 DEF Ready, RowHolds
  <2>2. CASE ~(a.state = "running" /\ ~a.live)
    <3>1. c = a
      BY <2>2 DEF Recovered
    <3> HIDE DEF c
    <3>2. QED BY <1>1, <3>1 DEF RowHolds
  <2>3. QED BY <2>1, <2>2
<1>3. CASE c.state \in Active /\ ~Access(j)
  <2>1. Swept(j) = [Free(c) EXCEPT !.state = "failed"]
    BY <1>3 DEF Swept
  <2>2. Free(c) \in RowShape
    BY <1>2, FreeFields
  <2>3. Swept(j).state = "failed"
    BY <2>1, <2>2 DEF RowShape
  <2>4. QED BY <2>3 DEF Ready, RowHolds
<1>4. CASE ~(c.state \in Active /\ ~Access(j))
  <2>1. Swept(j) = c
    BY <1>4 DEF Swept
  <2>2. QED BY <1>2, <2>1
<1>5. QED BY <1>3, <1>4

LEMMA SweepLeases == ASSUME Shape, LeaseInv, NEW w \in Workers, Sweep(w) PROVE LeaseInv'
<1>1. \A j \in Jobs : job'[j] = Swept(j)
  BY DEF Sweep
<1>2. RowsHold
  BY <1>1, SweptHolds DEF RowsHold
<1>3. wk' = wk /\ used'.claims = used.claims
  BY DEF Sweep
<1>4. QED BY <1>2, <1>3, KeptMemory, HoldingKeepsLeases

\* A claim gives a token nobody holds to a row without a fingerprint.
LEMMA ClaimLeases ==
  ASSUME Shape, LeaseInv, NEW w \in Workers, NEW j \in Jobs, Claim(w, j)
  PROVE  LeaseInv'
<1> DEFINE t == used.claims[j] + 1
           r == Swept(j)
<1>1. t \in Int /\ used.claims[j] \in Int
  BY DEF Shape
<1>2. r \in RowShape /\ r.state = "queued"
  BY SweptRow DEF Claim
<1>3. Ready(r)
  BY SweptHolds DEF RowHolds
<1>4. /\ job'[j].state = "running" /\ job'[j].token = t /\ job'[j].print = None
      /\ job'[j].attempts <= MaxAttempts
  <2> HIDE DEF r, t
  <2>1. r.print = None /\ r.attempts + 1 <= MaxAttempts
    BY <1>2, <1>3, PolicyAssumption DEF Ready, RowShape
  <2>2. job'[j] = [r EXCEPT !.state = "running", !.attempts = @ + 1, !.token = t, !.live = TRUE]
    BY DEF Claim, r, t
  <2>3. QED BY <1>2, <2>1, <2>2 DEF RowShape
<1>5. \A k \in Jobs \ {j} : job'[k] = Swept(k)
  BY DEF Claim
<1>6. \A k \in Jobs \ {j} : RowHolds(job[k], job'[k])
  BY <1>5, SweptHolds
<1>7. \A k \in Jobs : used'.claims[k] = IF k = j THEN t ELSE used.claims[k]
  BY DEF Shape, Claim
<1>8. wk'[w].pc = "claimed" /\ wk'[w].job = j /\ wk'[w].token = t
  BY DEF Shape, Claim, Idle
<1>9. \A v \in Workers \ {w} : wk'[v] = wk[v]
  BY DEF Shape, Claim
<1>10. \A k \in Jobs : \A u : Given(used.claims[k], u) => Given(used'.claims[k], u)
  <2>1. \A k \in Jobs : used.claims[k] \in Int /\ used.claims[k] <= used'.claims[k]
    BY <1>1, <1>7 DEF Shape
  <2>2. \A k \in Jobs : used'.claims[k] \in Int
    BY <1>1, <1>7, <2>1
  <2> HIDE DEF t
  <2>3. QED BY <2>1, <2>2 DEF Given
<1>11. Given(used'.claims[j], t) /\ \A u : Given(used.claims[j], u) => u # t
  <2>1. used'.claims[j] = t /\ \A u \in Int : u <= used.claims[j] => u # t
    BY <1>1, <1>7
  <2>2. t \in Int /\ t <= t
    BY <1>1
  <2> HIDE DEF t
  <2>3. QED BY <2>1, <2>2 DEF Given
<1> HIDE DEF t, r
<1>12. \A k \in Jobs : Ready(job'[k])
  BY <1>4, <1>6 DEF Ready, RowHolds
<1>13. \A k \in Jobs : job'[k].state = "running" => Given(used'.claims[k], job'[k].token)
  BY <1>4, <1>6, <1>10, <1>11 DEF LeaseInv, RowHolds
<1>14. \A v \in Workers : wk'[v].pc \in Busy =>
         wk'[v].job \in Jobs /\ Given(used'.claims[wk'[v].job], wk'[v].token)
  BY <1>8, <1>9, <1>10, <1>11 DEF LeaseInv
<1>15. ASSUME NEW v \in Workers, NEW x \in Workers, v # x, wk'[v].pc \in Busy, wk'[x].pc \in Busy,
              wk'[v].job = wk'[x].job
       PROVE  wk'[v].token # wk'[x].token
  <2>1. CASE v # w /\ x # w
    BY <1>9, <1>15, <2>1 DEF LeaseInv
  <2>2. CASE v = w
    BY <1>8, <1>9, <1>11, <1>15, <2>2 DEF LeaseInv
  <2>3. CASE x = w
    BY <1>8, <1>9, <1>11, <1>15, <2>3 DEF LeaseInv
  <2>4. QED BY <2>1, <2>2, <2>3
<1>16. ASSUME NEW v \in Workers PROVE Unrecorded(v)'
  <2> SUFFICES ASSUME wk'[v].pc \in Early, Owned(v)' PROVE job'[wk'[v].job].print = None
    BY DEF Unrecorded
  <2>1. CASE v = w
    BY <1>4, <1>8, <2>1
  <2>2. CASE v # w
    <3>1. wk'[v] = wk[v] /\ wk[v].pc \in Early /\ wk[v].pc \in Busy
      BY <1>9, <2>2 DEF Busy
    <3>2. wk[v].job \in Jobs /\ Given(used.claims[wk[v].job], wk[v].token)
      BY <3>1 DEF LeaseInv
    <3>3. wk[v].job # j
      BY <1>4, <1>11, <3>1, <3>2 DEF Owned
    <3>4. RowHolds(job[wk[v].job], job'[wk[v].job])
      BY <1>6, <3>2, <3>3
    <3>5. Owned(v) /\ job'[wk[v].job].print = job[wk[v].job].print
      BY <3>1, <3>4 DEF Owned, RowHolds
    <3>6. QED BY <3>1, <3>5 DEF LeaseInv, Unrecorded
  <2>3. QED BY <2>1, <2>2
<1>17. QED BY <1>12, <1>13, <1>14, <1>15, <1>16 DEF LeaseInv

\* A process goes on with what it has.
LEMMA GotoMemory ==
  ASSUME Shape, NEW w \in Workers, NEW pc, Goto(w, pc), wk[w].pc \in Busy,
         pc \in Early => wk[w].pc \in Early
  PROVE  MemoryKept
<1>1. MemoryHolds(wk[w], [wk[w] EXCEPT !.pc = pc])
  BY DEF Shape, MemoryShape, MemoryHolds
<1>2. QED BY <1>1, OneMoves DEF Goto

LEMMA DropMemory == ASSUME Shape, NEW w \in Workers, Drop(w) PROVE MemoryKept
<1>1. MemoryHolds(wk[w], [Idle EXCEPT !.stop = wk[w].stop])
  BY DEF Idle, MemoryHolds, Busy, Early
<1>2. QED BY <1>1, OneMoves DEF Drop

\* A process ends the attempt it owns.
LEMMA EndedRows ==
  ASSUME Shape, LeaseInv, NEW j, NEW b, job' = [job EXCEPT ![j] = b],
         j \in Jobs => Ready(b) /\ b.state # "running"
  PROVE  RowsHold
<1>1. ASSUME NEW k \in Jobs PROVE RowHolds(job[k], job'[k])
  <2>1. CASE k = j
    BY <2>1 DEF Shape, RowHolds
  <2>2. CASE k # j
    BY <2>2, KeptRow DEF Shape
  <2>3. QED BY <2>1, <2>2
<1>2. QED BY <1>1 DEF RowsHold

LEMMA ReleaseRows == ASSUME Shape, LeaseInv, NEW w \in Workers, Release(w) PROVE RowsHold
<1>1. CASE Owned(w)
  <2> DEFINE j == wk[w].job
             r == job[j]
             b == Released(r)
             n == IF r.attempts = 0 THEN 0 ELSE r.attempts - 1
  <2>1. ASSUME j \in Jobs PROVE Ready(b) /\ b.state # "running"
    <3>1. r \in RowShape /\ r.state = "running" /\ Ready(r)
      BY <1>1, <2>1 DEF Shape, LeaseInv, Owned
    <3>2. /\ b.state = IF r.cancel THEN "cancelled" ELSE "queued"
          /\ b.cancel = r.cancel /\ b.token = None /\ b.print = None /\ b.attempts = n
      BY <3>1 DEF Released, Free, RowShape
    <3>3. n < MaxAttempts
      BY <3>1, PolicyAssumption DEF Ready, RowShape
    <3> HIDE DEF r, b, n
    <3>4. QED BY <3>2, <3>3 DEF Ready
  <2>2. QED BY <1>1, <2>1, EndedRows DEF Release
<1>2. CASE ~Owned(w)
  BY <1>2, KeptRows DEF Release
<1>3. QED BY <1>1, <1>2

\* The process that records a fingerprint is the only one that owns the compilation.
LEMMA RecordLeases == ASSUME Shape, LeaseInv, NEW w \in Workers, Record(w) PROVE LeaseInv'
<1> DEFINE j == wk[w].job
<1>1. wk[w].pc \in Busy /\ j \in Jobs /\ Owned(w)
  BY DEF LeaseInv, Record, Busy, Early, OwnedUncancelled
<1>2. /\ job' = [job EXCEPT ![j].print = wk[w].print] /\ Goto(w, "compiling")
      /\ used' = used
  BY DEF Record
<1>3. /\ job'[j].state = "running" /\ job'[j].token = job[j].token
      /\ job'[j].live = job[j].live /\ job'[j].attempts = job[j].attempts
      /\ job[j].state = "running"
  BY <1>1, <1>2 DEF Shape, RowShape, Owned
<1>4. \A k \in Jobs \ {j} : job'[k] = job[k]
  BY <1>2 DEF Shape
<1>5. wk'[w].pc = "compiling" /\ wk'[w].job = wk[w].job /\ wk'[w].token = wk[w].token
  BY <1>2 DEF Shape, MemoryShape, Goto
<1>6. \A v \in Workers \ {w} : wk'[v] = wk[v]
  BY <1>2 DEF Shape, Goto
<1> HIDE DEF j
<1>7. \A k \in Jobs : Ready(job'[k]) /\ (job'[k].state = "running" =>
                                           job[k].state = "running" /\ job'[k].token = job[k].token)
  BY <1>1, <1>3, <1>4 DEF LeaseInv, Ready
<1>8. ASSUME NEW v \in Workers, wk'[v].pc \in Busy
      PROVE  wk[v].pc \in Busy /\ wk'[v].job = wk[v].job /\ wk'[v].token = wk[v].token
  BY <1>1, <1>5, <1>6, <1>8
<1>9. ASSUME NEW v \in Workers PROVE Unrecorded(v)'
  <2> SUFFICES ASSUME wk'[v].pc \in Early, Owned(v)' PROVE job'[wk'[v].job].print = None
    BY DEF Unrecorded
  <2>1. v # w
    BY <1>5 DEF Early
  <2>2. wk'[v] = wk[v] /\ wk[v].pc \in Busy /\ wk[v].job \in Jobs
    BY <1>6, <2>1 DEF LeaseInv, Busy
  <2>3. CASE wk[v].job = j
    <3>1. wk[v].token # wk[w].token
      BY <1>1, <2>1, <2>2, <2>3 DEF LeaseInv, j
    <3>2. job[j].token = wk[w].token
      BY <1>1 DEF Owned, j
    <3>3. job'[j].token = wk[v].token
      BY <2>2, <2>3 DEF Owned
    <3>4. QED BY <1>3, <3>1, <3>2, <3>3
  <2>4. CASE wk[v].job # j
    <3>1. job'[wk[v].job] = job[wk[v].job]
      BY <1>4, <2>2, <2>4
    <3>2. Owned(v)
      BY <2>2, <3>1 DEF Owned
    <3>3. QED BY <2>2, <3>1, <3>2 DEF LeaseInv, Unrecorded
  <2>5. QED BY <2>3, <2>4
<1>10. QED BY <1>2, <1>7, <1>8, <1>9 DEF LeaseInv

LEMMA ThreadLeases == ASSUME Shape, LeaseInv, NEW w \in Workers, Thread(w) PROVE LeaseInv'
<1>1. CASE Register(w) /\ wk[w].stop = "no"
  <2>1. RowsHold
    BY <1>1, KeptRows DEF Register
  <2>2. MemoryKept
    BY <1>1, GotoMemory DEF Register, Busy, Early
  <2>3. QED BY <1>1, <2>1, <2>2, HoldingKeepsLeases DEF Register
<1>2. CASE Register(w) /\ wk[w].stop # "no"
  <2>1. RowsHold /\ MemoryKept
    BY <1>2, ReleaseRows, DropMemory DEF Register
  <2>2. QED BY <1>2, <2>1, HoldingKeepsLeases DEF Register
<1>3. CASE Resolve(w)
  <2> DEFINE m == [wk[w] EXCEPT !.pc = "resolved", !.print = basis.version]
  <2>1. MemoryHolds(wk[w], m)
    BY <1>3 DEF Shape, MemoryShape, Resolve, MemoryHolds, Busy, Early
  <2>2. wk' = [wk EXCEPT ![w] = m]
    BY <1>3 DEF Shape, Resolve
  <2>3. MemoryKept
    BY <2>1, <2>2, OneMoves
  <2>4. QED BY <1>3, <2>3, KeptRows, HoldingKeepsLeases DEF Resolve
<1>4. CASE Record(w)
  BY <1>4, RecordLeases
<1>5. CASE Compile(w) \/ Resnapshot(w)
  <2>1. MemoryKept
    BY <1>5, GotoMemory DEF Compile, Resnapshot, Busy, Early
  <2>2. QED BY <1>5, <2>1, KeptRows, HoldingKeepsLeases DEF Compile, Resnapshot
<1>6. CASE Complete(w)
  <2> DEFINE b == [Free(job[wk[w].job]) EXCEPT !.state = "succeeded", !.report = TRUE]
  <2>1. wk[w].job \in Jobs => b.state = "succeeded"
    BY FreeFields DEF Shape, RowShape
  <2>2. job' = [job EXCEPT ![wk[w].job] = b]
    BY <1>6 DEF Complete
  <2>3. wk[w].job \in Jobs => Ready(b) /\ b.state # "running"
    BY <2>1 DEF Ready
  <2> HIDE DEF b
  <2>4. RowsHold
    BY <2>2, <2>3, EndedRows
  <2>5. QED BY <1>6, <2>4, DropMemory, HoldingKeepsLeases DEF Complete
<1>7. CASE Raise(w)
  <2>1. PICK why \in {"error", "stopped"} :
          wk' = [wk EXCEPT ![w].pc = "failing", ![w].why = why, ![w].print = None]
    BY <1>7 DEF Raise
  <2> DEFINE m == [wk[w] EXCEPT !.pc = "failing", !.why = why, !.print = None]
  <2>2. MemoryHolds(wk[w], m)
    BY <1>7 DEF Shape, MemoryShape, Raise, MemoryHolds, Busy, Early
  <2>3. wk' = [wk EXCEPT ![w] = m]
    BY <2>1 DEF Shape
  <2>4. MemoryKept
    BY <2>2, <2>3, OneMoves
  <2>5. QED BY <1>7, <2>4, KeptRows, HoldingKeepsLeases DEF Raise
<1>8. CASE Fail(w)
  <2> DEFINE r == job[wk[w].job]
             s == IF r.cancel THEN "cancelled" ELSE "failed"
             b == [Free(r) EXCEPT !.state = s]
  <2>1. wk[w].job \in Jobs => b.state = s
    BY FreeFields DEF Shape, RowShape
  <2>2. wk[w].job \in Jobs => Ready(b) /\ b.state # "running"
    BY <2>1 DEF Ready
  <2>3. job' = [job EXCEPT ![wk[w].job] = b] \/ job' = job
    BY <1>8 DEF Fail
  <2> HIDE DEF b
  <2>4. RowsHold
    BY <2>2, <2>3, EndedRows, KeptRows
  <2>5. QED BY <1>8, <2>4, DropMemory, HoldingKeepsLeases DEF Fail
<1>9. QED BY <1>1, <1>2, <1>3, <1>4, <1>5, <1>6, <1>7, <1>8 DEF Thread, Register

LEMMA ProcessLeases ==
  ASSUME Shape, LeaseInv, NEW w \in Workers,
         ReleaseActive(w) \/ Start(w) \/ Exit(w) \/ Stop(w) \/ Crash(w)
  PROVE  LeaseInv'
<1>1. CASE ReleaseActive(w) \/ Stop(w)
  <2>1. PICK s : wk' = [wk EXCEPT ![w].stop = s]
    BY <1>1 DEF ReleaseActive, Stop
  <2>2. MemoryHolds(wk[w], [wk[w] EXCEPT !.stop = s])
    BY DEF Shape, MemoryShape, MemoryHolds
  <2>3. MemoryKept
    BY <2>1, <2>2, OneMoves
  <2>4. RowsHold
    BY <1>1, KeptRows, ReleaseRows DEF ReleaseActive, Stop
  <2>5. used'.claims = used.claims
    BY <1>1 DEF Shape, ReleaseActive, Stop
  <2>6. QED BY <2>3, <2>4, <2>5, HoldingKeepsLeases
<1>2. CASE Start(w) \/ Exit(w) \/ Crash(w)
  <2>1. PICK m \in {Idle, Dead} : wk' = [wk EXCEPT ![w] = m]
    BY <1>2 DEF Start, Exit, Crash
  <2>2. MemoryHolds(wk[w], m)
    BY DEF Idle, Dead, MemoryHolds, Busy, Early
  <2>3. MemoryKept
    BY <2>1, <2>2, OneMoves
  <2>4. used'.claims = used.claims /\ job' = job
    BY <1>2 DEF Shape, Start, Exit, Crash
  <2>5. QED BY <2>3, <2>4, KeptRows, HoldingKeepsLeases
<1>3. QED BY <1>1, <1>2

LEMMA LeaseStep == ASSUME IInv, LeaseInv, [Next]_vars PROVE LeaseInv'
<1> USE DEF IInv
<1>1. CASE \E j \in Jobs : Queue(j) \/ Cancel(j) \/ Retry(j) \/ DeleteReport(j) \/ Lapse(j)
  BY <1>1, RequestLeases
<1>2. CASE \E w \in Workers : Thread(w)
  BY <1>2, ThreadLeases
<1>3. CASE \E w \in Workers : Poll(w)
  BY <1>3, SweepLeases, ClaimLeases DEF Poll
<1>4. CASE \E w \in Workers : Close(w) \/ Start(w) \/ Stop(w) \/ Crash(w)
  BY <1>4, ProcessLeases DEF Close
<1>5. CASE (\E p \in Workers : Edit(p)) \/ (\E a \in Actors : ChangeAccess(a)) \/ UNCHANGED vars
  <2>1. job' = job /\ wk' = wk /\ used' = used
    BY <1>5 DEF Edit, ChangeAccess, vars
  <2>2. QED BY <2>1, KeptRows, KeptMemory, HoldingKeepsLeases
<1>6. QED BY <1>1, <1>2, <1>3, <1>4, <1>5 DEF Next

LEMMA LeaseInit == Init => LeaseInv
<1> SUFFICES ASSUME Init PROVE LeaseInv
  OBVIOUS
<1>1. \A j \in Jobs : job[j] = BlankRow
  BY DEF Init
<1>2. Ready(BlankRow) /\ BlankRow.state # "running"
  BY PolicyAssumption DEF Ready, BlankRow
<1>3. \A w \in Workers : wk[w].pc \notin Busy
  BY DEF Init, Dead, Idle, Busy, Early
<1>4. \A w \in Workers : Unrecorded(w)
  BY <1>3 DEF Unrecorded, Busy
<1>5. QED BY <1>1, <1>2, <1>3, <1>4 DEF LeaseInv

\* Whoever owns a compilation and has recorded nothing finds no fingerprint of an
\* earlier attempt, and what waits can be claimed: for any number of processes,
\* lapsed leases, retries, shutdowns and crashes.
THEOREM FreshAttempts == Spec => []AttemptsStartFresh
<1>1. ASSUME IInv, LeaseInv PROVE AttemptsStartFresh
  <2>1. \A w \in Workers : wk[w].pc \in {"claimed", "started", "resolved"} /\ Owned(w) =>
          job[wk[w].job].print = None
    BY <1>1 DEF LeaseInv, Unrecorded, Early
  <2>2. ASSUME NEW j \in Jobs, job[j].state = "queued"
        PROVE  /\ job[j].token = None /\ ~job[j].cancel /\ ~job[j].report
               /\ job[j].attempts < MaxAttempts
    <3>1. Ready(job[j]) /\ Consistent(job[j], reports[j])
      BY <1>1 DEF IInv, ReportInv, LeaseInv
    <3>2. QED BY <2>2, <3>1 DEF Ready, Consistent
  <2>3. QED BY <2>1, <2>2 DEF AttemptsStartFresh
<1>2. QED BY <1>1, LeaseInit, LeaseStep, Invariant, PTL DEF Spec

-----------------------------------------------------------------------------
(* The number of leases                                                    *)

\* A process that is stopping with a claim it may still give back.
Ending(m) == \/ m.stop # "no" /\ m.pc = "claimed"
             \/ m.stop = "asked" /\ m.pc \notin {"idle", "dead", "claimed"}

Enders == {w \in Workers : Ending(wk[w])}

\* How many attempts of j its retries and the shutdowns allow beyond those that
\* were claimed.
Spare(j) == MaxAttempts * used.retries[j] + job[j].attempts + used.ends - used.claims[j]

\* Every claim is an attempt, or was given back by a process that stopped.
BudgetInv == IsFiniteSet(Enders) /\ \A j \in Jobs : Cardinality(Enders) <= Spare(j)

RowFits(r) == r.attempts \in 0..MaxAttempts /\ r.token \in Tokens \cup {None}
              /\ r.print \in Versions \cup {None}

MemoryFits(m) == /\ m.token \in Tokens \cup {None} /\ m.print \in Versions \cup {None}
                 /\ m.pc \in Busy => m.token \in Tokens
                 /\ m.pc = "dead" => m.stop = "no"

Fits ==
    /\ \A j \in Jobs : RowFits(job[j]) /\ reports[j] \subseteq Tokens
    /\ \A w \in Workers : MemoryFits(wk[w])
    /\ basis.version \in Versions /\ access \subseteq Actors /\ used \in Used

\* The fields of a row that count are as they were, or gone.
RowKeeps(a, b) == /\ b.attempts = a.attempts /\ b.token \in {a.token, None}
                  /\ b.print \in {a.print, None}

LEMMA SpareInt ==
  ASSUME Shape, Fits, NEW j \in Jobs
  PROVE  /\ Spare(j) \in Int /\ used.claims[j] \in Nat /\ used.retries[j] \in 0..MaxRetries
         /\ used.ends \in 0..MaxEnds /\ job[j].attempts \in 0..MaxAttempts
         /\ MaxAttempts * used.retries[j] \in Nat
<1>1. /\ used.claims[j] \in Nat /\ used.retries[j] \in 0..MaxRetries
      /\ used.ends \in 0..MaxEnds /\ job[j].attempts \in 0..MaxAttempts
  BY DEF Fits, RowFits, Used
<1>2. MaxAttempts \in Nat /\ used.retries[j] \in Nat
  BY <1>1, PolicyAssumption, BoundAssumption
<1>3. MaxAttempts * used.retries[j] \in Nat
  BY <1>2
<1>4. QED BY <1>1, <1>3 DEF Spare

\* What is counted goes on to fit when nobody comes to end.
LEMMA BudgetKept ==
  ASSUME Shape, Fits, BudgetInv, NEW n \in {-1, 0, 1},
         IsFiniteSet(Enders'), Cardinality(Enders') <= Cardinality(Enders) + n,
         \A j \in Jobs : Spare(j)' \in Int /\ Spare(j) + n <= Spare(j)'
  PROVE  BudgetInv'
<1>1. Cardinality(Enders) \in Nat /\ Cardinality(Enders') \in Nat
  BY FS_CardinalityType DEF BudgetInv
<1>2. \A j \in Jobs : Spare(j) \in Int
  BY SpareInt
<1> HIDE DEF Enders, Spare
<1>3. \A j \in Jobs : Cardinality(Enders') <= Spare(j)'
  BY <1>1, <1>2 DEF BudgetInv
<1>4. QED BY <1>3 DEF BudgetInv

\* One process moves on.
LEMMA OneEnder ==
  ASSUME Shape, BudgetInv, \A v \in Workers : MemoryFits(wk[v]),
         NEW w \in Workers, NEW m, wk' = [wk EXCEPT ![w] = m], MemoryFits(m)
  PROVE  /\ \A v \in Workers : MemoryFits(wk'[v])
         /\ IsFiniteSet(Enders') /\ Cardinality(Enders') <= Cardinality(Enders) + 1
         /\ (Ending(m) => Ending(wk[w])) => Cardinality(Enders') <= Cardinality(Enders)
         /\ Ending(wk[w]) /\ ~Ending(m) => Cardinality(Enders') <= Cardinality(Enders) - 1
<1>1. \A v \in Workers : wk'[v] = IF v = w THEN m ELSE wk[v]
  BY DEF Shape
<1>2. Enders' = IF Ending(m) THEN Enders \cup {w} ELSE Enders \ {w}
  BY <1>1 DEF Enders
<1>3. w \in Enders <=> Ending(wk[w])
  BY DEF Enders
<1>4. IsFiniteSet(Enders) /\ Cardinality(Enders) \in Nat
  BY FS_CardinalityType DEF BudgetInv
<1>5. /\ IsFiniteSet(Enders \cup {w}) /\ IsFiniteSet(Enders \ {w})
      /\ Cardinality(Enders \cup {w}) =
           IF w \in Enders THEN Cardinality(Enders) ELSE Cardinality(Enders) + 1
      /\ Cardinality(Enders \ {w}) =
           IF w \in Enders THEN Cardinality(Enders) - 1 ELSE Cardinality(Enders)
  BY <1>4, FS_AddElement, FS_RemoveElement
<1>6. \A v \in Workers : MemoryFits(wk'[v])
  BY <1>1
<1> HIDE DEF Enders, Ending
<1>7. CASE Ending(m)
  BY <1>2, <1>3, <1>4, <1>5, <1>6, <1>7
<1>8. CASE ~Ending(m)
  BY <1>2, <1>3, <1>4, <1>5, <1>6, <1>8
<1>9. QED BY <1>7, <1>8

LEMMA NoEnder == ASSUME BudgetInv, Fits, wk' = wk
                 PROVE  /\ \A v \in Workers : MemoryFits(wk'[v])
                        /\ IsFiniteSet(Enders') /\ Cardinality(Enders') <= Cardinality(Enders) + 0
<1>1. Enders' = Enders
  BY DEF Enders
<1>2. Cardinality(Enders) \in Nat
  BY FS_CardinalityType DEF BudgetInv
<1>3. QED BY <1>1, <1>2 DEF BudgetInv, Fits

\* Rows that keep what counts, while nothing else is used up but a shutdown.
LEMMA RowsKeep ==
  ASSUME Shape, Fits, NEW n \in {-1, 0, 1},
         \A j \in Jobs : /\ RowFits(job'[j])
                         /\ job'[j].attempts >= job[j].attempts + IF n = -1 THEN n ELSE 0,
         used'.claims = used.claims, used'.retries = used.retries,
         used'.ends = used.ends + IF n = 1 THEN 1 ELSE 0
  PROVE  \A j \in Jobs : Spare(j)' \in Int /\ Spare(j) + n <= Spare(j)'
<1> SUFFICES ASSUME NEW j \in Jobs PROVE Spare(j)' \in Int /\ Spare(j) + n <= Spare(j)'
  OBVIOUS
<1> DEFINE q == MaxAttempts * used.retries[j]
<1>1. /\ used.claims[j] \in Nat /\ used.ends \in Nat /\ job[j].attempts \in Nat /\ q \in Nat
  BY SpareInt, BoundAssumption, PolicyAssumption
<1>2. job'[j].attempts \in Nat
  BY PolicyAssumption DEF RowFits
<1>3. Spare(j) = q + job[j].attempts + used.ends - used.claims[j]
  BY DEF Spare
<1>4. Spare(j)' = q + job'[j].attempts + used'.ends - used.claims[j]
  BY DEF Spare
<1> HIDE DEF q
<1>5. QED BY <1>1, <1>2, <1>3, <1>4

LEMMA KeptFits ==
  ASSUME NEW a, NEW b, RowFits(a), RowKeeps(a, b)
  PROVE  RowFits(b) /\ b.attempts >= a.attempts + 0
BY PolicyAssumption DEF RowFits, RowKeeps

\* Recovery counts nothing.
LEMMA SweptKeeps == ASSUME Shape, NEW j \in Jobs PROVE RowKeeps(job[j], Swept(j))
<1>1. job[j] \in RowShape
  BY DEF Shape
<1>2. CASE job[j].state = "running" /\ ~job[j].live
  BY <1>1, <1>2 DEF Swept, Recovered, Free, RowShape, RowKeeps, Active
<1>3. CASE ~(job[j].state = "running" /\ ~job[j].live)
  BY <1>1, <1>3 DEF Swept, Recovered, Free, RowShape, RowKeeps, Active
<1>4. QED BY <1>2, <1>3

\* What a step has to show when no lease is given: rows, reports and memories
\* fit, and what it uses up is accounted for.
LEMMA QuietFits ==
  ASSUME Shape, Fits, BudgetInv, NEW n \in {-1, 0, 1},
         \A j \in Jobs : /\ RowFits(job'[j])
                         /\ job'[j].attempts >= job[j].attempts + IF n = -1 THEN n ELSE 0,
         \A j \in Jobs : reports'[j] \subseteq Tokens,
         \A v \in Workers : MemoryFits(wk'[v]),
         IsFiniteSet(Enders'), Cardinality(Enders') <= Cardinality(Enders) + n,
         basis'.version \in Versions, access' \subseteq Actors, used' \in Used,
         used'.claims = used.claims, used'.retries = used.retries,
         used'.ends = used.ends + IF n = 1 THEN 1 ELSE 0
  PROVE  Fits' /\ BudgetInv'
<1>1. Fits'
  BY DEF Fits
<1>2. \A j \in Jobs : Spare(j)' \in Int /\ Spare(j) + n <= Spare(j)'
  BY RowsKeep
<1>3. BudgetInv'
  BY <1>2, BudgetKept
<1>4. QED BY <1>1, <1>3

LEMMA UsedSame == ASSUME Fits, used' = used
                  PROVE  /\ used' \in Used /\ used'.claims = used.claims
                         /\ used'.retries = used.retries /\ used'.ends = used.ends + 0
BY BoundAssumption DEF Fits, Used

LEMMA RequestFits ==
  ASSUME Shape, Fits, BudgetInv, NEW j \in Jobs,
         Queue(j) \/ Cancel(j) \/ DeleteReport(j) \/ Lapse(j)
  PROVE  Fits' /\ BudgetInv'
<1>1. job[j] \in RowShape
  BY DEF Shape
<1>2. RowKeeps(job[j], job'[j])
  BY <1>1 DEF Shape, RowShape, Queue, Cancel, DeleteReport, Lapse, RowKeeps
<1>3. \A k \in Jobs \ {j} : job'[k] = job[k]
  BY DEF Shape, Queue, Cancel, DeleteReport, Lapse
<1>4. \A k \in Jobs : RowKeeps(job[k], job'[k])
  BY <1>2, <1>3 DEF RowKeeps
<1>5. \A k \in Jobs : RowFits(job'[k]) /\ job'[k].attempts >= job[k].attempts + 0
  BY <1>4, KeptFits DEF Fits
<1>6. \A k \in Jobs : reports'[k] \subseteq Tokens
  BY DEF Shape, Fits, Queue, Cancel, DeleteReport, Lapse
<1>7. wk' = wk /\ used' = used /\ basis' = basis /\ access' = access
  BY DEF Queue, Cancel, DeleteReport, Lapse
<1>8. QED BY <1>5, <1>6, <1>7, UsedSame, NoEnder, QuietFits DEF Fits

\* A retry gives the attempts back that it forgets.
LEMMA RetryFits ==
  ASSUME Shape, Fits, BudgetInv, NEW j \in Jobs, Retry(j)
  PROVE  Fits' /\ BudgetInv'
<1> DEFINE b == [BlankRow EXCEPT !.state = "queued", !.report = job[j].report]
           n == used.retries[j]
<1>1. /\ job' = [job EXCEPT ![j] = b] /\ used' = [used EXCEPT !.retries[j] = @ + 1]
      /\ n < MaxRetries /\ UNCHANGED <<reports, basis, access, wk>>
  BY DEF Retry
<1>2. b.attempts = 0 /\ RowFits(b)
  BY PolicyAssumption DEF BlankRow, RowFits
<1>3. n \in 0..MaxRetries /\ MaxRetries \in Nat
  BY SpareInt, BoundAssumption
<1>4. /\ used' \in Used /\ used'.claims = used.claims /\ used'.ends = used.ends
      /\ \A k \in Jobs : used'.retries[k] = IF k = j THEN n + 1 ELSE used.retries[k]
  BY <1>1, <1>3 DEF Fits, Used
<1> HIDE DEF b
<1>5. \A k \in Jobs : job'[k] = IF k = j THEN b ELSE job[k]
  BY <1>1 DEF Shape
<1>6. Fits'
  BY <1>1, <1>2, <1>4, <1>5, NoEnder DEF Fits
<1>7. ASSUME NEW k \in Jobs PROVE Spare(k)' \in Int /\ Spare(k) + 0 <= Spare(k)'
  <2> DEFINE q == MaxAttempts * used.retries[k]
             p == MaxAttempts * used'.retries[k]
  <2>1. /\ used.claims[k] \in Nat /\ used.ends \in Nat /\ q \in Nat
        /\ job[k].attempts \in 0..MaxAttempts /\ used.retries[k] \in Nat /\ MaxAttempts \in Nat
    BY SpareInt, BoundAssumption, PolicyAssumption
  <2>2. Spare(k) = q + job[k].attempts + used.ends - used.claims[k]
    BY DEF Spare
  <2>3. Spare(k)' = p + job'[k].attempts + used.ends - used.claims[k]
    BY <1>4 DEF Spare
  <2>4. CASE k # j
    <3>1. job'[k] = job[k] /\ p = q
      BY <1>4, <1>5, <2>4
    <3> HIDE DEF p, q
    <3>2. QED BY <2>1, <2>2, <2>3, <3>1
  <2>5. CASE k = j
    <3>1. job'[k].attempts = 0 /\ used'.retries[k] = used.retries[k] + 1
      BY <1>2, <1>4, <1>5, <2>5
    <3>2. p = q + MaxAttempts
      BY <2>1, <3>1
    <3> HIDE DEF p, q
    <3>3. QED BY <2>1, <2>2, <2>3, <3>1, <3>2
  <2>6. QED BY <2>4, <2>5
<1>8. QED BY <1>1, <1>6, <1>7, NoEnder, BudgetKept

LEMMA SweepFits == ASSUME Shape, Fits, BudgetInv, NEW w \in Workers, Sweep(w)
                   PROVE  Fits' /\ BudgetInv'
<1>1. \A j \in Jobs : job'[j] = Swept(j)
  BY DEF Sweep
<1>2. \A j \in Jobs : RowFits(job'[j]) /\ job'[j].attempts >= job[j].attempts + 0
  BY <1>1, SweptKeeps, KeptFits DEF Fits
<1>3. wk' = wk /\ used' = used /\ basis' = basis /\ access' = access /\ reports' = reports
  BY DEF Sweep
<1>4. QED BY <1>2, <1>3, UsedSame, NoEnder, QuietFits DEF Fits

\* A claim takes one more lease for one more attempt, so what is spare stays.
LEMMA ClaimFits ==
  ASSUME Shape, LeaseInv, Fits, BudgetInv, NEW w \in Workers, NEW j \in Jobs, Claim(w, j)
  PROVE  Fits' /\ BudgetInv'
<1> DEFINE c == used.claims[j] + 1
           r == Swept(j)
           b == [r EXCEPT !.state = "running", !.attempts = @ + 1, !.token = c, !.live = TRUE]
           m == [Idle EXCEPT !.pc = "claimed", !.job = j, !.token = c]
<1>1. /\ r.state = "queued" /\ wk[w].stop = "no" /\ wk' = [wk EXCEPT ![w] = m]
      /\ job' = [k \in Jobs |-> IF k = j THEN b ELSE Swept(k)]
      /\ used' = [used EXCEPT !.claims[j] = c] /\ UNCHANGED <<reports, basis, access>>
  BY DEF Claim
<1>2. r \in RowShape /\ r.attempts = job[j].attempts /\ RowFits(r)
  BY SweptRow, SweptKeeps, KeptFits DEF RowKeeps, Fits
<1>3. r.attempts + 1 \in 0..MaxAttempts
  <2>1. r.attempts < MaxAttempts
    BY <1>1, SweptHolds DEF RowHolds, Ready
  <2>2. QED BY <1>2, <2>1, PolicyAssumption DEF RowFits
<1>4. c \in Tokens
  <2> DEFINE q == MaxAttempts * used.retries[j]
             p == MaxAttempts * (MaxRetries + 1)
  <2>1. /\ used.claims[j] \in Nat /\ used.ends \in 0..MaxEnds /\ used.retries[j] \in 0..MaxRetries
        /\ job[j].attempts \in Nat /\ q \in Nat /\ MaxEnds \in Nat /\ MaxAttempts \in Nat
        /\ MaxRetries \in Nat
    BY SpareInt, BoundAssumption, PolicyAssumption
  <2>2. q + MaxAttempts <= p
    <3>1. PICK d \in Nat : MaxRetries = used.retries[j] + d
      <4>1. MaxRetries - used.retries[j] \in Nat
        BY <2>1
      <4>2. QED BY <2>1, <4>1
    <3>2. p = q + MaxAttempts * d + MaxAttempts
      BY <2>1, <3>1
    <3>3. MaxAttempts * d \in Nat /\ p \in Nat
      BY <2>1, <3>1
    <3> HIDE DEF p, q
    <3>4. QED BY <2>1, <3>2, <3>3
  <2>3. 0 <= Spare(j)
    <3>1. Cardinality(Enders) \in Nat /\ Cardinality(Enders) <= Spare(j) /\ Spare(j) \in Int
      BY SpareInt, FS_CardinalityType DEF BudgetInv
    <3> HIDE DEF Spare
    <3>2. QED BY <3>1
  <2>4. Spare(j) = q + job[j].attempts + used.ends - used.claims[j]
    BY DEF Spare
  <2>5. job[j].attempts + 1 <= MaxAttempts
    BY <1>2, <1>3, <2>1
  <2>6. p \in Nat
    BY <2>1
  <2> HIDE DEF p, q
  <2>7. c <= p + MaxEnds /\ 1 <= c
    BY <2>1, <2>2, <2>3, <2>4, <2>5, <2>6
  <2> HIDE DEF c
  <2>8. c \in Int
    BY <2>1 DEF c
  <2>9. QED BY <2>1, <2>6, <2>7, <2>8 DEF Tokens, p
<1>5. b.attempts = job[j].attempts + 1 /\ RowFits(b)
  <2> HIDE DEF r, c
  <2>1. b.attempts = r.attempts + 1 /\ b.token = c /\ b.print = r.print
    BY <1>2 DEF RowShape
  <2> HIDE DEF b
  <2>2. QED BY <1>2, <1>3, <1>4, <2>1 DEF RowFits
<1>6. MemoryFits(m) /\ ~Ending(m)
  <2> HIDE DEF c
  <2>1. m.token = c /\ m.print = None /\ m.pc = "claimed" /\ m.stop = "no"
    BY DEF Idle
  <2>2. QED BY <1>4, <2>1 DEF MemoryFits, Ending
<1>7. used' \in Used /\ used'.retries = used.retries /\ used'.ends = used.ends
      /\ \A k \in Jobs : used'.claims[k] = IF k = j THEN c ELSE used.claims[k]
  <2>1. c \in 0..(MaxAttempts * (MaxRetries + 1) + MaxEnds)
    BY <1>4, BoundAssumption, PolicyAssumption DEF Tokens
  <2> HIDE DEF c
  <2>2. QED BY <1>1, <2>1 DEF Fits, Used
<1>8. /\ job'[j] = b /\ \A k \in Jobs \ {j} : job'[k] = Swept(k)
  BY <1>1
<1> HIDE DEF b, m, r
<1>9. \A k \in Jobs \ {j} : RowFits(job'[k]) /\ job'[k].attempts = job[k].attempts
  BY <1>8, SweptKeeps, KeptFits DEF Fits, RowKeeps
<1>10. /\ \A v \in Workers : MemoryFits(wk'[v])
       /\ IsFiniteSet(Enders') /\ Cardinality(Enders') <= Cardinality(Enders)
  BY <1>1, <1>6, OneEnder DEF Fits
<1>11. Fits'
  BY <1>1, <1>5, <1>7, <1>8, <1>9, <1>10 DEF Fits
<1>12. ASSUME NEW k \in Jobs PROVE Spare(k)' \in Int /\ Spare(k) + 0 <= Spare(k)'
  <2> DEFINE q == MaxAttempts * used.retries[k]
  <2>1. /\ used.claims[k] \in Nat /\ used.ends \in Nat /\ q \in Nat /\ job[k].attempts \in Nat
    BY SpareInt, BoundAssumption, PolicyAssumption
  <2>2. Spare(k) = q + job[k].attempts + used.ends - used.claims[k]
    BY DEF Spare
  <2>3. Spare(k)' = q + job'[k].attempts + used.ends - used'.claims[k]
    BY <1>7 DEF Spare
  <2>4. \/ k = j /\ job'[k].attempts = job[k].attempts + 1 /\ used'.claims[k] = used.claims[k] + 1
        \/ job'[k].attempts = job[k].attempts /\ used'.claims[k] = used.claims[k]
    BY <1>5, <1>7, <1>8, <1>9
  <2> HIDE DEF q
  <2>5. QED BY <2>1, <2>2, <2>3, <2>4
<1>13. Cardinality(Enders) \in Nat
  BY FS_CardinalityType DEF BudgetInv
<1>14. Cardinality(Enders') <= Cardinality(Enders) + 0
  BY <1>10, <1>13
<1>15. QED BY <1>10, <1>11, <1>12, <1>14, BudgetKept

-----------------------------------------------------------------------------
(* The same for processes                                                  *)

LEMMA SameRows ==
  ASSUME Fits, job' = job
  PROVE  \A j \in Jobs : /\ RowFits(job'[j]) /\ job'[j].attempts >= job[j].attempts + 0
                         /\ job'[j].attempts >= job[j].attempts + -1
BY PolicyAssumption DEF Fits, RowFits

\* A process gives a claim back at the cost of one attempt.
LEMMA ReleaseFits ==
  ASSUME Shape, Fits, NEW w \in Workers, Release(w)
  PROVE  \A j \in Jobs : RowFits(job'[j]) /\ job'[j].attempts >= job[j].attempts + -1
<1>1. CASE ~Owned(w)
  BY <1>1, SameRows DEF Release
<1>2. CASE Owned(w)
  <2> DEFINE i == wk[w].job
             n == IF job[i].attempts = 0 THEN 0 ELSE job[i].attempts - 1
  <2>1. job' = [job EXCEPT ![i] = Released(job[i])]
    BY <1>2 DEF Release
  <2>2. ASSUME i \in Jobs
        PROVE  RowFits(Released(job[i])) /\ Released(job[i]).attempts >= job[i].attempts + -1
    <3>1. job[i] \in RowShape /\ RowFits(job[i])
      BY <2>2 DEF Shape, Fits
    <3>2. /\ Released(job[i]).attempts = n /\ Released(job[i]).token = None
          /\ Released(job[i]).print = None
      BY <3>1 DEF Released, Free, RowShape
    <3>3. n \in 0..MaxAttempts /\ n >= job[i].attempts + -1
      BY <3>1, PolicyAssumption DEF RowFits
    <3> HIDE DEF n
    <3>4. QED BY <3>2, <3>3 DEF RowFits
  <2> HIDE DEF i
  <2>3. ASSUME NEW j \in Jobs
        PROVE  RowFits(job'[j]) /\ job'[j].attempts >= job[j].attempts + -1
    <3>1. CASE j = i
      BY <2>1, <2>2, <3>1 DEF Shape
    <3>2. CASE j # i
      BY <2>1, <3>2, PolicyAssumption DEF Shape, Fits, RowFits
    <3>3. QED BY <3>1, <3>2
  <2>4. QED BY <2>3
<1>3. QED BY <1>1, <1>2

\* A process writes one row that keeps its attempts.
LEMMA WrittenFits ==
  ASSUME Shape, Fits, NEW i, NEW b, job' = [job EXCEPT ![i] = b],
         i \in Jobs => RowFits(b) /\ b.attempts = job[i].attempts
  PROVE  \A j \in Jobs : RowFits(job'[j]) /\ job'[j].attempts >= job[j].attempts + 0
<1> SUFFICES ASSUME NEW j \in Jobs
             PROVE  RowFits(job'[j]) /\ job'[j].attempts >= job[j].attempts + 0
  OBVIOUS
<1>1. CASE j = i
  BY <1>1, PolicyAssumption DEF Shape, Fits, RowFits
<1>2. CASE j # i
  BY <1>2, PolicyAssumption DEF Shape, Fits, RowFits
<1>3. QED BY <1>1, <1>2

\* A process that goes on in its attempt.
LEMMA OnwardFits ==
  ASSUME Shape, Fits, BudgetInv, NEW w \in Workers, NEW m, wk' = [wk EXCEPT ![w] = m],
         MemoryFits(m), Ending(m) => Ending(wk[w]),
         \A j \in Jobs : RowFits(job'[j]) /\ job'[j].attempts >= job[j].attempts + 0,
         \A j \in Jobs : reports'[j] \subseteq Tokens, basis' = basis, access' = access, used' = used
  PROVE  Fits' /\ BudgetInv'
<1>1. /\ \A v \in Workers : MemoryFits(wk'[v])
      /\ IsFiniteSet(Enders') /\ Cardinality(Enders') <= Cardinality(Enders)
  BY OneEnder DEF Fits
<1>2. Cardinality(Enders') <= Cardinality(Enders) + 0
  BY <1>1, FS_CardinalityType DEF BudgetInv
<1>3. QED BY <1>1, <1>2, UsedSame, QuietFits DEF Fits

\* A process that gives its claim back as it ends.
LEMMA EndingFits ==
  ASSUME Shape, Fits, BudgetInv, NEW w \in Workers, NEW m, wk' = [wk EXCEPT ![w] = m],
         MemoryFits(m), Ending(wk[w]), ~Ending(m), Release(w),
         reports' = reports, basis' = basis, access' = access, used' = used
  PROVE  Fits' /\ BudgetInv'
<1>1. /\ \A v \in Workers : MemoryFits(wk'[v])
      /\ IsFiniteSet(Enders') /\ Cardinality(Enders') <= Cardinality(Enders) - 1
  BY OneEnder DEF Fits
<1>2. Cardinality(Enders') <= Cardinality(Enders) + -1
  BY <1>1, FS_CardinalityType DEF BudgetInv
<1>3. QED BY <1>1, <1>2, ReleaseFits, UsedSame, QuietFits DEF Fits

LEMMA DropFits ==
  ASSUME Shape, NEW w \in Workers, Drop(w)
  PROVE  \E m : /\ wk' = [wk EXCEPT ![w] = m] /\ MemoryFits(m) /\ ~Ending(m)
<1> DEFINE m == [Idle EXCEPT !.stop = wk[w].stop]
<1>1. m.pc = "idle" /\ m.token = None /\ m.print = None
  BY DEF Idle
<1>2. wk' = [wk EXCEPT ![w] = m]
  BY DEF Drop
<1> HIDE DEF m
<1>3. MemoryFits(m) /\ ~Ending(m)
  BY <1>1 DEF MemoryFits, Ending, Busy, Early
<1>4. QED BY <1>2, <1>3

LEMMA GotoFits ==
  ASSUME Shape, Fits, NEW w \in Workers, wk[w].pc \in Busy,
         NEW pc \in {"started", "resolved", "compiling", "compiled", "saving", "failing"}, Goto(w, pc),
         wk[w].pc = "claimed" => wk[w].stop = "no"
  PROVE  \E m : wk' = [wk EXCEPT ![w] = m] /\ MemoryFits(m) /\ (Ending(m) => Ending(wk[w]))
<1> DEFINE m == [wk[w] EXCEPT !.pc = pc]
<1>1. wk' = [wk EXCEPT ![w] = m]
  BY DEF Goto, Shape
<1>2. m.pc = pc /\ m.token = wk[w].token /\ m.print = wk[w].print /\ m.stop = wk[w].stop
  BY DEF Shape, MemoryShape
<1> HIDE DEF m
<1>3. MemoryFits(m)
  BY <1>2 DEF Fits, MemoryFits
<1>4. Ending(m) => Ending(wk[w])
  BY <1>2 DEF Ending, Busy, Early
<1>5. QED BY <1>1, <1>3, <1>4

LEMMA ThreadFits ==
  ASSUME Shape, Fits, BudgetInv, NEW w \in Workers, Thread(w)
  PROVE  Fits' /\ BudgetInv'
<1>0. MemoryFits(wk[w]) /\ wk[w] \in MemoryShape
  BY DEF Shape, Fits
<1>1. CASE Register(w) /\ wk[w].stop = "no"
  <2>1. Goto(w, "started") /\ UNCHANGED <<job, reports, basis, access, used>>
        /\ wk[w].pc = "claimed"
    BY <1>1 DEF Register
  <2>2. PICK m : wk' = [wk EXCEPT ![w] = m] /\ MemoryFits(m) /\ (Ending(m) => Ending(wk[w]))
    BY <1>1, <2>1, GotoFits DEF Busy, Early
  <2>3. QED BY <2>1, <2>2, SameRows, OnwardFits DEF Fits
<1>2. CASE Register(w) /\ wk[w].stop # "no"
  <2>1. /\ Drop(w) /\ Release(w) /\ UNCHANGED <<reports, basis, access, used>>
        /\ Ending(wk[w])
    BY <1>2 DEF Register, Ending
  <2>2. PICK m : wk' = [wk EXCEPT ![w] = m] /\ MemoryFits(m) /\ ~Ending(m)
    BY <2>1, DropFits
  <2>3. QED BY <2>1, <2>2, EndingFits
<1>3. CASE Resolve(w)
  <2> DEFINE m == [wk[w] EXCEPT !.pc = "resolved", !.print = basis.version]
  <2>1. wk' = [wk EXCEPT ![w] = m] /\ UNCHANGED <<job, reports, basis, access, used>>
        /\ wk[w].pc = "started" /\ wk[w].stop = "no"
    BY <1>3 DEF Resolve, Cancelled, Shape
  <2>2. m.pc = "resolved" /\ m.print = basis.version /\ m.token = wk[w].token /\ m.stop = "no"
    BY <1>0, <2>1 DEF MemoryShape
  <2> HIDE DEF m
  <2>3. MemoryFits(m) /\ ~Ending(m)
    BY <1>0, <2>1, <2>2 DEF MemoryFits, Ending, Fits, Busy, Early
  <2>4. QED BY <2>1, <2>3, SameRows, OnwardFits DEF Fits
<1>4. CASE Record(w)
  <2> DEFINE i == wk[w].job
             b == [job[i] EXCEPT !.print = wk[w].print]
  <2>1. /\ job' = [job EXCEPT ![i] = b] /\ Goto(w, "compiling") /\ wk[w].pc = "resolved"
        /\ UNCHANGED <<reports, basis, access, used>>
    BY <1>4 DEF Record, Shape
  <2>2. ASSUME i \in Jobs PROVE RowFits(b) /\ b.attempts = job[i].attempts
    <3>1. job[i] \in RowShape /\ RowFits(job[i])
      BY <2>2 DEF Shape, Fits
    <3>2. b.attempts = job[i].attempts /\ b.token = job[i].token /\ b.print = wk[w].print
      BY <3>1 DEF RowShape
    <3>3. QED BY <1>0, <3>1, <3>2 DEF RowFits, MemoryFits
  <2> HIDE DEF b, i
  <2>3. PICK m : wk' = [wk EXCEPT ![w] = m] /\ MemoryFits(m) /\ (Ending(m) => Ending(wk[w]))
    BY <2>1, GotoFits DEF Busy, Early
  <2>4. \A j \in Jobs : RowFits(job'[j]) /\ job'[j].attempts >= job[j].attempts + 0
    BY <2>1, <2>2, WrittenFits
  <2>5. QED BY <2>1, <2>3, <2>4, OnwardFits DEF Fits
<1>5. CASE Compile(w) \/ Resnapshot(w)
  <2>1. /\ \E pc \in {"compiled", "saving"} : Goto(w, pc)
        /\ UNCHANGED <<job, reports, basis, access, used>>
        /\ wk[w].pc \in {"compiling", "compiled"}
    BY <1>5 DEF Compile, Resnapshot
  <2>2. PICK m : wk' = [wk EXCEPT ![w] = m] /\ MemoryFits(m) /\ (Ending(m) => Ending(wk[w]))
    BY <2>1, GotoFits DEF Busy, Early
  <2>3. QED BY <2>1, <2>2, SameRows, OnwardFits DEF Fits
<1>6. CASE Raise(w)
  <2>1. PICK why \in {"error", "stopped"} :
          wk' = [wk EXCEPT ![w].pc = "failing", ![w].why = why, ![w].print = None]
    BY <1>6 DEF Raise
  <2> DEFINE m == [wk[w] EXCEPT !.pc = "failing", !.why = why, !.print = None]
  <2>2. wk' = [wk EXCEPT ![w] = m]
    BY <2>1 DEF Shape
  <2>3. m.pc = "failing" /\ m.print = None /\ m.token = wk[w].token /\ m.stop = wk[w].stop
    BY <1>0 DEF MemoryShape
  <2> HIDE DEF m
  <2>4. wk[w].pc \in {"started", "resolved", "compiling", "compiled", "saving"}
    BY <1>6 DEF Raise
  <2>5. MemoryFits(m) /\ (Ending(m) => Ending(wk[w]))
    BY <1>0, <2>3, <2>4 DEF MemoryFits, Ending, Busy, Early
  <2>6. UNCHANGED <<job, reports, basis, access, used>>
    BY <1>6 DEF Raise
  <2>7. QED BY <2>2, <2>5, <2>6, SameRows, OnwardFits DEF Fits
<1>7. CASE Complete(w) \/ Fail(w)
  <2> DEFINE i == wk[w].job
             a == [Free(job[i]) EXCEPT !.state = "succeeded", !.report = TRUE]
             f == [Free(job[i]) EXCEPT !.state = IF job[i].cancel THEN "cancelled" ELSE "failed"]
  <2>1. \/ job' = [job EXCEPT ![i] = a]
        \/ job' = [job EXCEPT ![i] = f]
        \/ job' = job
    BY <1>7 DEF Complete, Fail
  <2>2. /\ Drop(w) /\ UNCHANGED <<basis, access, used>>
        /\ \/ reports' = reports
           \/ wk[w].pc = "saving" /\ reports' = [reports EXCEPT ![i] = @ \cup {wk[w].token}]
    BY <1>7 DEF Complete, Fail
  <2>3. ASSUME NEW b \in {a, f}, i \in Jobs PROVE RowFits(b) /\ b.attempts = job[i].attempts
    <3>1. job[i] \in RowShape /\ RowFits(job[i])
      BY <2>3 DEF Shape, Fits
    <3>2. /\ Free(job[i]) \in RowShape /\ Free(job[i]).attempts = job[i].attempts
          /\ Free(job[i]).token = None /\ Free(job[i]).print = job[i].print
      BY <3>1, FreeFields
    <3>3. b.attempts = job[i].attempts /\ b.token = None /\ b.print = job[i].print
      BY <2>3, <3>2 DEF RowShape
    <3>4. QED BY <3>1, <3>3 DEF RowFits
  <2> HIDE DEF a, f, i
  <2>4. \A j \in Jobs : RowFits(job'[j]) /\ job'[j].attempts >= job[j].attempts + 0
    BY <2>1, <2>3, WrittenFits, SameRows
  <2>5. \A j \in Jobs : reports'[j] \subseteq Tokens
    <3>1. wk[w].pc = "saving" => wk[w].token \in Tokens
      BY <1>0 DEF MemoryFits, Busy
    <3>2. QED BY <2>2, <3>1 DEF Shape, Fits
  <2>6. PICK m : wk' = [wk EXCEPT ![w] = m] /\ MemoryFits(m) /\ ~Ending(m)
    BY <2>2, DropFits
  <2>7. QED BY <2>2, <2>4, <2>5, <2>6, OnwardFits
<1>8. QED BY <1>1, <1>2, <1>3, <1>4, <1>5, <1>6, <1>7 DEF Thread

\* A shutdown costs an end and may give back one claim; a crash costs one and
\* gives back none.
LEMMA ProcessFits ==
  ASSUME Shape, Fits, BudgetInv, NEW w \in Workers,
         ReleaseActive(w) \/ Start(w) \/ Exit(w) \/ Stop(w) \/ Crash(w)
  PROVE  Fits' /\ BudgetInv'
<1>0. MemoryFits(wk[w]) /\ wk[w] \in MemoryShape
  BY DEF Shape, Fits
<1>1. ASSUME NEW s \in {"asked", "done"}, wk[w].pc # "dead"
      PROVE  /\ MemoryFits([wk[w] EXCEPT !.stop = s])
             /\ [wk[w] EXCEPT !.stop = s].stop = s /\ [wk[w] EXCEPT !.stop = s].pc = wk[w].pc
  BY <1>0, <1>1 DEF MemoryFits, MemoryShape
<1>2. \A m \in {Idle, Dead} : MemoryFits(m) /\ ~Ending(m)
  BY DEF MemoryFits, Ending, Idle, Dead, Busy, Early
<1>3. ASSUME NEW m, wk' = [wk EXCEPT ![w] = m], MemoryFits(m),
             UNCHANGED <<job, reports, basis, access>>, used' = [used EXCEPT !.ends = @ + 1],
             used.ends < MaxEnds
      PROVE  Fits' /\ BudgetInv'
  <2>1. /\ \A v \in Workers : MemoryFits(wk'[v])
        /\ IsFiniteSet(Enders') /\ Cardinality(Enders') <= Cardinality(Enders) + 1
    BY <1>3, OneEnder DEF Fits
  <2>2. /\ used' \in Used /\ used'.claims = used.claims /\ used'.retries = used.retries
        /\ used'.ends = used.ends + 1
    BY <1>3, BoundAssumption DEF Fits, Used
  <2>3. QED BY <1>3, <2>1, <2>2, SameRows, QuietFits DEF Fits
<1>4. CASE ReleaseActive(w)
  <2> DEFINE m == [wk[w] EXCEPT !.stop = "done"]
  <2>1. /\ wk' = [wk EXCEPT ![w] = m] /\ UNCHANGED <<reports, basis, access, used>>
        /\ wk[w].stop = "asked"
        /\ IF wk[w].pc \in {"idle", "claimed"} THEN job' = job ELSE Release(w)
    BY <1>4 DEF ReleaseActive, Shape
  <2>2. wk[w].pc # "dead"
    BY <1>0, <2>1 DEF MemoryFits
  <2>3. MemoryFits(m) /\ m.stop = "done" /\ m.pc = wk[w].pc
    BY <1>1, <2>2
  <2> HIDE DEF m
  <2>4. CASE wk[w].pc \in {"idle", "claimed"}
    <3>1. Ending(m) => Ending(wk[w])
      BY <2>1, <2>3, <2>4 DEF Ending
    <3>2. QED BY <2>1, <2>3, <2>4, <3>1, SameRows, OnwardFits DEF Fits
  <2>5. CASE wk[w].pc \notin {"idle", "claimed"}
    <3>1. Ending(wk[w]) /\ ~Ending(m)
      BY <2>1, <2>2, <2>3, <2>5 DEF Ending
    <3>2. QED BY <2>1, <2>3, <2>5, <3>1, EndingFits
  <2>6. QED BY <2>4, <2>5
<1>5. CASE Stop(w)
  <2>1. wk' = [wk EXCEPT ![w] = [wk[w] EXCEPT !.stop = "asked"]]
    BY <1>5 DEF Stop, Shape
  <2>2. QED BY <1>1, <1>3, <1>5, <2>1 DEF Stop
<1>6. CASE Crash(w)
  BY <1>2, <1>3, <1>6 DEF Crash
<1>7. CASE Start(w) \/ Exit(w)
  <2>1. PICK m \in {Idle, Dead} : wk' = [wk EXCEPT ![w] = m]
    BY <1>7 DEF Start, Exit
  <2>2. UNCHANGED <<job, reports, basis, access, used>>
    BY <1>7 DEF Start, Exit
  <2>3. QED BY <1>2, <2>1, <2>2, SameRows, OnwardFits DEF Fits
<1>8. QED BY <1>4, <1>5, <1>6, <1>7

LEMMA FitsStep == ASSUME IInv, LeaseInv, Fits, BudgetInv, [Next]_vars PROVE Fits' /\ BudgetInv'
<1> USE DEF IInv
<1>1. CASE \E j \in Jobs : Queue(j) \/ Cancel(j) \/ Retry(j) \/ DeleteReport(j) \/ Lapse(j)
  BY <1>1, RequestFits, RetryFits
<1>2. CASE \E w \in Workers : Thread(w)
  BY <1>2, ThreadFits
<1>3. CASE \E w \in Workers : Poll(w)
  BY <1>3, SweepFits, ClaimFits DEF Poll
<1>4. CASE \E w \in Workers : Close(w) \/ Start(w) \/ Stop(w) \/ Crash(w)
  BY <1>4, ProcessFits DEF Close
<1>5. CASE (\E p \in Workers : Edit(p)) \/ (\E a \in Actors : ChangeAccess(a)) \/ UNCHANGED vars
  <2>1. job' = job /\ wk' = wk /\ used' = used /\ reports' = reports
    BY <1>5 DEF Edit, ChangeAccess, vars
  <2>2. basis'.version \in Versions
    BY <1>5, BoundAssumption DEF Fits, Edit, ChangeAccess, vars, Versions
  <2>3. access' \subseteq Actors
    BY <1>5 DEF Fits, Edit, ChangeAccess, vars
  <2>4. QED BY <2>1, <2>2, <2>3, SameRows, UsedSame, NoEnder, QuietFits DEF Fits
<1>6. QED BY <1>1, <1>2, <1>3, <1>4, <1>5 DEF Next

LEMMA FitsInit == Init => Fits /\ BudgetInv
<1> SUFFICES ASSUME Init PROVE Fits /\ BudgetInv
  OBVIOUS
<1>1. \A j \in Jobs : job[j] = BlankRow /\ reports[j] = {}
  BY DEF Init
<1>2. RowFits(BlankRow) /\ BlankRow.attempts = 0
  BY PolicyAssumption DEF RowFits, BlankRow
<1>3. MemoryFits(Dead) /\ ~Ending(Dead)
  BY DEF MemoryFits, Ending, Idle, Dead, Busy, Early
<1>4. \A w \in Workers : wk[w] = Dead
  BY DEF Init
<1>5. basis.version \in Versions /\ access \subseteq Actors
  BY BoundAssumption DEF Init, Versions
<1>6. used = [claims |-> [j \in Jobs |-> 0], retries |-> [j \in Jobs |-> 0], ends |-> 0]
  BY DEF Init
<1>7. used \in Used
  <2>1. MaxAttempts * (MaxRetries + 1) + MaxEnds \in Nat
    BY PolicyAssumption, BoundAssumption
  <2>2. QED BY <1>6, <2>1, BoundAssumption DEF Used
<1>8. Fits
  BY <1>1, <1>2, <1>3, <1>4, <1>5, <1>7 DEF Fits
<1>9. Enders = {}
  BY <1>3, <1>4 DEF Enders
<1>10. \A j \in Jobs : Spare(j) = 0
  BY <1>1, <1>2, <1>6, PolicyAssumption DEF Spare
<1>11. BudgetInv
  BY <1>9, <1>10, FS_EmptySet DEF BudgetInv
<1>12. QED BY <1>8, <1>11

\* Rows, reports, memories and counters have their types in every state; in
\* particular a compilation is claimed no more often than its attempts, retries
\* and the shutdowns that gave a claim back allow.
THEOREM Typing == Spec => []TypeOK
<1>1. ASSUME Shape, Fits PROVE TypeOK
  <2>1. \A j \in Jobs : job[j] \in Row
    BY <1>1 DEF Shape, Fits, RowShape, RowFits, Row, States
  <2>2. \A w \in Workers : wk[w] \in Memory
    BY <1>1 DEF Shape, Fits, MemoryShape, MemoryFits, Memory
  <2>3. reports \in [Jobs -> SUBSET Tokens]
    BY <1>1 DEF Shape, Fits
  <2>4. job \in [Jobs -> Row] /\ wk \in [Workers -> Memory]
    BY <1>1, <2>1, <2>2 DEF Shape
  <2>5. basis \in [version : Versions, by : Workers \cup {None}]
    BY <1>1 DEF Shape, Fits
  <2>6. QED BY <1>1, <2>3, <2>4, <2>5 DEF Fits, TypeOK
<1>2. IInv /\ Fits => TypeOK
  BY <1>1 DEF IInv
<1>3. QED BY <1>2, FitsInit, FitsStep, LeaseInit, LeaseStep, Invariant, PTL DEF Spec

-----------------------------------------------------------------------------
(* What is saved                                                           *)

\* A report that is about to be saved is of the work as it is, or another process
\* changed that work: this one keeps its own edits back.
SaveInv == \A w \in Workers : wk[w].pc = "saving" => wk[w].print = basis.version \/ basis.by # w

LEMMA SaveStep == ASSUME IInv, SaveInv, [Next]_vars PROVE SaveInv'
<1> SUFFICES ASSUME NEW w \in Workers, wk'[w].pc = "saving"
             PROVE  wk'[w].print = basis'.version \/ basis'.by # w
  BY DEF SaveInv
<1> USE DEF IInv
<1>1. CASE wk' = wk /\ basis' = basis
  BY <1>1 DEF SaveInv
<1>2. CASE \E p \in Workers : Edit(p)
  BY <1>2 DEF Edit
<1>3. CASE basis' = basis /\ wk'[w] = wk[w]
  BY <1>3 DEF SaveInv
<1>4. CASE Resnapshot(w)
  <2>1. wk'[w].print = wk[w].print
    BY <1>4 DEF Shape, MemoryShape, Resnapshot, Goto
  <2>2. QED BY <1>4, <2>1 DEF Resnapshot, Current
<1>5. CASE Stop(w) \/ ReleaseActive(w)
  <2>1. PICK s : wk' = [wk EXCEPT ![w].stop = s]
    BY <1>5 DEF ReleaseActive, Stop
  <2>2. wk'[w].pc = wk[w].pc /\ wk'[w].print = wk[w].print
    BY <2>1 DEF Shape, MemoryShape
  <2>3. basis' = basis
    BY <1>5 DEF ReleaseActive, Stop
  <2>4. QED BY <2>2, <2>3 DEF SaveInv
<1>6. CASE Register(w) \/ Resolve(w) \/ Record(w) \/ Compile(w) \/ Complete(w) \/ Raise(w)
           \/ Fail(w) \/ Start(w) \/ Exit(w) \/ Crash(w) \/ \E j \in Jobs : Claim(w, j)
  <2>1. CASE Register(w) \/ Complete(w) \/ Fail(w)
    <3>1. Drop(w) => wk'[w].pc = "idle"
      BY DEF Shape, Drop, Idle
    <3>2. Goto(w, "started") => wk'[w].pc = "started"
      BY DEF Shape, MemoryShape, Goto
    <3>3. QED BY <2>1, <3>1, <3>2 DEF Register, Complete, Fail
  <2>2. CASE Record(w) \/ Compile(w)
    BY <2>2 DEF Shape, MemoryShape, Record, Compile, Goto
  <2>3. CASE Resolve(w)
    BY <2>3 DEF Shape, MemoryShape, Resolve
  <2>4. CASE Raise(w)
    BY <2>4 DEF Shape, MemoryShape, Raise
  <2>5. CASE Start(w) \/ Exit(w) \/ Crash(w)
    BY <2>5 DEF Shape, Start, Exit, Crash, Idle, Dead
  <2>6. CASE \E j \in Jobs : Claim(w, j)
    BY <2>6 DEF Shape, Claim, Idle
  <2>7. QED BY <1>6, <2>1, <2>2, <2>3, <2>4, <2>5, <2>6
<1>7. CASE \E v \in Workers \ {w} :
             Thread(v) \/ Poll(v) \/ Close(v) \/ Start(v) \/ Stop(v) \/ Crash(v)
  <2>1. PICK v \in Workers \ {w} :
          Thread(v) \/ Poll(v) \/ Close(v) \/ Start(v) \/ Stop(v) \/ Crash(v)
    BY <1>7
  <2>2. basis' = basis
    BY <2>1 DEF Thread, Poll, Close, Start, Stop, Crash, Register, Resolve, Record, Compile,
       Resnapshot, Complete, Raise, Fail, Sweep, Claim, ReleaseActive, Exit
  <2>3. wk'[w] = wk[w]
    BY <2>1 DEF Shape, Thread, Poll, Close, Start, Stop, Crash, Register, Resolve, Record, Compile,
       Resnapshot, Complete, Raise, Fail, Sweep, Claim, ReleaseActive, Exit, Goto, Drop
  <2>4. QED BY <1>3, <2>2, <2>3
<1>8. CASE Sweep(w)
  BY <1>1, <1>8 DEF Sweep
<1>9. CASE \E j \in Jobs : Queue(j) \/ Cancel(j) \/ Retry(j) \/ DeleteReport(j) \/ Lapse(j)
  BY <1>1, <1>9 DEF Queue, Cancel, Retry, DeleteReport, Lapse
<1>10. CASE (\E a \in Actors : ChangeAccess(a)) \/ UNCHANGED vars
  BY <1>1, <1>10 DEF ChangeAccess, vars
<1>11. QED BY <1>2, <1>4, <1>5, <1>6, <1>7, <1>8, <1>9, <1>10 DEF Next, Thread, Poll, Close

\* A report is of the selected work as it is when it is saved, unless another
\* process changed that work.
THEOREM SavedIsCurrent == Spec => SavedReportIsCurrent
<1>1. Init => SaveInv
  BY DEF Init, SaveInv, Dead, Idle
<1>2. SaveInv => [\A w \in Workers :
                    wk[w].pc = "saving" /\ reports' # reports /\ wk'[w] # wk[w] =>
                      wk[w].print = basis.version \/ basis.by # w]_vars
  BY DEF SaveInv
<1>3. QED BY <1>1, <1>2, SaveStep, Invariant, PTL DEF Spec, SavedReportIsCurrent

-----------------------------------------------------------------------------
(* The refinement                                                          *)

\* The steps DurableRequest allows a request.
Promised(a, b) == \/ b = a
                  \/ Durable!Admit(a, b) \/ Durable!AskToStop(a, b) \/ Durable!Answer(a, b)
                  \/ Durable!End(a, b) \/ Durable!Discard(a, b) \/ Durable!Reopen(a, b)

\* Seen, as an operator on rows.
Status(r) == CASE r.state = "none"      -> "none"
               [] r.state \in Active    -> "open"
               [] r.state = "succeeded" -> "answered"
               [] OTHER                 -> "ended"

View(r) == [state |-> Status(r), stop |-> r.state \in Active /\ r.cancel, answer |-> r.report]

\* What a row looks like from outside, by the fields that decide it.
LEMMA ViewOf ==
  ASSUME NEW r \in RowShape, NEW s \in BOOLEAN, NEW n \in BOOLEAN,
         s <=> r.state \in Active /\ r.cancel,
         n <=> r.report
  PROVE  View(r) = [state |-> Status(r), stop |-> s, answer |-> n]
<1>1. (r.state \in Active /\ r.cancel) = s
  OBVIOUS
<1>2. r.report = n
  <2>1. r.report \in BOOLEAN
    BY DEF RowShape
  <2>2. QED BY <2>1
<1>3. QED BY <1>1, <1>2 DEF View

LEMMA ViewShape == ASSUME NEW r \in RowShape PROVE View(r) \in Durable!Request
<1>1. Status(r) \in {"none", "open", "answered", "ended"}
  BY DEF Status
<1>2. r.report \in BOOLEAN /\ (r.state \in Active /\ r.cancel) \in BOOLEAN
  BY DEF RowShape
<1>3. QED BY <1>1, <1>2 DEF View, Durable!Request

\* A request without an answer that nobody wants to end.
LEMMA Unanswered ==
  ASSUME NEW v \in Durable!Request, ~v.stop, ~v.answer
  PROVE  v = [Durable!Fresh EXCEPT !.state = v.state]
<1> DEFINE f == [Durable!Fresh EXCEPT !.state = v.state]
<1>1. f \in Durable!Request
  BY DEF Durable!Request, Durable!Fresh
<1>2. f.state = v.state /\ f.stop = v.stop /\ f.answer = v.answer
  BY DEF Durable!Request, Durable!Fresh
<1>3. QED BY <1>1, <1>2 DEF Durable!Request

\* A move, seen from outside, is a step of DurableRequest or none.
LEMMA MovePromised ==
  ASSUME NEW a \in RowShape, NEW b \in RowShape, NEW R, NEW S, NEW ok \in BOOLEAN,
         Consistent(a, R), Move(a, b, R, S, ok)
  PROVE  Promised(View(a), View(b))
<1>1. CASE b = a
  BY <1>1 DEF Promised
<1>2. CASE Continues(a, b)
  <2>1. Status(a) = "open" /\ Status(b) = "open"
    BY <1>2 DEF Continues, Status, Active
  <2>2. /\ b.report = a.report /\ b.cancel = a.cancel
        /\ a.state \in Active /\ b.state \in Active
    BY <1>2 DEF Continues
  <2>3. View(a) = View(b)
    BY <2>1, <2>2 DEF View
  <2>4. QED BY <2>3 DEF Promised
<1>3. CASE AskedFor(a, b)
  <2>1. /\ a.state = "none" /\ ~a.cancel /\ ~a.report
        /\ b.state = "queued" /\ ~b.cancel /\ ~b.report
    BY <1>3 DEF AskedFor, Consistent, RowShape
  <2>2. /\ View(a) = [state |-> Status(a), stop |-> FALSE, answer |-> FALSE]
        /\ View(b) = [state |-> Status(b), stop |-> FALSE, answer |-> FALSE]
    BY <2>1, ViewOf
  <2>3. Status(a) = "none" /\ Status(b) = "open"
    BY <2>1 DEF Status, Active
  <2>4. Durable!Admit(View(a), View(b))
    BY <2>2, <2>3 DEF Durable!Admit, Durable!Fresh
  <2>5. QED BY <2>4 DEF Promised
<1>4. CASE Stopping(a, b)
  <2>1. /\ a.state = "running" /\ ~a.report
        /\ b.state = "running" /\ b.cancel /\ ~b.report
    BY <1>4 DEF Stopping, Consistent, RowShape
  <2>2. PICK s \in BOOLEAN : s <=> a.cancel
    OBVIOUS
  <2>3. /\ View(a) = [state |-> Status(a), stop |-> s, answer |-> FALSE]
        /\ View(b) = [state |-> Status(b), stop |-> TRUE, answer |-> FALSE]
    BY <2>1, <2>2, ViewOf DEF Active
  <2>4. Status(a) = "open" /\ Status(b) = "open"
    BY <2>1 DEF Status, Active
  <2>5. Durable!AskToStop(View(a), View(b))
    <3>1. View(a).state = "open" /\ View(b) = [View(a) EXCEPT !.stop = TRUE]
      <4>1. /\ View(a).state = "open" /\ View(b).state = View(a).state
            /\ View(b).stop = TRUE /\ View(b).answer = View(a).answer
        BY <2>3, <2>4
      <4>2. QED BY <4>1, ViewShape DEF Durable!Request
    <3>2. QED BY <3>1 DEF Durable!AskToStop
  <2>6. QED BY <2>5 DEF Promised
<1>5. CASE Ends(a, b, ok)
  <2>1. ~a.report /\ ~b.report /\ a.state \in Active /\ b.state \in {"failed", "cancelled"}
    BY <1>5 DEF Ends, Consistent, Active
  <2>2. View(b) = [state |-> Status(b), stop |-> FALSE, answer |-> FALSE]
    BY <2>1, ViewOf DEF Active
  <2>3. Status(a) = "open" /\ Status(b) = "ended"
    BY <2>1 DEF Status, Active
  <2>4. Durable!End(View(a), View(b))
    <3>1. View(a).state = "open" /\ View(b) = [Durable!Fresh EXCEPT !.state = "ended"]
      <4>1. /\ View(a).state = "open" /\ View(b).state = "ended"
            /\ ~View(b).stop /\ ~View(b).answer
        BY <2>2, <2>3 DEF View
      <4>2. View(b) \in Durable!Request
        BY ViewShape
      <4>3. QED BY <4>1, <4>2, Unanswered
    <3>2. QED BY <3>1 DEF Durable!End
  <2>5. QED BY <2>4 DEF Promised
<1>6. CASE Succeeds(a, b)
  <2>1. /\ a.state = "running" /\ ~a.cancel /\ ~a.report
        /\ b.state = "succeeded" /\ b.report
    BY <1>6 DEF Succeeds, Consistent
  <2>2. /\ View(a) = [state |-> Status(a), stop |-> FALSE, answer |-> FALSE]
        /\ View(b) = [state |-> Status(b), stop |-> FALSE, answer |-> TRUE]
    BY <2>1, ViewOf DEF Active
  <2>3. Status(a) = "open" /\ Status(b) = "answered"
    BY <2>1 DEF Status, Active
  <2>4. Durable!Answer(View(a), View(b))
    <3>1. /\ View(a).state = "open" /\ ~View(a).stop
          /\ View(b) = [View(a) EXCEPT !.state = "answered", !.answer = TRUE]
      <4>1. /\ View(a).state = "open" /\ ~View(a).stop
            /\ View(b).state = "answered" /\ View(b).stop = View(a).stop
            /\ View(b).answer = TRUE
        BY <2>2, <2>3
      <4>2. QED BY <4>1, ViewShape DEF Durable!Request
    <3>2. QED BY <3>1 DEF Durable!Answer
  <2>5. QED BY <2>4 DEF Promised
<1>7. CASE Reopens(a, b)
  <2>1. /\ a.state \in {"failed", "cancelled", "succeeded"} /\ ~a.report
        /\ b.state = "queued" /\ ~b.cancel /\ ~b.report
    BY <1>7 DEF Reopens, Over, Consistent
  <2>2. /\ View(a) = [state |-> Status(a), stop |-> FALSE, answer |-> FALSE]
        /\ View(b) = [state |-> Status(b), stop |-> FALSE, answer |-> FALSE]
    BY <2>1, ViewOf DEF Active
  <2>3. Status(a) \in {"ended", "answered"} /\ Status(b) = "open"
    BY <2>1 DEF Status, Active
  <2>4. Durable!Reopen(View(a), View(b))
    BY <2>2, <2>3 DEF Durable!Reopen, Durable!Fresh
  <2>5. QED BY <2>4 DEF Promised
<1>8. CASE Forgets(a, b)
  <2>1. CASE ~a.report
    <3>1. b = a
      BY <1>8, <2>1 DEF Forgets, RowShape
    <3>2. QED BY <3>1 DEF Promised
  <2>2. CASE a.report
    <3>1. a.state = "succeeded" /\ b.state = "succeeded" /\ ~b.report
      BY <1>8, <2>2 DEF Forgets, RowShape, Consistent
    <3>2. /\ View(a) = [state |-> Status(a), stop |-> FALSE, answer |-> TRUE]
          /\ View(b) = [state |-> Status(b), stop |-> FALSE, answer |-> FALSE]
      BY <2>2, <3>1, ViewOf DEF Active
    <3>3. Status(a) = "answered" /\ Status(b) = "answered"
      BY <3>1 DEF Status, Active
    <3>4. Durable!Discard(View(a), View(b))
      <4>1. View(a).state = "answered" /\ View(b) = [View(a) EXCEPT !.answer = FALSE]
        <5>1. /\ View(a).state = "answered" /\ View(b).state = View(a).state
              /\ View(b).stop = View(a).stop /\ View(b).answer = FALSE
          BY <3>2, <3>3
        <5>2. QED BY <5>1, ViewShape DEF Durable!Request
      <4>2. QED BY <4>1 DEF Durable!Discard
    <3>5. QED BY <3>4 DEF Promised
  <2>3. QED BY <2>1, <2>2
<1>9. QED BY <1>1, <1>2, <1>3, <1>4, <1>5, <1>6, <1>7, <1>8 DEF Move

\* Every step of the queue is, for each request, a step that DurableRequest allows
\* or none at all.
THEOREM Refinement == Spec => KeepsPromise
<1>1. \A j \in Jobs : Seen(j) = View(job[j])
  BY DEF Seen, View, Status
<1>2. Init => Durable!Init
  <2>1. View(BlankRow) = [Durable!Fresh EXCEPT !.state = "none"]
    <3>1. /\ BlankRow \in RowShape /\ BlankRow.state = "none"
          /\ ~BlankRow.cancel /\ ~BlankRow.report
      BY DEF BlankRow, RowShape, States, Active
    <3>2. View(BlankRow) = [state |-> Status(BlankRow), stop |-> FALSE, answer |-> FALSE]
      BY <3>1, ViewOf DEF Active
    <3>3. Status(BlankRow) = "none"
      BY <3>1 DEF Status, Active
    <3>4. /\ View(BlankRow).state = "none"
          /\ ~View(BlankRow).stop /\ ~View(BlankRow).answer
      BY <3>2, <3>3
    <3>5. View(BlankRow) \in Durable!Request
      BY <3>1, ViewShape
    <3>6. QED BY <3>4, <3>5, Unanswered
  <2>2. QED BY <1>1, <2>1 DEF Init, Durable!Init
<1>3. ASSUME IInv, [Next]_vars
      PROVE  [Durable!Next]_([j \in Jobs |-> Seen(j)])
  <2>1. IInv' /\ Moves
    BY <1>3, InvStep
  <2>2. ASSUME NEW j \in Jobs PROVE Promised(View(job[j]), View(job'[j]))
    <3>1. /\ job[j] \in RowShape /\ job'[j] \in RowShape /\ Access(j) \in BOOLEAN
          /\ Consistent(job[j], reports[j])
          /\ Move(job[j], job'[j], reports[j], reports'[j], Access(j))
      BY <1>3, <2>1 DEF IInv, Shape, ReportInv, Moves, Access
    <3>2. QED BY <3>1, MovePromised
  <2>3. \A j \in Jobs : Seen(j)' = View(job'[j])
    BY DEF Seen, View, Status
  <2>4. Durable!Next
    BY <1>1, <2>2, <2>3 DEF Durable!Next, Promised
  <2>5. QED BY <2>4
<1>4. QED BY <1>2, <1>3, Invariant, PTL DEF Spec, KeepsPromise, Durable!Spec
=============================================================================
