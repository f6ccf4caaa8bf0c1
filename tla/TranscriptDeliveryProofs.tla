----------------------- MODULE TranscriptDeliveryProofs -----------------------
(***************************************************************************)
(* Theorems of TranscriptDelivery, for any number of recordings, any       *)
(* threads and links, and any allotments of edits, retries, failures and   *)
(* restarts.                                                               *)
(***************************************************************************)
EXTENDS TranscriptDelivery, WellFoundedInduction, TLAPS

-----------------------------------------------------------------------------
(* The inductive invariant                                                 *)

\* The recordings that had a machine result once.
Done == {j \in Jobs : job[j].state \notin {"queued", "running", "failed"}}

\* The revisions that the files of a recording can never fall behind again,
\* unless they are gone: no reader, writer or file holds an older one.
Kept == [j \in Jobs |-> {x \in 0..MaxRevision :
            /\ x <= job[j].rev
            /\ saved[j] # 0 => x <= saved[j]
            /\ \A e \in Editors : ed[e].pc = "write" /\ ed[e].job = j => x <= ed[e].rev
            /\ \A s \in Servers :
                  srv[s].pc = "write" /\ Min(srv[s].todo) = j => x <= srv[s].rev}]

\* The histories that whatever is packed in the output of j is not behind.
Vouched == [j \in Jobs |-> {f \in [Jobs -> 0..MaxRevision] :
            /\ \A k \in Jobs : f[k] \in Kept[k]
            /\ archive[j] # None =>
                  \A k \in DOMAIN archive[j].holds : f[k] <= archive[j].holds[k]}]

\* A recording without a result has no revision; the batch is deleted as one.
RowsOK ==
    /\ \A j \in Jobs \ Done : job[j].rev = 0
    /\ \A j \in Jobs : job[j].state = "queued" => job[j].attempt < MaxAttempts
    /\ made \subseteq Done
    /\ \A j, k \in Jobs : Live(j) <=> Live(k)

\* Files and archives show what the rows held, and archives what their tag says.
FilesOK ==
    /\ \A j \in Jobs : saved[j] \in Kept[j]
    /\ \A j \in Jobs : archive[j] # None =>
          /\ DOMAIN archive[j].tag = DOMAIN archive[j].holds
          /\ \A k \in DOMAIN archive[j].holds :
                /\ archive[j].tag[k] <= archive[j].holds[k]
                /\ archive[j].holds[k] <= job[k].rev

\* Who writes the files of a recording holds its lock.
LocksOK ==
    /\ \A e \in Editors : ed[e].pc # "idle" => ed[e].job \in Done
    /\ \A e \in Editors : ed[e].pc = "write" =>
          flock[ed[e].job] = e /\ ed[e].rev <= job[ed[e].job].rev
    /\ \A s \in Servers : srv[s].pc = "write" =>
          /\ Min(srv[s].todo) \in Done
          /\ flock[Min(srv[s].todo)] = s
          /\ srv[s].rev <= job[Min(srv[s].todo)].rev

\* A signed link can only deliver what was reviewed when it was asked for, and
\* no link is signed twice.
LinksOK ==
    /\ \A l \in Links : link[l] # None =>
          IF link[l].batch THEN link[l].floor \in Vouched[link[l].anchor]
          ELSE link[l].floor[link[l].anchor] \in Kept[link[l].anchor]
    /\ \A s, t \in Servers :
          srv[s].pc # "idle" /\ srv[s].goal = "issue" /\ s # t => srv[t].link # srv[s].link

\* The history a thread brings the files up to: of the moment the link was
\* asked for, or of the snapshot before the delivery.
Aim(r) == IF r.goal = "issue" THEN r.floor ELSE [k \in Jobs |-> r.snap[k].rev]

\* The thread refreshes or packs.
Building(r) == \/ r.goal = "issue" /\ r.pc \in {"wait", "refresh", "write", "pack", "built"}
               \/ r.goal = "deliver" /\ r.batch /\ r.pc \in {"refresh", "write", "pack", "built"}

BuildOK(r, K, V, J) ==
    /\ r.set # {}
    /\ r.goal = "deliver" => r.snap \in [Jobs -> Job]
    /\ \A k \in Jobs : Aim(r)[k] <= J[k].rev
    /\ \A k \in r.set \ r.todo : Aim(r)[k] \in K[k]
    /\ r.batch => \A k \in Jobs \ r.set : Aim(r)[k] = 0
    /\ ~r.batch => \E j \in Jobs : r.set = {j}
    /\ r.pc = "write" => Aim(r)[Min(r.todo)] <= r.rev
    /\ r.pc = "pack" => /\ r.todo = {} /\ DOMAIN r.plan = r.set
                        /\ \A k \in r.set : r.plan[k] \in K[k]
    /\ r.pc = "built" => Aim(r) \in V[Min(r.set)]

Delivering == {"ready", "purge", "files", "rows"}
Streamed   == {"purge", "files", "rows"}

\* What a delivery holds in memory.
DeliverOK(r, V, L, J) ==
    /\ r.goal = "deliver" => r.batch = L[r.link].batch /\ r.floor = L[r.link].floor
    /\ r.pc \in Delivering => r.goal = "deliver"
    /\ r.pc = "before" => r.goal = "deliver" /\ r.batch
    /\ r.pc \in {"wait", "pack"} => r.batch
    /\ r.goal = "deliver" /\ r.pc \in {"refresh", "write"} => r.batch
    /\ r.batch /\ r.pc \in {"ready", "purge"} => r.snap \in [Jobs -> Job]
    /\ r.batch /\ r.pc = "ready" => Aim(r) \in V[L[r.link].anchor]
    /\ r.batch /\ r.pc = "purge" =>
          \A k \in DOMAIN r.got : Aim(r)[k] <= r.got[k] /\ r.got[k] <= J[k].rev
    /\ r.pc \notin Streamed => r.got = <<>>
    /\ \A k \in DOMAIN r.got : r.floor[k] <= r.got[k]

Good(r, K, V, L, J) ==
    /\ r.pc = "idle" => r = Waiting
    /\ r.pc # "idle" => r.link \in Links /\ (r.goal = "issue" <=> L[r.link] = None)
    /\ DeliverOK(r, V, L, J)
    /\ Building(r) => BuildOK(r, K, V, J)

ServersOK == \A s \in Servers : Good(srv[s], Kept, Vouched, link, job)

IInv == TypeOK /\ RowsOK /\ FilesOK /\ LocksOK /\ LinksOK /\ ServersOK

-----------------------------------------------------------------------------
(* Records                                                                 *)

\* The first recording of a set is one of it.
LEMMA LeastIn ==
    ASSUME NEW S \in SUBSET Jobs, S # {}
    PROVE  Min(S) \in S
<1>1. S \subseteq Nat
  BY DeliveryAssumption DEF Jobs
<1>2. PICK m \in S : \A k \in S : <<k, m>> \notin OpToRel(<, Nat)
  BY <1>1, WFMin, NatLessThanWellFounded, Zenon
<1>3. \A k \in S : ~(k < m)
  BY <1>1, <1>2, Zenon DEF OpToRel
<1>4. \A k \in S : m =< k
  BY <1>1, <1>3
<1>5. QED BY <1>4 DEF Min

LEMMA LeastOne == ASSUME NEW j \in Jobs PROVE Min({j}) = j
BY LeastIn

LEMMA ContentFits ==
    ASSUME NEW c \in Content
    PROVE  DOMAIN c \subseteq Jobs /\ \A k \in DOMAIN c : c[k] \in 0..MaxRevision
BY DEF Content

LEMMA FilesFit ==
    ASSUME TypeOK, NEW S \in SUBSET Jobs
    PROVE  Files(S) \in Content
<1>1. Files(S) \in [S -> 0..MaxRevision]
  BY DEF Files, TypeOK
<1>2. QED BY <1>1 DEF Content

LEMMA WaitingFits == Waiting \in Server /\ Unsent \in [Jobs -> 0..MaxRevision]
<1>1. <<>> \in [{} -> 0..MaxRevision]
  OBVIOUS
<1>2. <<>> \in Content
  BY <1>1 DEF Content
<1>3. 0 \in 0..MaxRevision
  BY DeliveryAssumption
<1>4. Unsent \in [Jobs -> 0..MaxRevision]
  BY <1>3 DEF Unsent
<1>5. QED BY <1>2, <1>3, <1>4 DEF Waiting, Server

\* A thread that serves nothing promises nothing.
LEMMA WaitingGood ==
    ASSUME NEW K, NEW V, NEW L, NEW J
    PROVE  Good(Waiting, K, V, L, J)
BY DEF Good, DeliverOK, Building, Delivering, Streamed, Waiting

LEMMA SpendFits ==
    ASSUME TypeOK, NEW e \in {"links", "edits", "retries", "failures", "restarts"}, Spend(e)
    PROVE  left' \in [Events -> Nat]
BY DeliveryAssumption DEF TypeOK, Spend

-----------------------------------------------------------------------------
(* What no step takes back                                                 *)

Grows == \A k \in Jobs : /\ job[k].rev <= job'[k].rev
                         /\ Kept[k] \subseteq Kept'[k]
                         /\ Vouched[k] \subseteq Vouched'[k]

\* A thread keeps its link and what it does with it, or serves nothing.
SameLink(a, b) == \/ b = Waiting
                  \/ a.pc # "idle" /\ b.link = a.link /\ b.goal = a.goal

\* What a thread has in memory stays good as revisions and files move on.
LEMMA GoodStays ==
    ASSUME NEW r \in Server, NEW K, NEW V, NEW L, NEW J \in [Jobs -> Job],
           NEW Kn, NEW Vn, NEW Ln, NEW Jn \in [Jobs -> Job],
           L \in [Links -> Link \cup {None}],
           Good(r, K, V, L, J),
           \A k \in Jobs : J[k].rev <= Jn[k].rev /\ K[k] \subseteq Kn[k] /\ V[k] \subseteq Vn[k],
           r.pc # "idle" => Ln[r.link] = L[r.link]
    PROVE  Good(r, Kn, Vn, Ln, Jn)
<1>1. CASE r.pc = "idle"
  BY <1>1, WaitingGood DEF Good
<1>2. CASE r.pc # "idle"
  <2>1. r.set \subseteq Jobs /\ r.floor \in [Jobs -> 0..MaxRevision] /\ DOMAIN r.got \subseteq Jobs
        /\ (\A k \in DOMAIN r.got : r.got[k] \in 0..MaxRevision) /\ r.link \in Links
    BY <1>2, ContentFits DEF Server, Good
  <2>2. \A k \in Jobs : J[k].rev \in Nat /\ Jn[k].rev \in Nat
    BY DEF Job
  <2>3. r.goal = "issue" \/ r.snap \in [Jobs -> Job] => \A k \in Jobs : Aim(r)[k] \in Nat
    BY <2>1 DEF Aim, Job
  <2>4. Building(r) => BuildOK(r, Kn, Vn, Jn)
    <3> SUFFICES ASSUME Building(r) PROVE BuildOK(r, Kn, Vn, Jn)
      OBVIOUS
    <3>1. BuildOK(r, K, V, J)
      BY DEF Good
    <3>2. \A k \in Jobs : Aim(r)[k] <= Jn[k].rev
      BY <2>2, <2>3, <3>1 DEF BuildOK, Building
    <3>3. r.pc = "built" => Min(r.set) \in Jobs
      BY <2>1, <3>1, LeastIn DEF BuildOK
    <3>4. QED BY <2>1, <3>1, <3>2, <3>3 DEF BuildOK
  <2>5. r.batch /\ r.pc = "ready" => Aim(r) \in Vn[L[r.link].anchor]
    <3> SUFFICES ASSUME r.batch, r.pc = "ready" PROVE Aim(r) \in Vn[L[r.link].anchor]
      OBVIOUS
    <3>1. L[r.link] # None
      BY <1>2 DEF Good, DeliverOK, Delivering
    <3>2. L[r.link].anchor \in Jobs
      BY <2>1, <3>1 DEF Link
    <3>3. QED BY <3>2 DEF Good, DeliverOK
  <2>6. r.batch /\ r.pc = "purge" =>
          \A k \in DOMAIN r.got : Aim(r)[k] <= r.got[k] /\ r.got[k] <= Jn[k].rev
    BY <2>1, <2>2 DEF Good, DeliverOK
  <2> HIDE DEF Building, BuildOK
  <2>7. DeliverOK(r, Vn, Ln, Jn)
    BY <1>2, <2>5, <2>6 DEF Good, DeliverOK
  <2>8. QED BY <1>2, <2>4, <2>7 DEF Good
<1>3. QED BY <1>1, <1>2

\* Other threads and their links, when a step signs nothing.
LEMMA OthersStay ==
    ASSUME IInv, job' \in [Jobs -> Job], link' = link, Grows, srv' \in [Servers -> Server],
           \A t \in Servers : \/ srv'[t] = srv[t]
                              \/ /\ SameLink(srv[t], srv'[t])
                                 /\ Good(srv'[t], Kept', Vouched', link', job')
    PROVE  LinksOK' /\ ServersOK'
<1>1. ServersOK'
  <2> SUFFICES ASSUME NEW t \in Servers, srv'[t] = srv[t]
               PROVE  Good(srv'[t], Kept', Vouched', link', job')
    BY DEF ServersOK
  <2>1. Good(srv[t], Kept, Vouched, link, job) /\ srv[t] \in Server
    BY DEF IInv, ServersOK, TypeOK
  <2>2. QED BY <2>1, GoodStays DEF IInv, TypeOK, Grows
<1>2. ASSUME NEW l \in Links, link[l] # None
      PROVE  IF link[l].batch THEN link[l].floor \in Vouched'[link[l].anchor]
             ELSE link[l].floor[link[l].anchor] \in Kept'[link[l].anchor]
  <2>1. link[l].anchor \in Jobs
    BY <1>2 DEF IInv, TypeOK, Link
  <2>2. QED BY <1>2, <2>1 DEF IInv, LinksOK, Grows
<1>3. ASSUME NEW s \in Servers, NEW t \in Servers, s # t, srv'[s].pc # "idle",
             srv'[s].goal = "issue"
      PROVE  srv'[t].link # srv'[s].link
  <2>1. srv[s].pc # "idle" /\ srv[s].goal = "issue" /\ srv'[s].link = srv[s].link
    BY <1>3 DEF SameLink, Waiting
  <2>2. srv[s].link \in Links /\ srv[t].link # srv[s].link
    BY <1>3, <2>1 DEF IInv, ServersOK, Good, LinksOK
  <2>3. srv'[t].link \in {srv[t].link, None}
    BY DEF SameLink, Waiting
  <2>4. QED BY <2>1, <2>2, <2>3, DeliveryAssumption
<1>4. QED BY <1>1, <1>2, <1>3 DEF LinksOK

-----------------------------------------------------------------------------
(* Steps in the memory of one server                                       *)

\* Files, rows and who reads or writes them are as they were.
Still == UNCHANGED <<job, saved, made, archive, flock, ed>>

LEMMA StillKept ==
    ASSUME TypeOK, Still, NEW s \in Servers, NEW r, Go(s, r), srv[s].pc # "write", r.pc # "write"
    PROVE  Kept' = Kept /\ Vouched' = Vouched
<1>1. \A t \in Servers : /\ srv'[t].pc = "write" <=> srv[t].pc = "write"
                         /\ srv'[t].pc = "write" => srv'[t] = srv[t]
  BY DEF TypeOK, Go
<1>2. Kept' = Kept
  BY <1>1 DEF Kept, Still
<1>3. QED BY <1>2 DEF Vouched, Still

\* What holds of a server that takes such a step.
LEMMA StillHolds ==
    ASSUME IInv, Still, NEW s \in Servers, NEW r \in Server, Go(s, r),
           srv[s].pc # "write", r.pc # "write",
           link' \in [Links -> Link \cup {None}], batchLock' \in Servers \cup {None},
           used' \subseteq Links, left' \in [Events -> Nat], LinksOK', ServersOK'
    PROVE  IInv'
<1>1. srv' \in [Servers -> Server] /\ \A t \in Servers : srv'[t] = IF t = s THEN r ELSE srv[t]
  BY DEF IInv, TypeOK, Go
<1>2. TypeOK'
  BY <1>1 DEF IInv, TypeOK, Still
<1>3. Kept' = Kept
  BY StillKept DEF IInv
<1>4. RowsOK' /\ FilesOK'
  BY <1>3 DEF IInv, RowsOK, FilesOK, Still, Done, Live
<1>5. LocksOK'
  BY <1>1 DEF IInv, LocksOK, Still, Done
<1>6. QED BY <1>2, <1>4, <1>5 DEF IInv

\* No other thread is about to sign the link this one has, nor it theirs.
Apart(s, r) == \A t \in Servers \ {s} :
    /\ r.pc # "idle" /\ r.goal = "issue" => srv[t].link # r.link
    /\ srv[t].pc # "idle" /\ srv[t].goal = "issue" => r.link # srv[t].link

LEMMA SameApart ==
    ASSUME IInv, NEW s \in Servers, NEW r, SameLink(srv[s], r)
    PROVE  Apart(s, r)
BY DeliveryAssumption DEF IInv, ServersOK, Good, LinksOK, SameLink, Waiting, Apart

LEMMA Quiet ==
    ASSUME IInv, Still, NEW s \in Servers, NEW r \in Server, Go(s, r), link' = link,
           srv[s].pc # "write", r.pc # "write",
           batchLock' \in Servers \cup {None}, used' \subseteq Links,
           left' \in [Events -> Nat], Apart(s, r), Good(r, Kept, Vouched, link, job)
    PROVE  IInv'
<1>1. Kept' = Kept /\ Vouched' = Vouched
  BY StillKept DEF IInv
<1>2. srv' \in [Servers -> Server] /\ \A t \in Servers : srv'[t] = IF t = s THEN r ELSE srv[t]
  BY DEF IInv, TypeOK, Go
<1>3. ServersOK'
  BY <1>1, <1>2 DEF IInv, ServersOK, Still
<1>4. LinksOK'
  BY <1>1, <1>2 DEF IInv, LinksOK, Apart
<1>5. QED BY <1>3, <1>4, StillHolds DEF IInv, TypeOK

-----------------------------------------------------------------------------
(* Requests that sign links                                                *)

\* What a server record in the invariant looks like.
LEMMA ServerFits ==
    ASSUME IInv, NEW s \in Servers
    PROVE  /\ srv[s] \in Server /\ Good(srv[s], Kept, Vouched, link, job)
           /\ srv[s].set \subseteq Jobs /\ srv[s].todo \subseteq Jobs
           /\ srv[s].pc # "idle" => srv[s].link \in Links
BY DEF IInv, TypeOK, ServersOK, Good, Server

LEMMA RevisionsFit ==
    ASSUME IInv
    PROVE  /\ Revisions \in [Jobs -> 0..MaxRevision]
           /\ Succeeded \subseteq Jobs
           /\ \A k \in Jobs : Revisions[k] = job[k].rev
           /\ (\A j \in Jobs : Terminal(j)) /\ Succeeded # {} =>
                 \A k \in Jobs \ Succeeded : job[k].rev = 0
<1>1. \A k \in Jobs : job[k] \in Job
  BY DEF IInv, TypeOK
<1>2. Revisions \in [Jobs -> 0..MaxRevision]
  BY <1>1 DEF Revisions, Job
<1>3. ASSUME \A j \in Jobs : Terminal(j), Succeeded # {}, NEW k \in Jobs \ Succeeded
      PROVE  job[k].rev = 0
  <2>1. PICK j \in Jobs : job[j].state = "succeeded"
    BY <1>3 DEF Succeeded
  <2>2. Live(j) /\ Live(k)
    BY <2>1 DEF IInv, RowsOK, Live
  <2>3. job[k].state = "failed"
    BY <1>3, <2>2 DEF Terminal, Live, Succeeded
  <2>4. QED BY <2>3 DEF IInv, RowsOK, Done
<1>4. QED BY <1>2, <1>3 DEF Revisions, Succeeded

LEMMA AskHolds ==
    ASSUME IInv, NEW s \in Servers, NEW l \in Links, AskPackage(s, l) \/ AskArchive(s, l)
    PROVE  IInv'
<1>1. PICK set \in SUBSET Jobs, batch \in BOOLEAN :
        /\ Ask(s, l, set, batch) /\ set # {}
        /\ batch => \A k \in Jobs \ set : job[k].rev = 0
        /\ ~batch => \E j \in Jobs : set = {j}
  <2>1. CASE AskPackage(s, l)
    <3>1. PICK j \in Succeeded : Ask(s, l, {j}, FALSE)
      BY <2>1 DEF AskPackage
    <3>2. QED BY <3>1, RevisionsFit
  <2>2. CASE AskArchive(s, l)
    BY <2>2, RevisionsFit DEF AskArchive
  <2>3. QED BY <2>1, <2>2
<1> DEFINE r == [Waiting EXCEPT !.pc = IF batch THEN "wait" ELSE "refresh", !.link = l,
                                !.batch = batch, !.floor = Revisions,
                                !.todo = set, !.set = set]
<1>2. /\ r \in Server /\ r.pc = (IF batch THEN "wait" ELSE "refresh") /\ r.link = l
      /\ r.batch = batch /\ r.floor = Revisions /\ r.todo = set /\ r.set = set
      /\ r.goal = "issue" /\ r.got = <<>>
  BY RevisionsFit, WaitingFits DEF Server, Waiting
<1>3. Go(s, r) /\ Still /\ link' = link /\ batchLock' = batchLock /\ used' = used
      /\ Spend("links") /\ srv[s].pc = "idle" /\ link[l] = None
      /\ \A t \in Servers : srv[t].link # l
  BY <1>1 DEF Ask, Still
<1> HIDE DEF r
<1>4. Good(r, Kept, Vouched, link, job)
  <2>1. BuildOK(r, Kept, Vouched, job)
    BY <1>1, <1>2, RevisionsFit DEF BuildOK, Aim, IInv, TypeOK, Job
  <2>2. DeliverOK(r, Vouched, link, job)
    BY <1>2 DEF DeliverOK, Delivering, Streamed
  <2>3. QED BY <1>2, <1>3, <2>1, <2>2 DEF Good
<1>5. Apart(s, r)
  BY <1>2, <1>3 DEF Apart
<1>6. left' \in [Events -> Nat] /\ batchLock' \in Servers \cup {None} /\ used' \subseteq Links
  BY <1>3, SpendFits DEF IInv, TypeOK
<1>7. QED BY <1>2, <1>3, <1>4, <1>5, <1>6, Quiet

LEMMA TakeBatchLockHolds ==
    ASSUME IInv, NEW s \in Servers, TakeBatchLock(s)
    PROVE  IInv'
<1> DEFINE o == srv[s]
           r == [srv[s] EXCEPT !.pc = IF @ = "wait" /\ srv[s].goal = "issue" THEN "refresh"
                                      ELSE "before"]
<1>1. o \in Server /\ Good(o, Kept, Vouched, link, job) /\ o.pc = "wait" /\ o.link \in Links
  BY ServerFits DEF TakeBatchLock
<1>2. Go(s, r) /\ Still /\ link' = link /\ batchLock' = s /\ used' = used /\ left' = left
  BY DEF TakeBatchLock, Still
<1>3. /\ r \in Server /\ r.pc = (IF o.goal = "issue" THEN "refresh" ELSE "before")
      /\ r.link = o.link /\ r.goal = o.goal /\ r.batch = o.batch /\ r.floor = o.floor
      /\ r.todo = o.todo /\ r.set = o.set /\ r.snap = o.snap /\ r.got = o.got
      /\ o.goal \in {"issue", "deliver"}
  BY <1>1 DEF Server
<1> HIDE DEF r, o
<1>4. Good(r, Kept, Vouched, link, job)
  <2>1. Building(r) => BuildOK(r, Kept, Vouched, job)
    BY <1>1, <1>3 DEF Good, BuildOK, Building, Aim
  <2>2. DeliverOK(r, Vouched, link, job)
    BY <1>1, <1>3 DEF Good, DeliverOK, Delivering, Streamed
  <2>3. QED BY <1>1, <1>3, <2>1, <2>2 DEF Good
<1>5. Apart(s, r)
  BY <1>1, <1>3, SameApart DEF SameLink, o
<1>6. QED BY <1>1, <1>2, <1>3, <1>4, <1>5, Quiet DEF IInv, TypeOK, o

LEMMA BeforeHolds ==
    ASSUME IInv, NEW s \in Servers, Before(s)
    PROVE  IInv'
<1> DEFINE o == srv[s]
           r == [srv[s] EXCEPT !.pc = "refresh", !.snap = Snapshot,
                               !.todo = Succeeded, !.set = Succeeded]
<1>1. o \in Server /\ Good(o, Kept, Vouched, link, job) /\ o.pc = "before" /\ o.link \in Links
  BY ServerFits DEF Before
<1>2. /\ Go(s, r) /\ Still /\ link' = link /\ batchLock' = batchLock /\ used' = used
      /\ left' = left /\ Succeeded # {} /\ \A j \in Jobs : Terminal(j)
  BY DEF Before, Still
<1>3. job \in [Jobs -> Job]
  BY DEF IInv, TypeOK
<1>4. /\ r \in Server /\ r.pc = "refresh" /\ r.link = o.link /\ r.goal = o.goal
      /\ r.batch = o.batch /\ r.floor = o.floor /\ r.got = o.got
      /\ r.todo = Succeeded /\ r.set = Succeeded /\ r.snap = job
  BY <1>1, <1>3, RevisionsFit DEF Server, Snapshot
<1>5. o.goal = "deliver" /\ o.batch
  BY <1>1 DEF Good, DeliverOK
<1> HIDE DEF r, o
<1>6. Good(r, Kept, Vouched, link, job)
  <2>1. BuildOK(r, Kept, Vouched, job)
    BY <1>2, <1>3, <1>4, <1>5, RevisionsFit DEF BuildOK, Aim, Job
  <2>2. DeliverOK(r, Vouched, link, job)
    BY <1>1, <1>4, <1>5 DEF Good, DeliverOK, Delivering, Streamed
  <2>3. QED BY <1>1, <1>4, <2>1, <2>2 DEF Good
<1>7. Apart(s, r)
  BY <1>1, <1>4, SameApart DEF SameLink, o
<1>8. QED BY <1>1, <1>2, <1>4, <1>6, <1>7, Quiet DEF IInv, TypeOK, o

-----------------------------------------------------------------------------
(* The archive, the signature and the delivery                             *)

\* A thread that has refreshed all of its recordings brought them up to its aim.
LEMMA Refreshed ==
    ASSUME IInv, NEW s \in Servers, srv[s].todo = {}, srv[s].batch,
           srv[s].pc \in {"refresh", "pack"}
    PROVE  /\ srv[s].set \in SUBSET Jobs /\ srv[s].set # {}
           /\ Aim(srv[s]) \in [Jobs -> 0..MaxRevision]
           /\ \A k \in Jobs : Aim(srv[s])[k] \in Kept[k]
<1> DEFINE o == srv[s]
<1>1. o \in Server /\ Good(o, Kept, Vouched, link, job) /\ o.todo = {} /\ o.batch
      /\ o.pc \in {"refresh", "pack"} /\ o.set \subseteq Jobs
  BY ServerFits
<1>2. o.goal \in {"issue", "deliver"} /\ o.floor \in [Jobs -> 0..MaxRevision]
  BY <1>1 DEF Server
<1> HIDE DEF o
<1>3. BuildOK(o, Kept, Vouched, job)
  BY <1>1, <1>2 DEF Good, Building
<1>4. Aim(o) \in [Jobs -> 0..MaxRevision]
  BY <1>2, <1>3 DEF BuildOK, Aim, Job
<1>5. \A k \in Jobs \ o.set : Aim(o)[k] \in Kept[k]
  <2> SUFFICES ASSUME NEW k \in Jobs \ o.set PROVE 0 \in Kept[k]
    BY <1>1, <1>3 DEF BuildOK
  <2>1. job[k].rev \in Nat /\ saved[k] \in Nat
    BY DEF IInv, TypeOK, Job
  <2>2. /\ \A e \in Editors : ed[e].rev \in Nat
        /\ \A t \in Servers : srv[t].rev \in Nat
    BY DEF IInv, TypeOK, Editor, Server
  <2>3. 0 \in 0..MaxRevision
    BY DeliveryAssumption
  <2>4. QED BY <2>1, <2>2, <2>3 DEF Kept
<1>6. QED BY <1>1, <1>3, <1>4, <1>5 DEF BuildOK, o

LEMMA CollectHolds ==
    ASSUME IInv, NEW s \in Servers, Collect(s)
    PROVE  IInv'
<1> DEFINE o == srv[s]
           c == Cached(o.set)
           r == [srv[s] EXCEPT !.plan = Files(srv[s].set),
                               !.pc = IF Cached(srv[s].set) THEN "built" ELSE "pack"]
<1>1. /\ o \in Server /\ Good(o, Kept, Vouched, link, job) /\ o.pc = "refresh"
      /\ o.link \in Links /\ o.todo = {} /\ o.batch /\ o.set \subseteq Jobs
      /\ \A j \in o.set : saved[j] # 0
  BY ServerFits DEF Collect
<1>2. Go(s, r) /\ Still /\ link' = link /\ batchLock' = batchLock /\ used' = used /\ left' = left
  BY DEF Collect, Still
<1>3. Files(o.set) \in Content
  BY <1>1, FilesFit DEF IInv
<1>4. /\ r \in Server /\ r.pc = (IF c THEN "built" ELSE "pack") /\ r.link = o.link
      /\ r.goal = o.goal /\ r.batch = o.batch /\ r.floor = o.floor /\ r.todo = o.todo
      /\ r.set = o.set /\ r.snap = o.snap /\ r.got = o.got /\ r.plan = Files(o.set)
      /\ o.goal \in {"issue", "deliver"}
  BY <1>1, <1>3 DEF Server
<1>5. /\ o.set # {} /\ Aim(o) \in [Jobs -> 0..MaxRevision]
      /\ \A k \in Jobs : Aim(o)[k] \in Kept[k]
  BY <1>1, Refreshed
<1>6. Aim(r) = Aim(o)
  BY <1>4 DEF Aim
<1>7. ASSUME c PROVE Aim(o) \in Vouched[Min(o.set)]
  <2> DEFINE a == archive[Min(o.set)]
  <2>1. Min(o.set) \in Jobs
    BY <1>1, <1>5, LeastIn
  <2>2. a # None /\ a.tag = Files(o.set)
    BY <1>7 DEF Cached
  <2>3. DOMAIN a.tag = o.set /\ \A k \in o.set : a.tag[k] = saved[k]
    BY <2>2 DEF Files
  <2>4. /\ DOMAIN a.tag = DOMAIN a.holds
        /\ \A k \in DOMAIN a.holds : a.tag[k] <= a.holds[k]
    BY <2>1, <2>2 DEF IInv, FilesOK
  <2>5. a \in Archive
    BY <2>1, <2>2 DEF IInv, TypeOK
  <2>6. \A k \in DOMAIN a.holds : a.holds[k] \in 0..MaxRevision
    BY <2>5, ContentFits DEF Archive
  <2> HIDE DEF a
  <2>7. ASSUME NEW k \in DOMAIN a.holds PROVE Aim(o)[k] <= a.holds[k]
    <3>1. k \in Jobs /\ saved[k] # 0 /\ saved[k] <= a.holds[k]
      BY <1>1, <2>3, <2>4
    <3>2. Aim(o)[k] <= saved[k]
      BY <1>5, <3>1 DEF Kept
    <3>3. saved[k] \in Nat /\ Aim(o)[k] \in Nat /\ a.holds[k] \in Nat
      BY <1>5, <2>6, <3>1 DEF IInv, TypeOK
    <3>4. QED BY <3>1, <3>2, <3>3
  <2>8. QED BY <1>5, <2>1, <2>7 DEF Vouched, a
<1>8. \A k \in o.set : Files(o.set)[k] \in Kept[k]
  BY <1>1 DEF Files, IInv, FilesOK
<1>9. DOMAIN Files(o.set) = o.set
  BY DEF Files
<1> HIDE DEF r, o, c
<1>10. Good(r, Kept, Vouched, link, job)
  <2>1. BuildOK(o, Kept, Vouched, job)
    BY <1>1, <1>4 DEF Good, Building
  <2>2. BuildOK(r, Kept, Vouched, job)
    BY <1>1, <1>4, <1>6, <1>7, <1>8, <1>9, <2>1 DEF BuildOK
  <2>3. DeliverOK(r, Vouched, link, job)
    BY <1>1, <1>4 DEF Good, DeliverOK, Delivering, Streamed
  <2>4. QED BY <1>1, <1>4, <2>2, <2>3 DEF Good
<1>11. Apart(s, r)
  BY <1>1, <1>4, SameApart DEF SameLink, o
<1>12. QED BY <1>1, <1>2, <1>4, <1>10, <1>11, Quiet DEF IInv, TypeOK, o

LEMMA DeliverHolds ==
    ASSUME IInv, NEW s \in Servers, NEW l \in Links, Deliver(s, l)
    PROVE  IInv'
<1> DEFINE r == [Waiting EXCEPT !.link = l, !.goal = "deliver", !.batch = link[l].batch,
                                !.floor = link[l].floor,
                                !.pc = IF link[l].batch THEN "wait" ELSE "built"]
<1>1. link[l] # None /\ link[l] \in Link
  BY DEF Deliver, IInv, TypeOK
<1>2. /\ r \in Server /\ r.pc = (IF link[l].batch THEN "wait" ELSE "built") /\ r.link = l
      /\ r.goal = "deliver" /\ r.batch = link[l].batch /\ r.floor = link[l].floor
      /\ r.got = <<>>
  BY <1>1, WaitingFits DEF Server, Waiting, Link
<1>3. /\ Go(s, r) /\ Still /\ link' = link /\ batchLock' = batchLock /\ used' = used
      /\ left' = left /\ srv[s].pc = "idle"
  BY DEF Deliver, Still
<1> HIDE DEF r
<1>4. Good(r, Kept, Vouched, link, job)
  BY <1>1, <1>2 DEF Good, Building, DeliverOK, Delivering, Streamed
<1>5. Apart(s, r)
  BY <1>1, <1>2 DEF Apart, IInv, ServersOK, Good
<1>6. QED BY <1>2, <1>3, <1>4, <1>5, Quiet DEF IInv, TypeOK

LEMMA AgainHolds ==
    ASSUME IInv, NEW s \in Servers, Again(s)
    PROVE  IInv'
<1> DEFINE o == srv[s]
           r == [srv[s] EXCEPT !.pc = "before"]
<1>1. /\ o \in Server /\ Good(o, Kept, Vouched, link, job) /\ o.pc = "built"
      /\ o.link \in Links /\ o.goal = "deliver" /\ o.batch
  BY ServerFits DEF Again
<1>2. Go(s, r) /\ Still /\ link' = link /\ batchLock' = batchLock /\ used' = used /\ left' = left
  BY DEF Again, Still
<1>3. /\ r \in Server /\ r.pc = "before" /\ r.link = o.link /\ r.goal = o.goal
      /\ r.batch = o.batch /\ r.floor = o.floor /\ r.got = o.got
  BY <1>1 DEF Server
<1> HIDE DEF r, o
<1>4. Good(r, Kept, Vouched, link, job)
  BY <1>1, <1>3 DEF Good, Building, DeliverOK, Delivering, Streamed
<1>5. Apart(s, r)
  BY <1>1, <1>3, SameApart DEF SameLink, o
<1>6. QED BY <1>1, <1>2, <1>3, <1>4, <1>5, Quiet DEF IInv, TypeOK, o

LEMMA ConsumeHolds ==
    ASSUME IInv, NEW s \in Servers, Consume(s)
    PROVE  IInv'
<1> DEFINE o == srv[s]
           r == [srv[s] EXCEPT !.pc = "ready", !.snap = Snapshot]
<1>1. /\ o \in Server /\ Good(o, Kept, Vouched, link, job) /\ o.pc = "built"
      /\ o.link \in Links /\ o.goal = "deliver"
      /\ o.batch => o.snap = job /\ Min(o.set) = link[o.link].anchor
  BY ServerFits DEF Consume, Settled, Snapshot
<1>2. /\ Go(s, r) /\ Still /\ link' = link /\ left' = left
      /\ batchLock' \in {None, batchLock} /\ used' = used \cup {o.link}
  BY DEF Consume, Still, FreeBatchLock
<1>3. job \in [Jobs -> Job]
  BY DEF IInv, TypeOK
<1>4. /\ r \in Server /\ r.pc = "ready" /\ r.link = o.link /\ r.goal = o.goal
      /\ r.batch = o.batch /\ r.floor = o.floor /\ r.got = o.got /\ r.snap = job
  BY <1>1, <1>3 DEF Server, Snapshot
<1> HIDE DEF r, o
<1>5. o.batch => Aim(r) = Aim(o)
  BY <1>1, <1>4 DEF Aim
<1>6. o.batch => Aim(o) \in Vouched[link[o.link].anchor]
  BY <1>1 DEF Good, Building, BuildOK
<1>7. Good(r, Kept, Vouched, link, job)
  <2>1. DeliverOK(r, Vouched, link, job)
    BY <1>1, <1>3, <1>4, <1>5, <1>6 DEF Good, DeliverOK, Delivering, Streamed
  <2>2. QED BY <1>1, <1>4, <2>1 DEF Good, Building
<1>8. Apart(s, r)
  BY <1>1, <1>4, SameApart DEF SameLink, o
<1>9. QED BY <1>1, <1>2, <1>4, <1>7, <1>8, Quiet DEF IInv, TypeOK, o

LEMMA StreamHolds ==
    ASSUME IInv, NEW s \in Servers, Stream(s)
    PROVE  IInv'
<1> DEFINE o == srv[s]
           j == link[o.link].anchor
           c == IF o.batch THEN archive[j].holds ELSE Files({j})
           r == [srv[s] EXCEPT !.pc = "purge", !.got = c]
<1>1. /\ o \in Server /\ Good(o, Kept, Vouched, link, job) /\ o.pc = "ready"
      /\ o.link \in Links
      /\ IF o.batch THEN archive[j] # None ELSE saved[j] # 0
  BY ServerFits DEF Stream
<1>2. /\ Go(s, r) /\ Still /\ link' = link /\ left' = left /\ batchLock' = batchLock
      /\ used' = used
  BY DEF Stream, Still
<1>3. /\ o.goal = "deliver" /\ o.floor = link[o.link].floor /\ o.batch = link[o.link].batch
      /\ link[o.link] # None /\ link[o.link] \in Link /\ j \in Jobs
  BY <1>1 DEF Good, DeliverOK, Delivering, IInv, TypeOK, Link
<1>4. c \in Content
  <2>1. CASE o.batch
    BY <1>1, <1>3, <2>1 DEF IInv, TypeOK, Archive
  <2>2. CASE ~o.batch
    BY <1>3, <2>2, FilesFit DEF IInv
  <2>3. QED BY <2>1, <2>2
<1>5. /\ r \in Server /\ r.pc = "purge" /\ r.link = o.link /\ r.goal = o.goal
      /\ r.batch = o.batch /\ r.floor = o.floor /\ r.got = c /\ r.snap = o.snap
  BY <1>1, <1>4 DEF Server
<1>6. \A k \in DOMAIN c : o.floor[k] <= c[k]
  <2>1. CASE o.batch
    <3>1. o.floor \in Vouched[j]
      BY <1>1, <1>3, <2>1 DEF IInv, LinksOK
    <3>2. QED BY <1>1, <1>3, <2>1, <3>1 DEF Vouched
  <2>2. CASE ~o.batch
    <3>1. o.floor[j] \in Kept[j]
      BY <1>1, <1>3, <2>2 DEF IInv, LinksOK
    <3>2. DOMAIN c = {j} /\ c[j] = saved[j]
      BY <2>2 DEF Files
    <3>3. QED BY <1>1, <1>3, <2>2, <3>1, <3>2 DEF Kept
  <2>3. QED BY <2>1, <2>2
<1>7. o.batch => /\ o.snap \in [Jobs -> Job]
                 /\ \A k \in DOMAIN c : Aim(o)[k] <= c[k] /\ c[k] <= job[k].rev
  <2> SUFFICES ASSUME o.batch
               PROVE  /\ o.snap \in [Jobs -> Job]
                      /\ \A k \in DOMAIN c : Aim(o)[k] <= c[k] /\ c[k] <= job[k].rev
    OBVIOUS
  <2>1. o.snap \in [Jobs -> Job] /\ Aim(o) \in Vouched[j]
    BY <1>1 DEF Good, DeliverOK
  <2>2. \A k \in DOMAIN c : Aim(o)[k] <= c[k]
    BY <1>1, <1>3, <2>1 DEF Vouched
  <2>3. \A k \in DOMAIN c : c[k] <= job[k].rev
    BY <1>1, <1>3 DEF IInv, FilesOK
  <2>4. QED BY <2>1, <2>2, <2>3
<1>8. Aim(r) = Aim(o)
  BY <1>5 DEF Aim
<1> HIDE DEF r, o, j, c
<1>9. Good(r, Kept, Vouched, link, job)
  <2>1. DeliverOK(r, Vouched, link, job)
    BY <1>1, <1>3, <1>5, <1>6, <1>7, <1>8 DEF Good, DeliverOK, Delivering, Streamed
  <2>2. QED BY <1>1, <1>5, <2>1 DEF Good, Building
<1>10. Apart(s, r)
  BY <1>1, <1>5, SameApart DEF SameLink, o
<1>11. QED BY <1>1, <1>2, <1>5, <1>9, <1>10, Quiet DEF IInv, TypeOK, o

LEMMA IssueHolds ==
    ASSUME IInv, NEW s \in Servers, Issue(s)
    PROVE  IInv'
<1> DEFINE o == srv[s]
           k == [anchor |-> Min(o.set), batch |-> o.batch, floor |-> o.floor]
<1>1. /\ o \in Server /\ Good(o, Kept, Vouched, link, job) /\ o.link \in Links
      /\ o.goal = "issue" /\ o.set \subseteq Jobs /\ o.pc \in {"built", "refresh"}
      /\ o.pc = "built" <=> o.batch
      /\ o.pc = "refresh" => o.todo = {}
  BY ServerFits DEF Issue
<1>2. /\ Go(s, Waiting) /\ Still /\ link' = [link EXCEPT ![o.link] = k] /\ left' = left
      /\ batchLock' \in {None, batchLock} /\ used' = used
  BY DEF Issue, Still, FreeBatchLock
<1>3. BuildOK(o, Kept, Vouched, job)
  BY <1>1 DEF Good, Building
<1>4. Min(o.set) \in Jobs /\ Min(o.set) \in o.set
  BY <1>1, <1>3, LeastIn DEF BuildOK
<1>5. k \in Link
  BY <1>1, <1>4 DEF Link, Server
<1>6. IF k.batch THEN k.floor \in Vouched[k.anchor] ELSE k.floor[k.anchor] \in Kept[k.anchor]
  BY <1>1, <1>3, <1>4 DEF BuildOK, Aim
<1>7. Kept' = Kept /\ Vouched' = Vouched
  BY <1>1, <1>2, StillKept DEF IInv, Waiting
<1>8. Waiting \in Server /\ Waiting.pc = "idle" /\ Waiting.link = None
  BY WaitingFits DEF Waiting
<1>9. \A t \in Servers : srv'[t] = IF t = s THEN Waiting ELSE srv[t]
  BY <1>2 DEF IInv, TypeOK, Go
<1> HIDE DEF o, k
<1>10. /\ link' \in [Links -> Link \cup {None}]
       /\ \A l \in Links : link'[l] = IF l = o.link THEN k ELSE link[l]
  BY <1>1, <1>2, <1>5 DEF IInv, TypeOK
<1>11. LinksOK'
  <2>1. \A l \in Links : link'[l] # None =>
          IF link'[l].batch THEN link'[l].floor \in Vouched'[link'[l].anchor]
          ELSE link'[l].floor[link'[l].anchor] \in Kept'[link'[l].anchor]
    BY <1>6, <1>7, <1>10 DEF IInv, LinksOK
  <2>2. \A t, u \in Servers :
          srv'[t].pc # "idle" /\ srv'[t].goal = "issue" /\ t # u => srv'[u].link # srv'[t].link
    BY <1>8, <1>9, DeliveryAssumption DEF IInv, LinksOK, ServersOK, Good
  <2>3. QED BY <2>1, <2>2 DEF LinksOK
<1>12. ServersOK'
  <2> SUFFICES ASSUME NEW t \in Servers PROVE Good(srv'[t], Kept', Vouched', link', job')
    BY DEF ServersOK
  <2>1. CASE t = s
    BY <1>9, <2>1, WaitingGood
  <2>2. CASE t # s
    <3>1. srv'[t] = srv[t] /\ srv[t] \in Server /\ Good(srv[t], Kept, Vouched, link, job)
      BY <1>9, <2>2, ServerFits
    <3>2. srv[t].link # o.link
      BY <1>1, <2>2 DEF IInv, LinksOK, Good, o
    <3>3. srv[t].pc # "idle" => link'[srv[t].link] = link[srv[t].link]
      BY <1>10, <3>1, <3>2 DEF Good
    <3>4. job' = job /\ job \in [Jobs -> Job] /\ link \in [Links -> Link \cup {None}]
      BY <1>2 DEF IInv, TypeOK, Still
    <3>5. \A x \in Jobs : job[x].rev <= job'[x].rev
      BY <3>4 DEF Job
    <3>6. QED BY <1>7, <3>1, <3>3, <3>4, <3>5, GoodStays
  <2>3. QED BY <2>1, <2>2
<1>13. QED BY <1>1, <1>2, <1>8, <1>10, <1>11, <1>12, StillHolds DEF IInv, TypeOK, o

-----------------------------------------------------------------------------
(* Steps on rows, files and locks                                          *)


\* Files that are kept or removed, rows that move on, and writers that read.
LEMMA FilesGrow ==
    ASSUME TypeOK, TypeOK',
           \A k \in Jobs : /\ job[k].rev <= job'[k].rev
                           /\ saved'[k] \in {saved[k], 0}
                           /\ archive'[k] \in {archive[k], None},
           \A e \in Editors : ed'[e].pc = "write" =>
               ed'[e] = ed[e] \/ ed'[e].rev = job[ed'[e].job].rev,
           \A s \in Servers : srv'[s].pc = "write" =>
               srv'[s] = srv[s] \/ srv'[s].rev = job[Min(srv'[s].todo)].rev
    PROVE  Grows
<1>1. \A k \in Jobs : job[k].rev \in Nat /\ job'[k].rev \in Nat /\ saved[k] \in Nat
  BY DEF TypeOK, Job
<1>2. ASSUME NEW k \in Jobs PROVE Kept[k] \subseteq Kept'[k]
  <2> SUFFICES ASSUME NEW x \in Kept[k] PROVE x \in Kept'[k]
    OBVIOUS
  <2>1. /\ x \in 0..MaxRevision /\ x <= job[k].rev
        /\ saved[k] # 0 => x <= saved[k]
        /\ \A e \in Editors : ed[e].pc = "write" /\ ed[e].job = k => x <= ed[e].rev
        /\ \A s \in Servers :
              srv[s].pc = "write" /\ Min(srv[s].todo) = k => x <= srv[s].rev
    BY DEF Kept
  <2>2. x <= job'[k].rev
    BY <1>1, <2>1, DeliveryAssumption
  <2>3. saved'[k] # 0 => x <= saved'[k]
    BY <2>1
  <2>4. \A e \in Editors : ed'[e].pc = "write" /\ ed'[e].job = k => x <= ed'[e].rev
    BY <2>1
  <2>5. \A s \in Servers :
          srv'[s].pc = "write" /\ Min(srv'[s].todo) = k => x <= srv'[s].rev
    BY <2>1
  <2>6. QED BY <2>1, <2>2, <2>3, <2>4, <2>5 DEF Kept
<1>3. ASSUME NEW k \in Jobs PROVE Vouched[k] \subseteq Vouched'[k]
  BY <1>2 DEF Vouched
<1>4. QED BY <1>2, <1>3 DEF Grows

LEMMA NoFileKept == ASSUME TypeOK', NEW k \in Jobs PROVE 0 \in Kept'[k]
<1>1. job'[k].rev \in Nat
  BY DEF TypeOK, Job
<1>2. /\ \A e \in Editors : ed'[e].rev \in Nat
      /\ \A t \in Servers : srv'[t].rev \in Nat
  BY DEF TypeOK, Editor, Server
<1>3. 0 \in 0..MaxRevision
  BY DeliveryAssumption
<1>4. saved'[k] # 0 => 0 <= saved'[k]
  BY DEF TypeOK
<1>5. QED BY <1>1, <1>2, <1>3, <1>4 DEF Kept

\* Files that are kept or removed still show what the rows held.
LEMMA FilesStay ==
    ASSUME IInv, TypeOK', Grows,
           \A k \in Jobs : /\ saved'[k] \in {saved[k], 0}
                           /\ archive'[k] \in {archive[k], None}
    PROVE  FilesOK'
<1>1. \A k \in Jobs : saved'[k] \in Kept'[k]
  BY NoFileKept DEF IInv, FilesOK, Grows
<1>2. ASSUME NEW j \in Jobs, archive'[j] # None
      PROVE  /\ DOMAIN archive'[j].tag = DOMAIN archive'[j].holds
             /\ \A k \in DOMAIN archive'[j].holds :
                   /\ archive'[j].tag[k] <= archive'[j].holds[k]
                   /\ archive'[j].holds[k] <= job'[k].rev
  <2>1. archive'[j] = archive[j] /\ archive[j] \in Archive
    BY <1>2 DEF IInv, TypeOK
  <2>2. \A k \in DOMAIN archive[j].holds :
          /\ k \in Jobs /\ archive[j].holds[k] \in Nat
          /\ job[k].rev \in Nat /\ job'[k].rev \in Nat
    BY <2>1, ContentFits DEF Archive, IInv, TypeOK, Job
  <2>3. /\ DOMAIN archive[j].tag = DOMAIN archive[j].holds
        /\ \A k \in DOMAIN archive[j].holds :
              /\ archive[j].tag[k] <= archive[j].holds[k]
              /\ archive[j].holds[k] <= job[k].rev
    BY <1>2, <2>1 DEF IInv, FilesOK
  <2>4. ASSUME NEW k \in DOMAIN archive[j].holds PROVE archive[j].holds[k] <= job'[k].rev
    <3>1. job[k].rev <= job'[k].rev
      BY <2>2 DEF Grows
    <3>2. QED BY <2>2, <2>3, <3>1
  <2>5. QED BY <2>1, <2>3, <2>4
<1>3. QED BY <1>1, <1>2 DEF FilesOK

\* A step that begins or ends no writing of files under a lock: rows move on,
\* files are kept or removed, threads give up or go on with a deletion.
LEMMA Settles ==
    ASSUME IInv, TypeOK', RowsOK', link' = link,
           \A k \in Jobs : /\ job[k].rev <= job'[k].rev
                           /\ k \in Done => k \in Done'
                           /\ saved'[k] \in {saved[k], 0}
                           /\ archive'[k] \in {archive[k], None},
           \A e \in Editors :
               \/ /\ ed'[e] = ed[e]
                  /\ ed[e].pc = "write" => flock'[ed[e].job] = flock[ed[e].job]
               \/ ed'[e].pc = "idle"
               \/ ed'[e].pc = "refresh" /\ ed'[e].job \in Done',
           \A s \in Servers :
               \/ /\ srv'[s] = srv[s]
                  /\ srv[s].pc = "write" => flock'[Min(srv[s].todo)] = flock[Min(srv[s].todo)]
               \/ /\ SameLink(srv[s], srv'[s]) /\ srv'[s].pc # "write"
                  /\ Good(srv'[s], Kept', Vouched', link', job')
    PROVE  IInv'
<1>1. Grows
  BY FilesGrow DEF IInv
<1>2. FilesOK'
  BY <1>1, FilesStay
<1>3. LinksOK' /\ ServersOK'
  BY <1>1, OthersStay DEF TypeOK
<1>4. \A k \in Jobs : job[k].rev \in Nat /\ job'[k].rev \in Nat
  BY DEF IInv, TypeOK, Job
<1>5. ASSUME NEW e \in Editors, ed'[e].pc # "idle"
      PROVE  /\ ed'[e].job \in Done'
             /\ ed'[e].pc = "write" =>
                   flock'[ed'[e].job] = e /\ ed'[e].rev <= job'[ed'[e].job].rev
  <2>1. CASE ed'[e] = ed[e] /\ (ed[e].pc = "write" => flock'[ed[e].job] = flock[ed[e].job])
    <3>1. ed[e].job \in Done
      BY <1>5, <2>1 DEF IInv, LocksOK
    <3>2. ed[e].pc = "write" => flock[ed[e].job] = e /\ ed[e].rev <= job[ed[e].job].rev
      BY DEF IInv, LocksOK
    <3>3. ed[e].rev \in Nat
      BY DEF IInv, TypeOK, Editor
    <3>4. ed[e].job \in Jobs /\ ed[e].job \in Done'
      BY <3>1 DEF Done
    <3>5. job[ed[e].job].rev <= job'[ed[e].job].rev
      BY <3>4
    <3>6. QED BY <1>4, <2>1, <3>2, <3>3, <3>4, <3>5
  <2>2. CASE ed'[e].pc = "refresh" /\ ed'[e].job \in Done'
    BY <2>2
  <2>3. QED BY <1>5, <2>1, <2>2
<1>6. ASSUME NEW s \in Servers, srv'[s].pc = "write"
      PROVE  /\ Min(srv'[s].todo) \in Done'
             /\ flock'[Min(srv'[s].todo)] = s
             /\ srv'[s].rev <= job'[Min(srv'[s].todo)].rev
  <2> DEFINE j == Min(srv[s].todo)
  <2>1. srv'[s] = srv[s] /\ srv[s].pc = "write" /\ flock'[j] = flock[j]
    BY <1>6
  <2>2. j \in Done /\ flock[j] = s /\ srv[s].rev <= job[j].rev
    BY <2>1 DEF IInv, LocksOK
  <2>3. srv[s].rev \in Nat
    BY DEF IInv, TypeOK, Server
  <2>4. Min(srv'[s].todo) = j /\ srv'[s].rev = srv[s].rev
    BY <2>1
  <2> HIDE DEF j
  <2>5. j \in Jobs /\ j \in Done'
    BY <2>2 DEF Done
  <2>6. job[j].rev <= job'[j].rev
    BY <2>5
  <2>7. QED BY <1>4, <2>1, <2>2, <2>3, <2>4, <2>5, <2>6
<1>7. LocksOK'
  BY <1>5, <1>6 DEF LocksOK
<1>8. QED BY <1>2, <1>3, <1>7 DEF IInv

\* The files of j are written by the only thread that may.
LEMMA FilesWritten ==
    ASSUME IInv, TypeOK', NEW j \in Jobs, NEW v \in 0..MaxRevision,
           saved' = [saved EXCEPT ![j] = v], archive' = archive,
           \A k \in Jobs : job[k].rev <= job'[k].rev,
           v <= job'[j].rev, \A x \in Kept[j] : x <= v,
           \A e \in Editors : ed'[e].pc = "write" => ed'[e] = ed[e] /\ ed[e].job # j,
           \A s \in Servers : srv'[s].pc = "write" => srv'[s] = srv[s] /\ Min(srv[s].todo) # j
    PROVE  Grows /\ FilesOK' /\ v \in Kept'[j]
<1>1. /\ \A k \in Jobs : job[k].rev \in Nat /\ job'[k].rev \in Nat
      /\ \A k \in Jobs : saved'[k] = IF k = j THEN v ELSE saved[k]
  BY DEF IInv, TypeOK, Job
<1>2. ASSUME NEW k \in Jobs, NEW x \in Kept[k] PROVE x \in Kept'[k]
  <2>1. /\ x \in 0..MaxRevision /\ x <= job[k].rev
        /\ saved[k] # 0 => x <= saved[k]
        /\ \A e \in Editors : ed[e].pc = "write" /\ ed[e].job = k => x <= ed[e].rev
        /\ \A s \in Servers :
              srv[s].pc = "write" /\ Min(srv[s].todo) = k => x <= srv[s].rev
    BY DEF Kept
  <2>2. x <= job'[k].rev
    BY <1>1, <2>1, DeliveryAssumption
  <2>3. saved'[k] # 0 => x <= saved'[k]
    BY <1>1, <2>1
  <2>4. \A e \in Editors : ed'[e].pc = "write" /\ ed'[e].job = k => x <= ed'[e].rev
    BY <2>1
  <2>5. \A s \in Servers :
          srv'[s].pc = "write" /\ Min(srv'[s].todo) = k => x <= srv'[s].rev
    BY <2>1
  <2>6. QED BY <2>1, <2>2, <2>3, <2>4, <2>5 DEF Kept
<1>3. \A k \in Jobs : Vouched[k] \subseteq Vouched'[k]
  BY <1>2 DEF Vouched
<1>4. Grows
  BY <1>2, <1>3 DEF Grows
<1>5. v \in Kept'[j]
  <2>1. v <= v
    BY DeliveryAssumption
  <2>2. QED BY <1>1, <2>1 DEF Kept
<1>6. FilesOK'
  <2>1. \A k \in Jobs : saved'[k] \in Kept'[k]
    BY <1>1, <1>2, <1>5 DEF IInv, FilesOK
  <2>2. ASSUME NEW i \in Jobs, archive[i] # None, NEW k \in DOMAIN archive[i].holds
        PROVE  archive[i].holds[k] <= job'[k].rev
    <3>1. archive[i].holds[k] \in Nat /\ k \in Jobs
      BY <2>2, ContentFits DEF IInv, TypeOK, Archive
    <3>2. archive[i].holds[k] <= job[k].rev /\ job[k].rev <= job'[k].rev
      BY <2>2, <3>1 DEF IInv, FilesOK
    <3>3. QED BY <1>1, <3>1, <3>2
  <2>3. QED BY <2>1, <2>2 DEF IInv, FilesOK
<1>7. QED BY <1>4, <1>5, <1>6

-----------------------------------------------------------------------------
(* Recordings and their deletion                                           *)

\* Attempts that come to nothing.
LEMMA RowSettles ==
    ASSUME IInv, NEW j \in Jobs, NEW n \in Job, job' = [job EXCEPT ![j] = n],
           job[j].state \in {"queued", "running", "failed"},
           n.state \in {"queued", "running", "failed"}, n.rev = job[j].rev,
           n.state = "queued" => n.attempt < MaxAttempts,
           UNCHANGED <<saved, made, archive>>, UNCHANGED Untouched, left' \in [Events -> Nat]
    PROVE  IInv'
<1>1. job \in [Jobs -> Job] /\ \A k \in Jobs : job'[k] = IF k = j THEN n ELSE job[k]
  BY DEF IInv, TypeOK
<1>2. TypeOK'
  BY <1>1 DEF IInv, TypeOK, Untouched
<1>3. Done' = Done
  BY <1>1 DEF Done
<1>4. RowsOK'
  BY <1>1, <1>3 DEF IInv, RowsOK, Live, Done
<1>5. \A k \in Jobs : job[k].rev <= job'[k].rev
  BY <1>1 DEF Job
<1>6. QED BY <1>2, <1>3, <1>4, <1>5, Settles DEF Untouched

\* An attempt that succeeds makes the first revision and its files.
LEMMA SuccessHolds ==
    ASSUME IInv, NEW j \in Jobs, job[j].state = "running",
           job' = [job EXCEPT ![j].state = "succeeded", ![j].rev = 1],
           saved' = [saved EXCEPT ![j] = 1], made' = made \cup {j},
           UNCHANGED <<archive, left>>, UNCHANGED Untouched
    PROVE  IInv'
<1> DEFINE n == [job[j] EXCEPT !.state = "succeeded", !.rev = 1]
<1>1. /\ job \in [Jobs -> Job] /\ job[j] \in Job /\ saved \in [Jobs -> 0..MaxRevision]
      /\ 1 \in 0..MaxRevision
  BY DeliveryAssumption DEF IInv, TypeOK
<1>2. n \in Job /\ n.state = "succeeded" /\ n.rev = 1
  BY <1>1 DEF Job, States
<1>3. \A k \in Jobs : job'[k] = IF k = j THEN n ELSE job[k]
  BY <1>1
<1> HIDE DEF n
<1>4. job' \in [Jobs -> Job]
  BY <1>1, <1>2, <1>3
<1>5. TypeOK'
  BY <1>1, <1>4 DEF IInv, TypeOK, Untouched
<1>6. j \notin Done /\ job[j].rev = 0 /\ Done' = Done \cup {j}
  BY <1>2, <1>3 DEF IInv, RowsOK, Done
<1>7. \A k \in Jobs : Live(k)' <=> Live(k)
  BY <1>2, <1>3 DEF Live
<1>8. RowsOK'
  <2>1. \A k \in Jobs \ Done' : job'[k].rev = 0
    BY <1>3, <1>6 DEF IInv, RowsOK
  <2>2. \A k \in Jobs : job'[k].state = "queued" => job'[k].attempt < MaxAttempts
    BY <1>2, <1>3 DEF IInv, RowsOK
  <2>3. made' \subseteq Done'
    BY <1>6 DEF IInv, RowsOK
  <2>4. \A k, m \in Jobs : Live(k)' <=> Live(m)'
    BY <1>7 DEF IInv, RowsOK
  <2>5. QED BY <2>1, <2>2, <2>3, <2>4 DEF RowsOK
<1>9. \A k \in Jobs : job[k].rev <= job'[k].rev
  BY <1>1, <1>2, <1>3, <1>6 DEF Job
<1>10. /\ \A e \in Editors : ed[e].pc = "write" => ed[e].job # j
       /\ \A s \in Servers : srv[s].pc = "write" => Min(srv[s].todo) # j
  BY <1>6 DEF IInv, LocksOK
<1>11. Grows /\ FilesOK'
  <2>1. \A x \in Kept[j] : x <= 1
    BY <1>6, DeliveryAssumption DEF Kept
  <2>2. \A e \in Editors : ed'[e].pc = "write" => ed'[e] = ed[e] /\ ed[e].job # j
    BY <1>10 DEF Untouched
  <2>3. \A s \in Servers : srv'[s].pc = "write" => srv'[s] = srv[s] /\ Min(srv[s].todo) # j
    BY <1>10 DEF Untouched
  <2>4. job'[j] = n
    BY <1>3
  <2>5. 1 <= job'[j].rev
    BY <1>2, <2>4
  <2>6. QED BY <1>1, <1>5, <1>9, <2>1, <2>2, <2>3, <2>5, FilesWritten
<1>12. LinksOK' /\ ServersOK'
  BY <1>4, <1>5, <1>11, OthersStay DEF Untouched, TypeOK
<1>13. LocksOK'
  <2>1. \A k \in Done : k \in Done' /\ k \in Jobs /\ job'[k] = job[k]
    BY <1>3, <1>6 DEF Done
  <2>2. ed' = ed /\ srv' = srv /\ flock' = flock
    BY DEF Untouched
  <2>3. \A e \in Editors : ed[e].pc # "idle" => ed[e].job \in Done'
    BY <2>1 DEF IInv, LocksOK
  <2>4. \A e \in Editors : ed[e].pc = "write" =>
          flock[ed[e].job] = e /\ ed[e].rev <= job'[ed[e].job].rev
    BY <2>1 DEF IInv, LocksOK
  <2>5. \A s \in Servers : srv[s].pc = "write" =>
          /\ Min(srv[s].todo) \in Done' /\ flock[Min(srv[s].todo)] = s
          /\ srv[s].rev <= job'[Min(srv[s].todo)].rev
    BY <2>1 DEF IInv, LocksOK
  <2>6. QED BY <2>2, <2>3, <2>4, <2>5 DEF LocksOK
<1>14. QED BY <1>5, <1>8, <1>11, <1>12, <1>13 DEF IInv

LEMMA RecordingHolds ==
    ASSUME IInv, NEW j \in Jobs, Recording(j)
    PROVE  IInv'
<1>1. job \in [Jobs -> Job] /\ job[j] \in Job /\ left \in [Events -> Nat]
  BY DEF IInv, TypeOK
<1>2. CASE Retry(j)
  <2> DEFINE n == [job[j] EXCEPT !.state = "queued"]
  <2>1. /\ n \in Job /\ n.state = "queued" /\ n.rev = job[j].rev
        /\ n.attempt = job[j].attempt
    BY <1>1 DEF Job, States
  <2>2. job' = [job EXCEPT ![j] = n]
    BY <1>2 DEF Retry
  <2>3. left' \in [Events -> Nat]
    BY <1>2, SpendFits DEF Retry, IInv
  <2> HIDE DEF n
  <2>4. QED BY <1>2, <2>1, <2>2, <2>3, RowSettles DEF Retry
<1>3. CASE Work(j) /\ job[j].state = "queued"
  <2> DEFINE n == [job[j] EXCEPT !.state = "running", !.attempt = @ + 1]
  <2>1. job[j].attempt < MaxAttempts
    BY <1>3 DEF IInv, RowsOK
  <2>2. n \in Job /\ n.state = "running" /\ n.rev = job[j].rev
    <3>1. job[j].attempt + 1 \in 0..MaxAttempts
      BY <1>1, <2>1, DeliveryAssumption DEF Job
    <3>2. QED BY <1>1, <3>1 DEF Job, States
  <2>3. job' = [job EXCEPT ![j] = n]
    BY <1>3 DEF Work
  <2> HIDE DEF n
  <2>4. QED BY <1>1, <1>3, <2>2, <2>3, RowSettles DEF Work
<1>4. CASE Work(j) /\ job[j].state = "running"
  <2>1. CASE /\ job' = [job EXCEPT ![j].state = "succeeded", ![j].rev = 1]
             /\ saved' = [saved EXCEPT ![j] = 1]
             /\ made' = made \cup {j}
    BY <1>4, <2>1, SuccessHolds DEF Work
  <2>2. CASE job' = [job EXCEPT ![j].state = "failed"] /\ UNCHANGED <<saved, made>>
    <3> DEFINE n == [job[j] EXCEPT !.state = "failed"]
    <3>1. n \in Job /\ n.state = "failed" /\ n.rev = job[j].rev
      BY <1>1 DEF Job, States
    <3>2. job' = [job EXCEPT ![j] = n]
      BY <2>2
    <3> HIDE DEF n
    <3>3. QED BY <1>1, <1>4, <2>2, <3>1, <3>2, RowSettles DEF Work
  <2>3. QED BY <1>4, <2>1, <2>2 DEF Work
<1>5. QED BY <1>2, <1>3, <1>4 DEF Recording, Work

LEMMA TreesRemoved ==
    ASSUME TypeOK, RemoveTrees
    PROVE  /\ saved' \in [Jobs -> 0..MaxRevision] /\ made' = {}
           /\ archive' \in [Jobs -> Archive \cup {None}]
           /\ \A k \in Jobs : saved'[k] = 0 /\ archive'[k] = None
BY DeliveryAssumption DEF TypeOK, RemoveTrees

\* Rows that keep their revisions while the batch is reserved or removed.
LEMMA RowsLeave ==
    ASSUME IInv, job' \in [Jobs -> Job], made' \subseteq made,
           \A k \in Jobs : \/ job'[k] = job[k]
                           \/ /\ job'[k].rev = job[k].rev
                              /\ job'[k].state \in {"reserved", "gone"},
           \A j, k \in Jobs : Live(j)' <=> Live(k)'
    PROVE  RowsOK' /\ \A k \in Jobs : job[k].rev <= job'[k].rev /\ (k \in Done => k \in Done')
<1>1. \A k \in Jobs : k \in Done => k \in Done'
  BY DEF Done
<1>2. \A k \in Jobs : job'[k].rev = job[k].rev /\ job[k].rev \in Nat
  BY DEF IInv, TypeOK, Job
<1>3. \A k \in Jobs \ Done' : job'[k].rev = 0
  BY <1>1, <1>2 DEF IInv, RowsOK
<1>4. \A k \in Jobs : job'[k].state = "queued" => job'[k].attempt < MaxAttempts
  BY DEF IInv, RowsOK
<1>5. made' \subseteq Done'
  BY <1>1 DEF IInv, RowsOK, TypeOK
<1>6. \A k \in Jobs : job[k].rev <= job'[k].rev
  BY <1>2
<1>7. QED BY <1>1, <1>3, <1>4, <1>5, <1>6 DEF RowsOK

LEMMA RowsRemoved ==
    ASSUME IInv, RemoveRows, made' \subseteq made
    PROVE  /\ job' \in [Jobs -> Job] /\ RowsOK'
           /\ \A k \in Jobs : job[k].rev <= job'[k].rev /\ (k \in Done => k \in Done')
<1>1. \A k \in Jobs : job[k] \in Job
  BY DEF IInv, TypeOK
<1>2. \A k \in Jobs : \/ job[k].state # "reserved" /\ job'[k] = job[k]
                      \/ /\ job[k].state = "reserved" /\ job'[k] \in Job
                         /\ job'[k].state = "gone" /\ job'[k].rev = job[k].rev
  BY <1>1 DEF RemoveRows, Job, States
<1>3. job' \in [Jobs -> Job]
  BY <1>1 DEF RemoveRows, Job, States
<1>4. \A k \in Jobs : Live(k)' <=> Live(k)
  BY <1>2 DEF Live
<1>5. \A j, k \in Jobs : Live(j)' <=> Live(k)'
  BY <1>4 DEF IInv, RowsOK
<1>6. QED BY <1>2, <1>3, <1>5, RowsLeave

LEMMA SweepHolds == ASSUME IInv, Sweep PROVE IInv'
<1>1. RemoveTrees /\ RemoveRows /\ left' = left /\ UNCHANGED Untouched
  BY DEF Sweep
<1>2. /\ saved' \in [Jobs -> 0..MaxRevision] /\ made' = {}
      /\ archive' \in [Jobs -> Archive \cup {None}]
      /\ \A k \in Jobs : saved'[k] = 0 /\ archive'[k] = None
  BY <1>1, TreesRemoved DEF IInv
<1>3. /\ job' \in [Jobs -> Job] /\ RowsOK'
      /\ \A k \in Jobs : job[k].rev <= job'[k].rev /\ (k \in Done => k \in Done')
  BY <1>1, <1>2, RowsRemoved
<1>4. TypeOK'
  BY <1>1, <1>2, <1>3 DEF IInv, TypeOK, Untouched
<1>5. QED BY <1>1, <1>2, <1>3, <1>4, Settles DEF Untouched

\* A deletion goes on with what it holds in memory.
LEMMA DeletionGood ==
    ASSUME IInv, NEW s \in Servers, srv[s].pc \in {"purge", "files"}, NEW to \in {"files", "rows"},
           NEW K, NEW V, NEW J
    PROVE  /\ [srv[s] EXCEPT !.pc = to] \in Server
           /\ [srv[s] EXCEPT !.pc = to].pc = to
           /\ SameLink(srv[s], [srv[s] EXCEPT !.pc = to])
           /\ Good([srv[s] EXCEPT !.pc = to], K, V, link, J)
<1> DEFINE o == srv[s]
           r == [srv[s] EXCEPT !.pc = to]
<1>1. o \in Server /\ Good(o, Kept, Vouched, link, job) /\ o.link \in Links
      /\ o.pc \in {"purge", "files"}
  BY ServerFits
<1>2. /\ r \in Server /\ r.pc = to /\ r.link = o.link /\ r.goal = o.goal
      /\ r.batch = o.batch /\ r.floor = o.floor /\ r.got = o.got
  BY <1>1 DEF Server
<1>3. o.goal = "deliver"
  BY <1>1 DEF Good, DeliverOK, Delivering
<1>4. SameLink(srv[s], r)
  BY <1>1, <1>2 DEF SameLink
<1> HIDE DEF r, o
<1>5. Good(r, K, V, link, J)
  BY <1>1, <1>2, <1>3 DEF Good, Building, DeliverOK, Delivering, Streamed
<1>6. QED BY <1>2, <1>4, <1>5 DEF r

LEMMA PurgeHolds == ASSUME IInv, NEW s \in Servers, Purge(s) PROVE IInv'
<1>1. /\ srv[s].pc = "purge" /\ link' = link
      /\ UNCHANGED <<saved, made, archive, flock, batchLock, used, ed, left>>
  BY DEF Purge
<1>2. CASE ~MayPurge(s)
  <2>1. Go(s, Waiting) /\ job' = job
    BY <1>2 DEF Purge
  <2>2. Apart(s, Waiting)
    BY SameApart DEF SameLink
  <2>3. Waiting.pc = "idle"
    BY DEF Waiting
  <2>4. QED BY <1>1, <2>1, <2>2, <2>3, Quiet, WaitingFits, WaitingGood DEF IInv, TypeOK, Still
<1>3. CASE MayPurge(s)
  <2> DEFINE r == [srv[s] EXCEPT !.pc = "files"]
  <2>1. Go(s, r)
    BY <1>3 DEF Purge
  <2>2. job' = [k \in Jobs |-> IF job[k].state = "gone" THEN job[k]
                               ELSE [job[k] EXCEPT !.state = "reserved"]]
    BY <1>3 DEF Purge
  <2>3. \A k \in Jobs : job[k] \in Job
    BY DEF IInv, TypeOK
  <2>4. job' \in [Jobs -> Job]
    BY <2>2, <2>3 DEF Job, States
  <2>5. \A k \in Jobs : \/ job[k].state = "gone" /\ job'[k] = job[k]
                        \/ job'[k].rev = job[k].rev /\ job'[k].state = "reserved"
    BY <2>2, <2>3 DEF Job
  <2>6. \A k \in Jobs : ~Live(k)'
    BY <2>5 DEF Live
  <2>7. RowsOK' /\ \A k \in Jobs : job[k].rev <= job'[k].rev /\ (k \in Done => k \in Done')
    BY <1>1, <2>4, <2>5, <2>6, RowsLeave
  <2>8. /\ r \in Server /\ r.pc = "files" /\ SameLink(srv[s], r)
        /\ Good(r, Kept', Vouched', link, job')
    BY <1>1, DeletionGood
  <2> HIDE DEF r
  <2>9. srv' \in [Servers -> Server] /\ \A t \in Servers : srv'[t] = IF t = s THEN r ELSE srv[t]
    BY <2>1, <2>8 DEF IInv, TypeOK, Go
  <2>10. TypeOK'
    BY <1>1, <2>4, <2>9 DEF IInv, TypeOK
  <2>11. QED BY <1>1, <2>7, <2>8, <2>9, <2>10, Settles
<1>4. QED BY <1>2, <1>3

LEMMA DeleteHolds == ASSUME IInv, NEW s \in Servers, Delete(s) PROVE IInv'
<1>1. link' = link /\ UNCHANGED <<flock, batchLock, used, ed, left>>
  BY DEF Delete
<1>2. CASE srv[s].pc = "files"
  <2> DEFINE r == [srv[s] EXCEPT !.pc = "rows"]
  <2>1. Go(s, r) /\ RemoveTrees /\ job' = job
    BY <1>2 DEF Delete
  <2>2. /\ saved' \in [Jobs -> 0..MaxRevision] /\ made' = {}
        /\ archive' \in [Jobs -> Archive \cup {None}]
        /\ \A k \in Jobs : saved'[k] = 0 /\ archive'[k] = None
    BY <2>1, TreesRemoved DEF IInv
  <2>3. \A j, k \in Jobs : Live(j)' <=> Live(k)'
    BY <2>1 DEF IInv, RowsOK, Live
  <2>4. RowsOK' /\ \A k \in Jobs : job[k].rev <= job'[k].rev /\ (k \in Done => k \in Done')
    BY <2>1, <2>2, <2>3, RowsLeave DEF IInv, TypeOK
  <2>5. /\ r \in Server /\ r.pc = "rows" /\ SameLink(srv[s], r)
        /\ Good(r, Kept', Vouched', link, job')
    BY <1>2, DeletionGood
  <2> HIDE DEF r
  <2>6. srv' \in [Servers -> Server] /\ \A t \in Servers : srv'[t] = IF t = s THEN r ELSE srv[t]
    BY <2>1, <2>5 DEF IInv, TypeOK, Go
  <2>7. TypeOK'
    BY <1>1, <2>1, <2>2, <2>6 DEF IInv, TypeOK
  <2>8. QED BY <1>1, <2>2, <2>4, <2>5, <2>6, <2>7, Settles
<1>3. CASE srv[s].pc = "rows"
  <2>1. /\ Go(s, Waiting) /\ RemoveRows /\ saved' = saved /\ made' = made
        /\ archive' = archive
    BY <1>3 DEF Delete
  <2>2. /\ job' \in [Jobs -> Job] /\ RowsOK'
        /\ \A k \in Jobs : job[k].rev <= job'[k].rev /\ (k \in Done => k \in Done')
    BY <2>1, RowsRemoved
  <2>3. /\ Waiting.pc = "idle" /\ SameLink(srv[s], Waiting)
        /\ Good(Waiting, Kept', Vouched', link, job')
    BY WaitingGood DEF Waiting, SameLink
  <2>4. /\ srv' \in [Servers -> Server]
        /\ \A t \in Servers : srv'[t] = IF t = s THEN Waiting ELSE srv[t]
    BY <2>1, WaitingFits DEF IInv, TypeOK, Go
  <2>5. TypeOK'
    BY <1>1, <2>1, <2>2, <2>4 DEF IInv, TypeOK
  <2>6. QED BY <1>1, <2>1, <2>2, <2>3, <2>4, <2>5, Settles
<1>4. QED BY <1>2, <1>3 DEF Delete

-----------------------------------------------------------------------------
(* Corrections, failures and restarts                                      *)

LEMMA LocksReleased ==
    ASSUME IInv, NEW t \in Editors \cup Servers, Released(t)
    PROVE  /\ flock' \in [Jobs -> Editors \cup Servers \cup {None}]
           /\ \A e \in Editors : ed[e].pc = "write" /\ e # t =>
                 flock'[ed[e].job] = flock[ed[e].job]
           /\ \A s \in Servers : srv[s].pc = "write" /\ s # t =>
                 flock'[Min(srv[s].todo)] = flock[Min(srv[s].todo)]
<1>1. \A j \in Jobs : flock'[j] = IF flock[j] = t THEN None ELSE flock[j]
  BY DEF Released
<1>2. flock' \in [Jobs -> Editors \cup Servers \cup {None}]
  BY DEF Released, IInv, TypeOK
<1>3. \A e \in Editors : ed[e].pc = "write" => ed[e].job \in Jobs /\ flock[ed[e].job] = e
  BY DEF IInv, LocksOK, Done
<1>4. \A s \in Servers : srv[s].pc = "write" =>
        Min(srv[s].todo) \in Jobs /\ flock[Min(srv[s].todo)] = s
  BY DEF IInv, LocksOK, Done
<1>5. QED BY <1>1, <1>2, <1>3, <1>4

LEMMA NoEditFits == NoEdit \in Editor /\ NoEdit.pc = "idle"
BY DeliveryAssumption DEF NoEdit, Editor

LEMMA EditHolds ==
    ASSUME IInv, NEW e \in Editors, NEW j \in Jobs, Edit(e, j)
    PROVE  IInv'
<1> DEFINE n == [job[j] EXCEPT !.rev = @ + 1]
           x == [NoEdit EXCEPT !.pc = "refresh", !.job = j]
<1>1. /\ ed[e].pc = "idle" /\ job[j].state = "succeeded" /\ job[j].rev < MaxRevision
      /\ Spend("edits") /\ ed' = [ed EXCEPT ![e] = x]
      /\ UNCHANGED <<saved, made, archive, flock, batchLock, link, used, srv>>
      /\ job' = [job EXCEPT ![j] = n]
  BY DEF Edit
<1>2. job \in [Jobs -> Job] /\ job[j] \in Job
  BY DEF IInv, TypeOK
<1>3. job[j].rev + 1 \in 0..MaxRevision /\ job[j].rev <= job[j].rev + 1
  BY <1>1, <1>2, DeliveryAssumption DEF Job
<1>4. n \in Job /\ n.state = job[j].state /\ n.attempt = job[j].attempt /\ n.rev = job[j].rev + 1
  BY <1>2, <1>3 DEF Job
<1>5. x \in Editor /\ x.pc = "refresh" /\ x.job = j
  BY NoEditFits DEF Editor
<1> HIDE DEF n, x
<1>6. job' \in [Jobs -> Job] /\ \A k \in Jobs : job'[k] = IF k = j THEN n ELSE job[k]
  BY <1>1, <1>2, <1>4
<1>7. ed' \in [Editors -> Editor] /\ \A d \in Editors : ed'[d] = IF d = e THEN x ELSE ed[d]
  BY <1>1, <1>5 DEF IInv, TypeOK
<1>8. TypeOK'
  BY <1>1, <1>6, <1>7, SpendFits DEF IInv, TypeOK
<1>9. Done' = Done /\ j \in Done
  BY <1>1, <1>4, <1>6 DEF Done
<1>10. \A k \in Jobs : Live(k)' <=> Live(k)
  BY <1>4, <1>6 DEF Live
<1>11. RowsOK'
  <2>1. \A k \in Jobs \ Done' : job'[k].rev = 0
    BY <1>6, <1>9 DEF IInv, RowsOK
  <2>2. \A k \in Jobs : job'[k].state = "queued" => job'[k].attempt < MaxAttempts
    BY <1>4, <1>6 DEF IInv, RowsOK
  <2>3. \A k, m \in Jobs : Live(k)' <=> Live(m)'
    BY <1>10 DEF IInv, RowsOK
  <2>4. QED BY <1>1, <1>9, <2>1, <2>2, <2>3 DEF IInv, RowsOK
<1>12. \A k \in Jobs : job[k].rev <= job'[k].rev
  BY <1>2, <1>3, <1>4, <1>6 DEF Job
<1>13. QED BY <1>1, <1>5, <1>7, <1>8, <1>9, <1>11, <1>12, Settles

LEMMA EditRefreshFailsHolds ==
    ASSUME IInv, NEW e \in Editors, EditRefreshFails(e)
    PROVE  IInv'
<1>1. /\ Spend("failures") /\ Released(e) /\ ed' = [ed EXCEPT ![e] = NoEdit]
      /\ UNCHANGED <<job, saved, made, archive, batchLock, link, used, srv>>
  BY DEF EditRefreshFails
<1>2. ed' \in [Editors -> Editor] /\ \A d \in Editors : ed'[d] = IF d = e THEN NoEdit ELSE ed[d]
  BY <1>1, NoEditFits DEF IInv, TypeOK
<1>3. TypeOK'
  BY <1>1, <1>2, SpendFits, LocksReleased DEF IInv, TypeOK
<1>4. RowsOK' /\ Done' = Done
  BY <1>1 DEF IInv, RowsOK, Done, Live
<1>5. \A k \in Jobs : job[k].rev <= job'[k].rev
  BY <1>1 DEF IInv, TypeOK, Job
<1>6. e \notin Servers
  BY DeliveryAssumption
<1>7. QED BY <1>1, <1>2, <1>3, <1>4, <1>5, <1>6, NoEditFits, LocksReleased, Settles

LEMMA FailHolds == ASSUME IInv, NEW s \in Servers, Fail(s) PROVE IInv'
<1>1. /\ Spend("failures") /\ Released(s) /\ FreeBatchLock(s) /\ Go(s, Waiting)
      /\ UNCHANGED <<job, saved, made, archive, link, used, ed>>
  BY DEF Fail
<1>2. /\ srv' \in [Servers -> Server]
      /\ \A t \in Servers : srv'[t] = IF t = s THEN Waiting ELSE srv[t]
  BY <1>1, WaitingFits DEF IInv, TypeOK, Go
<1>3. batchLock' \in Servers \cup {None}
  BY <1>1 DEF FreeBatchLock, IInv, TypeOK
<1>4. TypeOK'
  BY <1>1, <1>2, <1>3, SpendFits, LocksReleased DEF IInv, TypeOK
<1>5. RowsOK' /\ Done' = Done
  BY <1>1 DEF IInv, RowsOK, Done, Live
<1>6. \A k \in Jobs : job[k].rev <= job'[k].rev
  BY <1>1 DEF IInv, TypeOK, Job
<1>7. s \notin Editors
  BY DeliveryAssumption
<1>8. /\ Waiting.pc = "idle" /\ SameLink(srv[s], Waiting)
      /\ Good(Waiting, Kept', Vouched', link', job')
  BY WaitingGood DEF Waiting, SameLink
<1>9. QED BY <1>1, <1>2, <1>4, <1>5, <1>6, <1>7, <1>8, LocksReleased, Settles

LEMMA RestartHolds == ASSUME IInv, Restart PROVE IInv'
<1>1. /\ Spend("restarts") /\ used' = {} /\ flock' = [j \in Jobs |-> None] /\ batchLock' = None
      /\ ed' = [e \in Editors |-> NoEdit] /\ srv' = [s \in Servers |-> Waiting]
      /\ UNCHANGED <<job, saved, made, archive, link>>
  BY DEF Restart
<1>2. TypeOK'
  BY <1>1, SpendFits, NoEditFits, WaitingFits DEF IInv, TypeOK
<1>3. RowsOK' /\ Done' = Done
  BY <1>1 DEF IInv, RowsOK, Done, Live
<1>4. \A k \in Jobs : job[k].rev <= job'[k].rev
  BY <1>1 DEF IInv, TypeOK, Job
<1>5. \A e \in Editors : ed'[e].pc = "idle"
  BY <1>1, NoEditFits
<1>6. \A s \in Servers : /\ srv'[s].pc = "idle" /\ SameLink(srv[s], srv'[s])
                         /\ Good(srv'[s], Kept', Vouched', link', job')
  BY <1>1, WaitingGood DEF Waiting, SameLink
<1>7. QED BY <1>1, <1>2, <1>3, <1>4, <1>5, <1>6, Settles

-----------------------------------------------------------------------------
(* Readers and writers of files                                            *)

\* A thread takes the lock of j, reads its rows and goes on to write; nobody
\* else had that lock, and everybody else goes on.
LEMMA LockTaken ==
    ASSUME IInv, NEW j \in made, NEW t \in Editors \cup Servers, flock[j] = None, Locked(j, t)
    PROVE  /\ flock' \in [Jobs -> Editors \cup Servers \cup {None}] /\ flock'[j] = t
           /\ j \in Done /\ j \in Jobs
           /\ \A e \in Editors : ed[e].pc = "write" => flock'[ed[e].job] = flock[ed[e].job]
           /\ \A s \in Servers : srv[s].pc = "write" =>
                 flock'[Min(srv[s].todo)] = flock[Min(srv[s].todo)]
<1>1. j \in Done /\ j \in Jobs /\ flock \in [Jobs -> Editors \cup Servers \cup {None}]
  BY DEF IInv, TypeOK, RowsOK
<1>2. /\ flock' \in [Jobs -> Editors \cup Servers \cup {None}]
      /\ \A k \in Jobs : flock'[k] = IF k = j THEN t ELSE flock[k]
  BY <1>1 DEF Locked
<1>3. \A e \in Editors : ed[e].pc = "write" => ed[e].job \in Jobs /\ ed[e].job # j
  BY DeliveryAssumption DEF IInv, LocksOK, Done
<1>4. \A s \in Servers : srv[s].pc = "write" => Min(srv[s].todo) \in Jobs /\ Min(srv[s].todo) # j
  BY DeliveryAssumption DEF IInv, LocksOK, Done
<1>5. QED BY <1>1, <1>2, <1>3, <1>4

\* Rows do not change while files are read and written.
LEMMA RowsUnread ==
    ASSUME IInv, job' = job, made' = made
    PROVE  /\ RowsOK' /\ Done' = Done /\ job' \in [Jobs -> Job]
           /\ \A k \in Jobs : job[k].rev <= job'[k].rev /\ job'[k].rev <= job[k].rev
           /\ \A k \in Jobs : job[k].rev \in 0..MaxRevision
BY DEF IInv, TypeOK, RowsOK, Done, Live, Job

LEMMA EditReads ==
    ASSUME IInv, NEW e \in Editors, EditRefresh(e), ed[e].pc = "refresh"
    PROVE  IInv'
<1> DEFINE j == ed[e].job
           x == [ed[e] EXCEPT !.pc = "write", !.rev = job[j].rev]
<1>1. /\ MayRead(j) /\ Locked(j, e) /\ ed' = [ed EXCEPT ![e].pc = "write", ![e].rev = job[j].rev]
      /\ UNCHANGED <<job, saved, made, archive, batchLock, link, used, srv, left>>
  BY DEF EditRefresh
<1>2. ed[e] \in Editor /\ flock[j] = None /\ j \in made /\ j \in Jobs
  BY <1>1 DEF IInv, TypeOK, MayRead
<1>3. x \in Editor /\ x.pc = "write" /\ x.job = j /\ x.rev = job[j].rev
  BY <1>2, <1>1, RowsUnread DEF Editor
<1>4. ed' = [ed EXCEPT ![e] = x]
  BY <1>1
<1> HIDE DEF x, j
<1>5. ed' \in [Editors -> Editor] /\ \A d \in Editors : ed'[d] = IF d = e THEN x ELSE ed[d]
  BY <1>3, <1>4 DEF IInv, TypeOK
<1>6. /\ flock' \in [Jobs -> Editors \cup Servers \cup {None}] /\ flock'[j] = e /\ j \in Done
      /\ \A d \in Editors : ed[d].pc = "write" => flock'[ed[d].job] = flock[ed[d].job]
      /\ \A s \in Servers : srv[s].pc = "write" =>
            flock'[Min(srv[s].todo)] = flock[Min(srv[s].todo)]
  BY <1>1, <1>2, LockTaken
<1>7. TypeOK'
  BY <1>1, <1>5, <1>6 DEF IInv, TypeOK
<1>8. Grows
  BY <1>1, <1>3, <1>5, <1>7, RowsUnread, FilesGrow DEF IInv
<1>9. FilesOK' /\ LinksOK' /\ ServersOK'
  BY <1>1, <1>7, <1>8, RowsUnread, FilesStay, OthersStay DEF TypeOK
<1>10. LocksOK'
  <2>1. \A d \in Editors : ed'[d].pc # "idle" => ed'[d].job \in Done'
    BY <1>1, <1>3, <1>5, <1>6, RowsUnread DEF IInv, LocksOK
  <2>2. \A d \in Editors : ed'[d].pc = "write" =>
          flock'[ed'[d].job] = d /\ ed'[d].rev <= job'[ed'[d].job].rev
    <3>1. x.rev <= job'[x.job].rev
      BY <1>1, <1>2, <1>3, RowsUnread
    <3>2. \A d \in Editors : ed[d].pc = "write" =>
            flock'[ed[d].job] = d /\ ed[d].rev <= job'[ed[d].job].rev
      BY <1>1, <1>6 DEF IInv, LocksOK
    <3>3. QED BY <1>3, <1>5, <1>6, <3>1, <3>2
  <2>3. \A s \in Servers : srv'[s].pc = "write" =>
          /\ Min(srv'[s].todo) \in Done' /\ flock'[Min(srv'[s].todo)] = s
          /\ srv'[s].rev <= job'[Min(srv'[s].todo)].rev
    BY <1>1, <1>6, RowsUnread DEF IInv, LocksOK
  <2>4. QED BY <2>1, <2>2, <2>3 DEF LocksOK
<1>11. QED BY <1>1, <1>7, <1>9, <1>10, RowsUnread DEF IInv

LEMMA EditWrites ==
    ASSUME IInv, NEW e \in Editors, EditRefresh(e), ed[e].pc = "write"
    PROVE  IInv'
<1> DEFINE j == ed[e].job
           v == ed[e].rev
<1>1. /\ saved' = [saved EXCEPT ![j] = v] /\ Released(e) /\ ed' = [ed EXCEPT ![e] = NoEdit]
      /\ UNCHANGED <<job, made, archive, batchLock, link, used, srv, left>>
  BY DEF EditRefresh
<1>2. /\ j \in Jobs /\ flock[j] = e /\ v <= job[j].rev /\ v \in 0..MaxRevision
  BY DEF IInv, TypeOK, LocksOK, Done, Editor
<1>3. ed' \in [Editors -> Editor] /\ \A d \in Editors : ed'[d] = IF d = e THEN NoEdit ELSE ed[d]
  BY <1>1, NoEditFits DEF IInv, TypeOK
<1>4. /\ flock' \in [Jobs -> Editors \cup Servers \cup {None}]
      /\ \A d \in Editors : ed[d].pc = "write" /\ d # e => flock'[ed[d].job] = flock[ed[d].job]
      /\ \A s \in Servers : srv[s].pc = "write" =>
            flock'[Min(srv[s].todo)] = flock[Min(srv[s].todo)]
  BY <1>1, LocksReleased, DeliveryAssumption
<1>5. saved' \in [Jobs -> 0..MaxRevision]
  BY <1>1, <1>2 DEF IInv, TypeOK
<1>6. TypeOK'
  BY <1>1, <1>3, <1>4, <1>5 DEF IInv, TypeOK
<1>7. \A x \in Kept[j] : x <= v
  BY <1>2 DEF Kept
<1>8. \A d \in Editors : ed'[d].pc = "write" => ed'[d] = ed[d] /\ ed[d].job # j
  BY <1>2, <1>3, NoEditFits DEF IInv, LocksOK
<1>9. \A s \in Servers : srv'[s].pc = "write" => srv'[s] = srv[s] /\ Min(srv[s].todo) # j
  BY <1>1, <1>2, DeliveryAssumption DEF IInv, LocksOK
<1> HIDE DEF j, v
<1>10. Grows /\ FilesOK'
  BY <1>1, <1>2, <1>6, <1>7, <1>8, <1>9, RowsUnread, FilesWritten
<1>11. LinksOK' /\ ServersOK'
  BY <1>1, <1>6, <1>10, OthersStay DEF TypeOK
<1>12. LocksOK'
  <2>1. \A d \in Editors : ed'[d].pc # "idle" => ed'[d].job \in Done'
    BY <1>1, <1>3, NoEditFits, RowsUnread DEF IInv, LocksOK
  <2>2. \A d \in Editors : ed'[d].pc = "write" =>
          flock'[ed'[d].job] = d /\ ed'[d].rev <= job'[ed'[d].job].rev
    BY <1>1, <1>3, <1>4, NoEditFits DEF IInv, LocksOK
  <2>3. \A s \in Servers : srv'[s].pc = "write" =>
          /\ Min(srv'[s].todo) \in Done' /\ flock'[Min(srv'[s].todo)] = s
          /\ srv'[s].rev <= job'[Min(srv'[s].todo)].rev
    BY <1>1, <1>4, RowsUnread DEF IInv, LocksOK
  <2>4. QED BY <2>1, <2>2, <2>3 DEF LocksOK
<1>13. QED BY <1>1, <1>6, <1>10, <1>11, <1>12, RowsUnread DEF IInv

\* refresh_review_exports by a server: what it reads is as new as its aim.
LEMMA ReadRowsHolds ==
    ASSUME IInv, NEW s \in Servers, ReadRows(s)
    PROVE  IInv'
<1> DEFINE o == srv[s]
           j == Min(o.todo)
           r == [srv[s] EXCEPT !.pc = "write", !.rev = job[j].rev]
<1>1. /\ o \in Server /\ Good(o, Kept, Vouched, link, job) /\ o.pc = "refresh"
      /\ o.link \in Links /\ o.goal \in {"issue", "deliver"}
  BY ServerFits DEF ReadRows, Server
<1>2. /\ MayRead(j) /\ Locked(j, s) /\ Go(s, r)
      /\ UNCHANGED <<job, saved, made, archive, batchLock, link, used, ed, left>>
  BY DEF ReadRows
<1>3. flock[j] = None /\ j \in made /\ j \in Jobs /\ job[j].rev \in 0..MaxRevision
  BY <1>2, RowsUnread DEF IInv, TypeOK, MayRead
<1>4. /\ r \in Server /\ r.pc = "write" /\ r.rev = job[j].rev /\ r.link = o.link
      /\ r.goal = o.goal /\ r.batch = o.batch /\ r.floor = o.floor /\ r.todo = o.todo
      /\ r.set = o.set /\ r.snap = o.snap /\ r.got = o.got
  BY <1>1, <1>3 DEF Server
<1>5. Min(r.todo) = j
  BY <1>4
<1>6. BuildOK(o, Kept, Vouched, job)
  BY <1>1 DEF Good, Building, DeliverOK
<1> HIDE DEF r, o, j
<1>7. /\ srv' \in [Servers -> Server]
      /\ \A t \in Servers : srv'[t] = IF t = s THEN r ELSE srv[t]
  BY <1>2, <1>4 DEF IInv, TypeOK, Go
<1>8. /\ flock' \in [Jobs -> Editors \cup Servers \cup {None}] /\ flock'[j] = s /\ j \in Done
      /\ \A d \in Editors : ed[d].pc = "write" => flock'[ed[d].job] = flock[ed[d].job]
      /\ \A t \in Servers : srv[t].pc = "write" =>
            flock'[Min(srv[t].todo)] = flock[Min(srv[t].todo)]
  BY <1>2, <1>3, LockTaken
<1>9. TypeOK'
  BY <1>2, <1>7, <1>8 DEF IInv, TypeOK
<1>10. Grows
  BY <1>2, <1>4, <1>5, <1>7, <1>9, RowsUnread, FilesGrow DEF IInv
<1>11. Good(r, Kept', Vouched', link', job')
  <2>1. Aim(r) = Aim(o)
    BY <1>4 DEF Aim
  <2>2. \A k \in o.set \ o.todo : Aim(o)[k] \in Kept'[k]
    BY <1>1, <1>6, <1>10 DEF BuildOK, Grows, Server
  <2>3. Aim(o)[j] <= job[j].rev
    BY <1>3, <1>6 DEF BuildOK
  <2>4. BuildOK(r, Kept', Vouched', job')
    BY <1>2, <1>4, <1>5, <1>6, <2>1, <2>2, <2>3 DEF BuildOK
  <2>5. DeliverOK(r, Vouched', link', job')
    BY <1>1, <1>2, <1>4 DEF Good, DeliverOK, Delivering, Streamed
  <2>6. QED BY <1>1, <1>2, <1>4, <2>4, <2>5 DEF Good
<1>12. SameLink(srv[s], r)
  BY <1>1, <1>4 DEF SameLink, o
<1>13. FilesOK' /\ LinksOK' /\ ServersOK'
  BY <1>2, <1>7, <1>9, <1>10, <1>11, <1>12, RowsUnread, FilesStay, OthersStay
<1>14. LocksOK'
  <2>1. \A d \in Editors : ed'[d].pc # "idle" => ed'[d].job \in Done'
    BY <1>2, RowsUnread DEF IInv, LocksOK
  <2>2. \A d \in Editors : ed'[d].pc = "write" =>
          flock'[ed'[d].job] = d /\ ed'[d].rev <= job'[ed'[d].job].rev
    BY <1>2, <1>8 DEF IInv, LocksOK
  <2>3. \A t \in Servers : srv'[t].pc = "write" =>
          /\ Min(srv'[t].todo) \in Done' /\ flock'[Min(srv'[t].todo)] = t
          /\ srv'[t].rev <= job'[Min(srv'[t].todo)].rev
    BY <1>2, <1>3, <1>4, <1>5, <1>7, <1>8, RowsUnread DEF IInv, LocksOK
  <2>4. QED BY <2>1, <2>2, <2>3 DEF LocksOK
<1>15. QED BY <1>2, <1>9, <1>13, <1>14, RowsUnread DEF IInv

LEMMA WriteFilesHolds ==
    ASSUME IInv, NEW s \in Servers, WriteFiles(s)
    PROVE  IInv'
<1> DEFINE o == srv[s]
           j == Min(o.todo)
           v == o.rev
           r == [srv[s] EXCEPT !.pc = "refresh", !.todo = @ \ {j}]
<1>1. /\ o \in Server /\ Good(o, Kept, Vouched, link, job) /\ o.pc = "write"
      /\ o.link \in Links /\ o.goal \in {"issue", "deliver"}
  BY ServerFits DEF WriteFiles, Server
<1>2. /\ saved' = [saved EXCEPT ![j] = v] /\ Released(s) /\ Go(s, r)
      /\ UNCHANGED <<job, made, archive, batchLock, link, used, ed, left>>
  BY DEF WriteFiles
<1>3. /\ j \in Jobs /\ flock[j] = s /\ v <= job[j].rev /\ v \in 0..MaxRevision
  BY <1>1 DEF IInv, LocksOK, Done, Server
<1>4. /\ r \in Server /\ r.pc = "refresh" /\ r.link = o.link
      /\ r.goal = o.goal /\ r.batch = o.batch /\ r.floor = o.floor /\ r.todo = o.todo \ {j}
      /\ r.set = o.set /\ r.snap = o.snap /\ r.got = o.got
  BY <1>1 DEF Server
<1>5. BuildOK(o, Kept, Vouched, job)
  BY <1>1 DEF Good, Building, DeliverOK
<1>6. Aim(o)[j] <= v
  BY <1>1, <1>5 DEF BuildOK
<1>7. /\ flock' \in [Jobs -> Editors \cup Servers \cup {None}]
      /\ \A d \in Editors : ed[d].pc = "write" => flock'[ed[d].job] = flock[ed[d].job]
      /\ \A t \in Servers : srv[t].pc = "write" /\ t # s =>
            flock'[Min(srv[t].todo)] = flock[Min(srv[t].todo)]
  BY <1>2, LocksReleased, DeliveryAssumption
<1>8. saved' \in [Jobs -> 0..MaxRevision]
  BY <1>2, <1>3 DEF IInv, TypeOK
<1>9. \A x \in Kept[j] : x <= v
  BY <1>1, <1>3 DEF Kept
<1> HIDE DEF r
<1>10. /\ srv' \in [Servers -> Server]
       /\ \A t \in Servers : srv'[t] = IF t = s THEN r ELSE srv[t]
  BY <1>2, <1>4 DEF IInv, TypeOK, Go
<1>11. TypeOK'
  BY <1>2, <1>7, <1>8, <1>10 DEF IInv, TypeOK
<1>12. \A d \in Editors : ed'[d].pc = "write" => ed'[d] = ed[d] /\ ed[d].job # j
  BY <1>2, <1>3, DeliveryAssumption DEF IInv, LocksOK
<1>13. \A t \in Servers : srv'[t].pc = "write" => srv'[t] = srv[t] /\ Min(srv[t].todo) # j
  BY <1>3, <1>4, <1>10 DEF IInv, LocksOK
<1> HIDE DEF j, v, o
<1>14. Grows /\ FilesOK' /\ v \in Kept'[j]
  BY <1>2, <1>3, <1>11, <1>9, <1>12, <1>13, RowsUnread, FilesWritten
<1>15. Good(r, Kept', Vouched', link', job')
  <2>1. Aim(r) = Aim(o)
    BY <1>4 DEF Aim
  <2>2. Aim(o)[j] \in Kept'[j]
    <3>1. Aim(o)[j] \in 0..MaxRevision
      BY <1>1, <1>3, <1>5 DEF BuildOK, Aim, Server, Job
    <3>2. /\ v <= job'[j].rev /\ saved'[j] = v /\ v \in Nat
      BY <1>2, <1>3 DEF IInv, TypeOK
    <3>3. Aim(o)[j] <= job'[j].rev
      BY <1>2, <1>3, <1>5 DEF BuildOK
    <3>4. /\ \A d \in Editors : ed'[d].pc = "write" => ed'[d].job # j
          /\ \A t \in Servers : srv'[t].pc = "write" => Min(srv'[t].todo) # j
      BY <1>12, <1>13
    <3>5. QED BY <1>3, <1>6, <3>1, <3>2, <3>3, <3>4 DEF Kept
  <2>3. \A k \in o.set \ r.todo : Aim(o)[k] \in Kept'[k]
    BY <1>1, <1>4, <1>5, <1>14, <2>2 DEF BuildOK, Grows, Server
  <2>4. BuildOK(r, Kept', Vouched', job')
    BY <1>2, <1>4, <1>5, <2>1, <2>3 DEF BuildOK
  <2>5. DeliverOK(r, Vouched', link', job')
    BY <1>1, <1>2, <1>4 DEF Good, DeliverOK, Delivering, Streamed
  <2>6. QED BY <1>1, <1>2, <1>4, <2>4, <2>5 DEF Good
<1>16. SameLink(srv[s], r)
  BY <1>1, <1>4 DEF SameLink, o
<1>17. LinksOK' /\ ServersOK'
  BY <1>2, <1>10, <1>11, <1>14, <1>15, <1>16, RowsUnread, OthersStay
<1>18. LocksOK'
  <2>1. \A d \in Editors : ed'[d].pc # "idle" => ed'[d].job \in Done'
    BY <1>2, RowsUnread DEF IInv, LocksOK
  <2>2. \A d \in Editors : ed'[d].pc = "write" =>
          flock'[ed'[d].job] = d /\ ed'[d].rev <= job'[ed'[d].job].rev
    BY <1>2, <1>7 DEF IInv, LocksOK
  <2>3. \A t \in Servers : srv'[t].pc = "write" =>
          /\ Min(srv'[t].todo) \in Done' /\ flock'[Min(srv'[t].todo)] = t
          /\ srv'[t].rev <= job'[Min(srv'[t].todo)].rev
    BY <1>2, <1>4, <1>7, <1>10, RowsUnread DEF IInv, LocksOK
  <2>4. QED BY <2>1, <2>2, <2>3 DEF LocksOK
<1>19. QED BY <1>2, <1>11, <1>14, <1>17, <1>18, RowsUnread DEF IInv

\* What is packed is nowhere behind what was planned, nor behind any promise.
LEMMA PackHolds ==
    ASSUME IInv, NEW s \in Servers, Pack(s)
    PROVE  IInv'
<1> DEFINE o == srv[s]
           i == Min(o.set)
           F == Files(o.set)
           r == IF F = o.plan THEN [srv[s] EXCEPT !.pc = "built"]
                ELSE [srv[s] EXCEPT !.pc = "refresh", !.todo = o.set]
<1>1. /\ o \in Server /\ Good(o, Kept, Vouched, link, job) /\ o.pc = "pack"
      /\ o.link \in Links /\ o.goal \in {"issue", "deliver"} /\ o.set \subseteq Jobs
      /\ \A k \in o.set : saved[k] # 0
  BY ServerFits DEF Pack, Server
<1>2. /\ archive' = [archive EXCEPT ![i] = [tag |-> o.plan, holds |-> F]] /\ Go(s, r)
      /\ UNCHANGED <<job, saved, made, flock, batchLock, link, used, ed, left>>
  BY DEF Pack
<1>3. o.batch
  BY <1>1 DEF Good, DeliverOK
<1>4. BuildOK(o, Kept, Vouched, job)
  BY <1>1, <1>3 DEF Good, Building
<1>5. /\ o.todo = {} /\ DOMAIN o.plan = o.set /\ \A k \in o.set : o.plan[k] \in Kept[k]
  BY <1>1, <1>4 DEF BuildOK
<1>6. /\ o.set # {} /\ Aim(o) \in [Jobs -> 0..MaxRevision]
      /\ \A k \in Jobs : Aim(o)[k] \in Kept[k]
  BY <1>1, <1>3, <1>5, Refreshed
<1>7. i \in Jobs
  BY <1>1, <1>6, LeastIn
<1>8. F \in Content /\ DOMAIN F = o.set /\ \A k \in o.set : F[k] = saved[k]
  BY <1>1, FilesFit DEF IInv, Files
<1>9. r \in Server /\ r.link = o.link /\ r.goal = o.goal /\ r.batch = o.batch
      /\ r.floor = o.floor /\ r.set = o.set /\ r.snap = o.snap /\ r.got = o.got
      /\ \/ r.pc = "built" /\ r.todo = o.todo
         \/ r.pc = "refresh" /\ r.todo = o.set
  BY <1>1 DEF Server
<1> HIDE DEF r, F, i
<1>10. /\ archive' \in [Jobs -> Archive \cup {None}]
       /\ \A k \in Jobs : archive'[k] = IF k = i THEN [tag |-> o.plan, holds |-> F] ELSE archive[k]
  BY <1>1, <1>2, <1>7, <1>8 DEF IInv, TypeOK, Archive, Server
<1>11. /\ srv' \in [Servers -> Server]
       /\ \A t \in Servers : srv'[t] = IF t = s THEN r ELSE srv[t]
  BY <1>2, <1>9 DEF IInv, TypeOK, Go
<1> HIDE DEF o
<1>12. TypeOK'
  BY <1>2, <1>10, <1>11 DEF IInv, TypeOK
<1>13. Kept' = Kept
  <2>1. \A t \in Servers : /\ srv'[t].pc = "write" <=> srv[t].pc = "write"
                           /\ srv'[t].pc = "write" => srv'[t] = srv[t]
    BY <1>1, <1>9, <1>11 DEF o
  <2>2. QED BY <1>2, <2>1 DEF Kept
<1>14. \A k \in o.set : \A x \in Kept[k] : x <= F[k]
  BY <1>1, <1>8 DEF Kept
<1>15. \A k \in Jobs : Vouched[k] \subseteq Vouched'[k]
  <2> SUFFICES ASSUME NEW k \in Jobs, NEW f \in Vouched[k] PROVE f \in Vouched'[k]
    OBVIOUS
  <2>1. f \in [Jobs -> 0..MaxRevision] /\ \A m \in Jobs : f[m] \in Kept'[m]
    BY <1>13 DEF Vouched
  <2>2. CASE k # i
    BY <1>10, <2>1, <2>2 DEF Vouched
  <2>3. CASE k = i
    <3>1. DOMAIN archive'[k].holds = o.set /\ archive'[k].holds = F
      BY <1>8, <1>10, <2>3
    <3>2. \A m \in o.set : f[m] <= F[m]
      BY <1>1, <1>13, <1>14, <2>1
    <3>3. QED BY <2>1, <3>1, <3>2 DEF Vouched
  <2>4. QED BY <2>2, <2>3
<1>16. Grows
  BY <1>2, <1>13, <1>15, RowsUnread DEF Grows
<1>17. Good(r, Kept', Vouched', link', job')
  <2>1. Aim(r) = Aim(o)
    BY <1>9 DEF Aim
  <2>2. Aim(o) \in Vouched'[i]
    <3>1. DOMAIN archive'[i].holds = o.set /\ archive'[i].holds = F
      BY <1>7, <1>8, <1>10
    <3>2. \A m \in o.set : Aim(o)[m] <= F[m]
      BY <1>1, <1>6, <1>14
    <3>3. QED BY <1>6, <1>7, <1>13, <3>1, <3>2 DEF Vouched
  <2>3. BuildOK(r, Kept', Vouched', job')
    BY <1>2, <1>3, <1>4, <1>5, <1>9, <1>13, <2>1, <2>2 DEF BuildOK, i
  <2>4. DeliverOK(r, Vouched', link', job')
    BY <1>1, <1>2, <1>3, <1>9 DEF Good, DeliverOK, Delivering, Streamed
  <2>5. QED BY <1>1, <1>2, <1>9, <2>3, <2>4 DEF Good
<1>18. SameLink(srv[s], r)
  BY <1>1, <1>9 DEF SameLink, o
<1>19. LinksOK' /\ ServersOK'
  BY <1>2, <1>11, <1>16, <1>17, <1>18, RowsUnread, OthersStay
<1>20. FilesOK'
  <2>1. \A k \in Jobs : saved'[k] \in Kept'[k]
    BY <1>2, <1>13 DEF IInv, FilesOK
  <2>2. \A k \in o.set : o.plan[k] <= F[k] /\ F[k] <= job[k].rev
    <3>1. \A k \in o.set : saved[k] \in Kept[k]
      BY <1>1 DEF IInv, FilesOK
    <3>2. QED BY <1>1, <1>5, <1>8, <1>14, <3>1 DEF Kept
  <2>3. DOMAIN F = DOMAIN o.plan
    BY <1>5, <1>8
  <2>4. ASSUME NEW m \in Jobs, archive'[m] # None
        PROVE  /\ DOMAIN archive'[m].tag = DOMAIN archive'[m].holds
               /\ \A k \in DOMAIN archive'[m].holds :
                     /\ archive'[m].tag[k] <= archive'[m].holds[k]
                     /\ archive'[m].holds[k] <= job'[k].rev
    <3>1. CASE m = i
      <4>1. archive'[m].tag = o.plan /\ archive'[m].holds = F
        BY <1>10, <3>1
      <4>2. QED BY <1>2, <1>8, <2>2, <2>3, <4>1
    <3>2. CASE m # i
      BY <1>2, <1>10, <2>4, <3>2 DEF IInv, FilesOK
    <3>3. QED BY <3>1, <3>2
  <2>5. QED BY <2>1, <2>4 DEF FilesOK
<1>21. LocksOK'
  <2>1. \A t \in Servers : srv'[t].pc = "write" => srv'[t] = srv[t]
    BY <1>9, <1>11
  <2>2. \A t \in Servers : srv'[t].pc = "write" =>
          /\ Min(srv'[t].todo) \in Done' /\ flock'[Min(srv'[t].todo)] = t
          /\ srv'[t].rev <= job'[Min(srv'[t].todo)].rev
    BY <1>2, <2>1, RowsUnread DEF IInv, LocksOK
  <2>3. QED BY <1>2, <2>2, RowsUnread DEF IInv, LocksOK
<1>22. QED BY <1>2, <1>12, <1>19, <1>20, <1>21, RowsUnread DEF IInv

-----------------------------------------------------------------------------
(* The theorems                                                            *)

LEMMA InitHolds == ASSUME Init PROVE IInv
<1>1. 0 \in 0..MaxRevision /\ 1 \in 0..MaxRevision /\ 1 \in 0..MaxAttempts
  BY DeliveryAssumption
<1>2. /\ \A j \in Jobs : /\ job[j].state \in {"succeeded", "failed"} /\ job[j] \in Job
                         /\ job[j].attempt = 1
                         /\ job[j].rev = IF job[j].state = "succeeded" THEN 1 ELSE 0
      /\ job \in [Jobs -> Job]
  BY <1>1 DEF Init, Job, States
<1>3. /\ saved \in [Jobs -> 0..MaxRevision]
      /\ \A j \in Jobs : saved[j] = job[j].rev
  BY <1>1, <1>2 DEF Init
<1>4. /\ \A j \in Jobs : archive[j] = None /\ flock[j] = None
      /\ \A l \in Links : link[l] = None
      /\ \A e \in Editors : ed[e] = NoEdit
      /\ \A s \in Servers : srv[s] = Waiting
  BY DEF Init
<1>5. TypeOK
  <2>1. left \in [Events -> Nat]
    BY DeliveryAssumption DEF Init
  <2>2. QED BY <1>2, <1>3, <2>1, NoEditFits, WaitingFits DEF Init, TypeOK
<1>6. RowsOK
  BY <1>2 DEF Init, RowsOK, Done, Live
<1>7. FilesOK
  <2>1. ASSUME NEW j \in Jobs PROVE saved[j] \in Kept[j]
    BY <1>2, <1>3, <1>4, NoEditFits DEF Kept, Waiting, Job
  <2>2. QED BY <1>4, <2>1 DEF FilesOK
<1>8. LocksOK
  BY <1>4, NoEditFits DEF LocksOK, Waiting
<1>9. LinksOK /\ ServersOK
  <2>1. LinksOK
    BY <1>4 DEF LinksOK, Waiting
  <2>2. \A s \in Servers : Good(Waiting, Kept, Vouched, link, job)
    BY WaitingGood
  <2>3. QED BY <1>4, <2>1, <2>2 DEF ServersOK
<1>10. QED BY <1>5, <1>6, <1>7, <1>8, <1>9 DEF IInv

LEMMA RequestHolds == ASSUME IInv, NEW s \in Servers, Request(s) PROVE IInv'
<1>1. CASE \E l \in Links : AskPackage(s, l) \/ AskArchive(s, l)
  BY <1>1, AskHolds
<1>2. CASE \E l \in Links : Deliver(s, l)
  BY <1>2, DeliverHolds
<1>3. CASE TakeBatchLock(s)
  BY <1>3, TakeBatchLockHolds
<1>4. CASE Before(s)
  BY <1>4, BeforeHolds
<1>5. CASE ReadRows(s)
  BY <1>5, ReadRowsHolds
<1>6. CASE WriteFiles(s)
  BY <1>6, WriteFilesHolds
<1>7. CASE Collect(s)
  BY <1>7, CollectHolds
<1>8. CASE Pack(s)
  BY <1>8, PackHolds
<1>9. CASE Issue(s)
  BY <1>9, IssueHolds
<1>10. CASE Consume(s)
  BY <1>10, ConsumeHolds
<1>11. CASE Again(s)
  BY <1>11, AgainHolds
<1>12. CASE Stream(s)
  BY <1>12, StreamHolds
<1>13. CASE Fail(s)
  BY <1>13, FailHolds
<1>14. CASE Purge(s)
  BY <1>14, PurgeHolds
<1>15. CASE Delete(s)
  BY <1>15, DeleteHolds
<1> HIDE DEF IInv
<1>16. QED
  BY <1>1, <1>2, <1>3, <1>4, <1>5, <1>6, <1>7, <1>8, <1>9, <1>10, <1>11, <1>12, <1>13,
     <1>14, <1>15 DEF Request

LEMMA CorrectionHolds == ASSUME IInv, NEW e \in Editors, Correction(e) PROVE IInv'
<1>1. CASE EditRefresh(e)
  <2>1. ed[e].pc \in {"refresh", "write"}
    BY <1>1 DEF EditRefresh
  <2>2. QED BY <1>1, <2>1, EditReads, EditWrites
<1>2. QED BY <1>1, EditHolds, EditRefreshFailsHolds DEF Correction

LEMMA StutterHolds == ASSUME IInv, UNCHANGED vars PROVE IInv'
<1>1. TypeOK'
  BY DEF IInv, TypeOK, vars
<1>2. RowsOK' /\ Done' = Done
  BY DEF IInv, RowsOK, Done, Live, vars
<1>3. Kept' = Kept
  BY DEF Kept, vars
<1>4. Vouched' = Vouched
  BY <1>3 DEF Vouched, vars
<1>5. FilesOK' /\ LocksOK'
  BY <1>2, <1>3 DEF IInv, FilesOK, LocksOK, vars
<1>6. LinksOK' /\ ServersOK'
  BY <1>3, <1>4 DEF IInv, LinksOK, ServersOK, vars
<1>7. QED BY <1>1, <1>2, <1>5, <1>6 DEF IInv

LEMMA NextHolds == ASSUME IInv, [Next]_vars PROVE IInv'
<1>1. CASE \E j \in Jobs : Recording(j)
  BY <1>1, RecordingHolds
<1>2. CASE \E e \in Editors : Correction(e)
  BY <1>2, CorrectionHolds
<1>3. CASE \E s \in Servers : Request(s)
  BY <1>3, RequestHolds
<1>4. CASE Sweep
  BY <1>4, SweepHolds
<1>5. CASE Restart
  BY <1>5, RestartHolds
<1>6. CASE UNCHANGED vars
  BY <1>6, StutterHolds
<1>7. QED BY <1>1, <1>2, <1>3, <1>4, <1>5, <1>6 DEF Next

THEOREM Invariance == Spec => []IInv
<1>1. Init => IInv
  BY InitHolds
<1>2. IInv /\ [Next]_vars => IInv'
  BY NextHolds
<1>3. QED BY <1>1, <1>2, PTL DEF Spec

\* The rows, files, locks, links and the memory of every thread have their
\* types in every state of the delivery of a batch.
THEOREM Typing == Spec => []TypeOK
<1>1. IInv => TypeOK
  BY DEF IInv
<1>2. QED BY <1>1, Invariance, PTL

\* Whatever is edited, rebuilt, repackaged, retried or lost meanwhile, what a
\* link streams is nowhere older than what had been reviewed when the link was
\* asked for (refresh_review_exports, build_batch_archive, deliver).
THEOREM StreamsReviewed == Spec => []StreamsWhatWasReviewed
<1>1. ASSUME IInv PROVE StreamsWhatWasReviewed
  <2> SUFFICES ASSUME NEW s \in Servers, NEW k \in DOMAIN srv[s].got
               PROVE  srv[s].got[k] >= srv[s].floor[k]
    BY DEF StreamsWhatWasReviewed
  <2>1. srv[s].floor[k] <= srv[s].got[k]
    BY <1>1, ServerFits DEF Good, DeliverOK
  <2>2. QED BY <2>1
<1>2. IInv => StreamsWhatWasReviewed
  BY <1>1
<1>3. QED BY <1>2, Invariance, PTL

\* A deletion after the response begins only from the thread whose purge it is.
LEMMA PurgeOnly ==
    ASSUME IInv, Next, NEW s \in Servers, srv[s].pc = "purge", srv'[s].pc = "files"
    PROVE  Purge(s)
<1>1. srv' # srv
  OBVIOUS
<1>2. /\ ~(\E j \in Jobs : Recording(j)) /\ ~(\E e \in Editors : Correction(e)) /\ ~Sweep
  BY <1>1 DEF Recording, Retry, Work, Untouched, Correction, Edit, EditRefresh,
              EditRefreshFails, Sweep
<1>3. ~Restart
  BY DEF Restart, Waiting
<1>4. PICK t \in Servers : Request(t)
  BY <1>2, <1>3 DEF Next
<1>5. ASSUME NEW r, Go(t, r) PROVE t = s
  BY <1>5 DEF Go, IInv, TypeOK
<1>6. t = s
  <2>1. \E r : Go(t, r)
    BY <1>1, <1>4 DEF Request, AskPackage, AskArchive, Ask, Deliver, TakeBatchLock, Before,
         ReadRows, WriteFiles, Collect, Pack, Issue, Consume, Again, Stream, Fail, Purge, Delete
  <2>2. QED BY <1>5, <2>1
<1>7. QED BY <1>4, <1>6 DEF Request, AskPackage, AskArchive, Ask, Deliver, TakeBatchLock, Before,
         ReadRows, WriteFiles, Collect, Pack, Issue, Consume, Again, Stream, Fail, Delete

\* A link of the batch deletes only when it has just streamed the present
\* revision of every recording that its archive holds (deliver,
\* delete_batch_if_unchanged).
THEOREM PurgeIsSafe == Spec => PurgeKeepsEdits
<1>1. ASSUME IInv, Next, NEW s \in Servers, srv[s].pc = "purge", srv[s].batch,
             srv'[s].pc = "files", NEW k \in DOMAIN srv[s].got
      PROVE  srv[s].got[k] = job[k].rev
  <2>1. srv[s] \in Server /\ Good(srv[s], Kept, Vouched, link, job)
    BY <1>1, ServerFits
  <2>2. Purge(s)
    BY <1>1, PurgeOnly
  <2>3. srv'[s] = IF MayPurge(s) THEN [srv[s] EXCEPT !.pc = "files"] ELSE Waiting
    BY <1>1, <2>2 DEF Purge, Go, IInv, TypeOK
  <2>4. MayPurge(s)
    BY <1>1, <2>3 DEF Waiting
  <2>5. srv[s].snap = job
    BY <1>1, <2>4 DEF MayPurge, Snapshot
  <2>6. k \in Jobs /\ srv[s].got[k] \in 0..MaxRevision /\ job[k].rev \in 0..MaxRevision
    BY <1>1, <2>1, ContentFits DEF Server, IInv, TypeOK, Job
  <2>7. /\ srv[s].goal = "deliver"
        /\ Aim(srv[s])[k] <= srv[s].got[k] /\ srv[s].got[k] <= job[k].rev
    BY <1>1, <2>1 DEF Good, DeliverOK, Delivering
  <2>8. Aim(srv[s])[k] = job[k].rev
    BY <2>5, <2>6, <2>7 DEF Aim
  <2>9. QED BY <2>6, <2>7, <2>8
<1>2. ASSUME IInv, Next
      PROVE  \A s \in Servers :
                srv[s].pc = "purge" /\ srv[s].batch /\ srv'[s].pc = "files" =>
                   \A j \in DOMAIN srv[s].got : srv[s].got[j] = job[j].rev
  BY <1>1, <1>2
<1>3. IInv /\ [Next]_vars =>
        [\A s \in Servers :
            srv[s].pc = "purge" /\ srv[s].batch /\ srv'[s].pc = "files" =>
               \A j \in DOMAIN srv[s].got : srv[s].got[j] = job[j].rev]_vars
  BY <1>2
<1>4. QED BY <1>3, Invariance, PTL DEF Spec, PurgeKeepsEdits
===============================================================================
