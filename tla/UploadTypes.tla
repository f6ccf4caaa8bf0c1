---------------------------- MODULE UploadTypes ----------------------------
(***************************************************************************)
(* Type correctness of the actions of SourceIntake and UploadSessions, for *)
(* any sources, items and threads.                                         *)
(***************************************************************************)
EXTENDS UploadSessions, TLAPS

\* A thread that is at work has a document.
IntakeTyped == /\ IntakeTypeOK
               /\ \A w \in IngestWorkers : iw[w].pc # "idle" => iw[w].doc \in Docs

-----------------------------------------------------------------------------
(* Ingestion                                                               *)

\* A document stays a document when a field is replaced.
LEMMA DocFields ==
  ASSUME NEW r \in Doc
  PROVE  /\ r.units + 1 \in Nat
         /\ \A s \in {"none", "queued", "processing", "ready", "failed", "needs_ocr",
                      "removed"} :
              /\ [r EXCEPT !.state = s] \in Doc
              /\ [r EXCEPT !.state = s, !.basis = None] \in Doc
         /\ \A b \in Bases : \A n \in Nat :
              /\ [r EXCEPT !.units = n, !.basis = b] \in Doc
              /\ [r EXCEPT !.state = "ready", !.units = n, !.basis = b] \in Doc
<1>1. r.units + 1 \in Nat
  BY DEF Doc
<1>2. \A s \in {"none", "queued", "processing", "ready", "failed", "needs_ocr", "removed"} :
        /\ [r EXCEPT !.state = s] \in Doc
        /\ [r EXCEPT !.state = s, !.basis = None] \in Doc
  BY DEF Doc
<1>3. \A b \in Bases : \A n \in Nat :
        /\ [r EXCEPT !.units = n, !.basis = b] \in Doc
        /\ [r EXCEPT !.state = "ready", !.units = n, !.basis = b] \in Doc
  BY DEF Doc
<1>4. QED BY <1>1, <1>2, <1>3

LEMMA SpendTyped ==
  ASSUME left \in [Events -> Nat], NEW e \in Events, Spend(e)
  PROVE  left' \in [Events -> Nat]
BY DEF Spend

LEMMA IntakeInitTyped == ASSUME IntakeInit PROVE IntakeTyped
BY DocsAssumption, EventsAssumption
DEF IntakeInit, IntakeTyped, IntakeTypeOK, Doc, JobStates, Thread, Resting

LEMMA RequestsTyped ==
  ASSUME IntakeTyped, NEW d \in Docs,
         Upload(d) \/ QueueUpload(d) \/ RetryDocument(d) \/ RetryJob(d) \/ Remove(d)
           \/ Correct(d)
  PROVE  IntakeTyped'
<1> USE DEF IntakeTyped, IntakeTypeOK
<1>1. CASE Upload(d)
  BY <1>1, DocFields, SpendTyped, EventsAssumption DEF Upload
<1>2. CASE QueueUpload(d)
  BY <1>2 DEF QueueUpload, JobStates
<1>3. CASE RetryDocument(d)
  BY <1>3, DocFields DEF RetryDocument
<1>4. CASE RetryJob(d)
  BY <1>4 DEF RetryJob, JobStates
<1>5. CASE Remove(d)
  BY <1>5, DocFields, SpendTyped, EventsAssumption DEF Remove, JobStates, Bare
<1>6. CASE Correct(d)
  <2>1. doc[d] \in Doc
    OBVIOUS
  <2>2. PICK b \in Bases : doc' = [doc EXCEPT ![d].units = @ + 1, ![d].basis = b]
    BY <1>6 DEF Correct
  <2>3. doc' = [doc EXCEPT ![d] = [@ EXCEPT !.units = doc[d].units + 1, !.basis = b]]
    BY <2>2
  <2>4. doc' \in [Docs -> Doc]
    BY <2>1, <2>3, DocFields
  <2>5. left' \in [Events -> Nat]
    BY <1>6, SpendTyped, EventsAssumption DEF Correct
  <2>6. QED BY <1>6, <2>4, <2>5 DEF Correct
<1>7. QED BY <1>1, <1>2, <1>3, <1>4, <1>5, <1>6

LEMMA EndWithTyped ==
  ASSUME iw \in [IngestWorkers -> Thread], NEW w \in IngestWorkers, NEW ok \in BOOLEAN,
         EndWith(w, ok)
  PROVE  /\ iw' \in [IngestWorkers -> Thread]
         /\ \A v \in IngestWorkers : iw'[v].doc = iw[v].doc /\ (v # w => iw'[v] = iw[v])
BY DEF EndWith, Thread

LEMMA IngestTyped ==
  ASSUME IntakeTyped, NEW w \in IngestWorkers, Ingest(w)
  PROVE  IntakeTyped'
<1> USE DEF IntakeTyped, IntakeTypeOK
<1>1. ASSUME NEW d \in Docs, Claim(w, d) PROVE IntakeTyped'
  BY <1>1 DEF Claim, JobStates, Thread
<1>2. CASE Stage(w)
  <2>1. Staged(iw[w].doc) \in Registered \X {"staged", "leftover"}
    BY <1>2 DEF Stage, Staged
  <2>2. QED BY <1>2, <2>1 DEF Stage, Goto, Thread
<1>3. CASE Process(w)
  BY <1>3, DocFields DEF Process, Bare, Goto, Thread
<1>4. CASE Refuse(w)
  <2>1. iw[w].doc \in Docs
    BY <1>4 DEF Refuse
  <2>2. doc' \in [Docs -> Doc]
    <3>1. doc[iw[w].doc] \in Doc
      BY <2>1
    <3>2. QED BY <1>4, <3>1, DocFields DEF Refuse, Bare
  <2>3. left' \in [Events -> Nat]
    BY <1>4, SpendTyped, EventsAssumption DEF Refuse
  <2>4. EndWith(w, FALSE)
    BY <1>4 DEF Refuse
  <2>5. copies' \subseteq Registered \X {"staged", "leftover"}
    BY <1>4 DEF Refuse, FailedCopies, Copying, Leftover
  <2>6. QED BY <1>4, <2>1, <2>2, <2>3, <2>4, <2>5, EndWithTyped DEF Refuse
<1>5. CASE Extract(w)
  <2>1. iw[w].doc \in Docs
    BY <1>5 DEF Extract
  <2>2. doc' \in [Docs -> Doc]
    <3>1. doc[iw[w].doc] \in Doc
      BY <2>1
    <3>2. ASSUME NEW b \in Bases,
                 doc' = [doc EXCEPT ![iw[w].doc].state = "ready", ![iw[w].doc].units = @ + 1,
                                    ![iw[w].doc].basis = b]
          PROVE  doc' \in [Docs -> Doc]
      <4>1. doc' = [doc EXCEPT ![iw[w].doc] = [@ EXCEPT !.state = "ready",
                                 !.units = doc[iw[w].doc].units + 1, !.basis = b]]
        BY <3>2, <2>1
      <4>2. QED BY <4>1, <3>1, DocFields
    <3>3. ASSUME NEW s \in {"needs_ocr", "failed"}, doc' = [doc EXCEPT ![iw[w].doc] = Bare(iw[w].doc, s)]
          PROVE  doc' \in [Docs -> Doc]
      BY <3>1, <3>3, DocFields DEF Bare
    <3>4. QED BY <1>5, <3>2, <3>3 DEF Extract
  <2>3. iw' \in [IngestWorkers -> Thread] /\ \A v \in IngestWorkers : iw'[v].doc = iw[v].doc
    BY <1>5 DEF Extract, Goto, EndWith, Thread
  <2>4. left' \in [Events -> Nat]
    BY <1>5, SpendTyped, EventsAssumption DEF Extract
  <2>5. QED BY <1>5, <2>1, <2>2, <2>3, <2>4 DEF Extract, Goto, EndWith
<1>6. CASE Index(w)
  <2>1. iw[w].doc \in Docs
    BY <1>6 DEF Index
  <2>2. doc' \in [Docs -> Doc]
    <3>1. doc[iw[w].doc] \in Doc
      BY <2>1
    <3>2. QED BY <1>6, <3>1, DocFields DEF Index, Bare
  <2>3. EndWith(w, TRUE) \/ EndWith(w, FALSE)
    BY <1>6 DEF Index
  <2>4. left' \in [Events -> Nat]
    BY <1>6, SpendTyped, EventsAssumption DEF Index
  <2>5. QED BY <1>6, <2>1, <2>2, <2>3, <2>4, EndWithTyped DEF Index
<1>7. CASE Cleanup(w)
  <2>1. iw' \in [IngestWorkers -> Thread]
    <3>1. Resting \in Thread
      BY DEF Resting, Thread
    <3>2. CASE Goto(w, "finishing")
      BY <3>2 DEF Goto, Thread
    <3>3. CASE iw' = [iw EXCEPT ![w] = Resting]
      BY <3>1, <3>3
    <3>4. QED BY <1>7, <3>2, <3>3 DEF Cleanup, AfterFailedCleanup
  <2>2. \A v \in IngestWorkers : iw'[v].pc # "idle" => iw'[v].doc = iw[v].doc /\ iw[v].pc # "idle"
    BY <1>7 DEF Cleanup, Goto, AfterFailedCleanup, Resting, Thread
  <2>3. left' \in [Events -> Nat]
    BY <1>7, SpendTyped, EventsAssumption DEF Cleanup
  <2>4. QED BY <1>7, <2>1, <2>2, <2>3 DEF Cleanup
<1>8. CASE Finish(w)
  BY <1>8, SpendTyped, EventsAssumption DEF Finish, Resting, JobStates, Thread
<1>9. QED BY <1>1, <1>2, <1>3, <1>4, <1>5, <1>6, <1>7, <1>8 DEF Ingest

LEMMA BootTyped ==
  ASSUME IntakeTyped, Stop \/ Down \/ ReconcileStaging \/ RecoverJobs
  PROVE  IntakeTyped'
<1> USE DEF IntakeTyped, IntakeTypeOK
<1>1. CASE Stop
  BY <1>1 DEF Stop
<1>2. CASE Down
  <2>1. iw' \in [IngestWorkers -> Thread] /\ \A w \in IngestWorkers : iw'[w].pc = "idle"
    BY <1>2 DEF Down, Resting, Thread
  <2>2. left' \in [Events -> Nat]
    BY <1>2, SpendTyped, EventsAssumption DEF Down
  <2>3. QED BY <1>2, <2>1, <2>2 DEF Down
<1>3. CASE ReconcileStaging
  BY <1>3 DEF ReconcileStaging
<1>4. CASE RecoverJobs
  BY <1>4 DEF RecoverJobs, JobStates
<1>5. QED BY <1>1, <1>2, <1>3, <1>4

LEMMA IntakeStepTyped == ASSUME IntakeTyped, IntakeStep PROVE IntakeTyped'
BY RequestsTyped, IngestTyped, BootTyped DEF IntakeStep

-----------------------------------------------------------------------------
(* Uploads                                                                 *)

\* A thread that serves a request about an item has that item; one that goes on
\* to commit it has its document.
Fits(r) == /\ r \in Uploader
           /\ r.pc \notin {"idle", "cancel", "drop"} => r.item \in Items
           /\ r.pc \in {"check", "finish"} => r.doc \in Docs

UploadTyped ==
    /\ UploadTypeOK
    /\ \A u \in Uploaders : Fits(up[u])

LEMMA UploadInitTyped == ASSUME UploadInit PROVE UploadTyped
BY UploadAssumption
DEF UploadInit, UploadTyped, UploadTypeOK, Fits, Item, Open, Settled, Uploader, Serving

LEMMA ItemFields ==
  ASSUME NEW r \in Item
  PROVE  /\ \A s \in Open \cup Settled : [r EXCEPT !.state = s] \in Item
         /\ \A s \in Open \cup Settled :
              [r EXCEPT !.state = s, !.version = None] \in Item
         /\ \A n \in 0..Chunks : \A s \in Open \cup Settled :
              [r EXCEPT !.received = n, !.state = s] \in Item
         /\ \A v \in Docs \cup {None} : \A s \in Open \cup Settled :
              [r EXCEPT !.version = v, !.state = s] \in Item
         /\ \A v \in Docs \cup {None} : \A s \in Open \cup Settled : \A d \in Docs :
              [r EXCEPT !.version = v, !.state = s, !.doc = d] \in Item
BY DEF Item

LEMMA UploaderTo ==
  ASSUME UploadTyped, NEW u \in Uploaders, NEW r, Fits(r), Serve(u, r)
  PROVE  /\ up' \in [Uploaders -> Uploader]
         /\ \A v \in Uploaders : Fits(up'[v])
         /\ up'[u] = r
         /\ \A v \in Uploaders \ {u} : up'[v] = up[v]
BY DEF Serve, Fits, UploadTyped, UploadTypeOK

UploaderStates == {"idle", "record", "store", "check", "finish", "discard", "refused", "fail",
                   "cancel", "drop"}

LEMMA UploaderFields ==
  /\ Serving \in Uploader
  /\ \A r \in Uploader : \A pc \in UploaderStates : [r EXCEPT !.pc = pc] \in Uploader
  /\ \A r \in Uploader : \A pc \in UploaderStates : \A i \in Items :
       [r EXCEPT !.pc = pc, !.item = i] \in Uploader
  /\ \A r \in Uploader : \A pc \in UploaderStates : \A d \in Docs :
       [r EXCEPT !.pc = pc, !.doc = d] \in Uploader
<1>1. Serving \in Uploader
  BY DEF Serving, Uploader
<1>2. \A r \in Uploader : \A pc \in UploaderStates : [r EXCEPT !.pc = pc] \in Uploader
  BY DEF Uploader, UploaderStates
<1>3. \A r \in Uploader : \A pc \in UploaderStates : \A i \in Items :
        [r EXCEPT !.pc = pc, !.item = i] \in Uploader
  BY DEF Uploader, UploaderStates
<1>4. \A r \in Uploader : \A pc \in UploaderStates : \A d \in Docs :
        [r EXCEPT !.pc = pc, !.doc = d] \in Uploader
  BY DEF Uploader, UploaderStates
<1>5. QED BY <1>1, <1>2, <1>3, <1>4

LEMMA ServingFits == Fits(Serving)
BY UploaderFields DEF Fits, Serving

LEMMA FitsGoesOn ==
  ASSUME NEW r, Fits(r)
  PROVE  /\ r.pc \notin {"idle", "cancel", "drop"} =>
              /\ \A pc \in {"discard", "refused", "fail"} : Fits([r EXCEPT !.pc = pc])
              /\ \A d \in Docs : Fits([r EXCEPT !.pc = "check", !.doc = d])
         /\ r.pc \in {"check", "finish"} => Fits([r EXCEPT !.pc = "finish"])
<1> USE DEF Fits, Uploader
<1>1. r.pc \notin {"idle", "cancel", "drop"} =>
        \A pc \in {"discard", "refused", "fail"} : Fits([r EXCEPT !.pc = pc])
  OBVIOUS
<1>2. r.pc \notin {"idle", "cancel", "drop"} =>
        \A d \in Docs : Fits([r EXCEPT !.pc = "check", !.doc = d])
  OBVIOUS
<1>3. r.pc \in {"check", "finish"} => Fits([r EXCEPT !.pc = "finish"])
  OBVIOUS
<1>4. QED BY <1>1, <1>2, <1>3

\* The rows: one item takes a new form, or the session and its receipt do.
LEMMA ItemTo ==
  ASSUME item \in [Items -> Item], NEW i \in Items, NEW r \in Item,
         item' = [item EXCEPT ![i] = r]
  PROVE  item' \in [Items -> Item]
OBVIOUS

LEMMA SessionTyped ==
  ASSUME NEW rows, NEW done \in {"partial", "complete"}
  PROVE  SessionOf(rows, done) \in {"open", "partial", "complete"}
BY DEF SessionOf

LEMMA ReceiptTyped ==
  ASSUME UploadTyped, CreateSession \/ DiscardReceipt
  PROVE  UploadTyped'
<1> USE DEF UploadTyped, UploadTypeOK
<1>1. CASE CreateSession
  <2>1. item' \in [Items -> Item]
    BY <1>1, ItemFields DEF CreateSession, Open
  <2>2. QED BY <1>1, <2>1 DEF CreateSession
<1>2. CASE DiscardReceipt
  <2>1. item' \in [Items -> Item]
    BY <1>2, ItemFields DEF DiscardReceipt, Settled
  <2>2. part' \in [Items -> 0..Chunks]
    <3>1. 0 \in 0..Chunks
      BY UploadAssumption
    <3>2. QED BY <1>2, <3>1 DEF DiscardReceipt
  <2>3. QED BY <1>2, <2>1, <2>2 DEF DiscardReceipt
<1>3. QED BY <1>1, <1>2

LEMMA ChunksTyped ==
  ASSUME UploadTyped, NEW u \in Uploaders, NEW i \in Items, AppendChunk(u, i) \/ RecordChunk(u)
  PROVE  UploadTyped'
<1> USE DEF UploadTyped, UploadTypeOK
<1>1. CASE AppendChunk(u, i)
  <2>1. Grown(part[i]) \in Open
    BY DEF Grown, Open
  <2>2. part[i] \in 0..Chunks
    OBVIOUS
  <2>3. [item[i] EXCEPT !.received = part[i], !.state = Grown(part[i])] \in Item
    BY <2>1, <2>2, ItemFields
  <2>4. item' \in [Items -> Item]
    <3>1. item' = item \/ item' = [item EXCEPT ![i] = [@ EXCEPT !.received = part[i], !.state = Grown(part[i])]]
      BY <1>1 DEF AppendChunk
    <3>2. QED BY <2>3, <3>1
  <2>5. part' \in [Items -> 0..Chunks]
    BY <1>1, UploadAssumption DEF AppendChunk
  <2>6. Fits([Serving EXCEPT !.pc = "record", !.item = i])
    BY UploaderFields DEF UploaderStates, Fits, Serving
  <2>7. Serve(u, [Serving EXCEPT !.pc = "record", !.item = i])
    BY <1>1 DEF AppendChunk
  <2>8. QED BY <1>1, <2>4, <2>5, <2>6, <2>7, UploaderTo DEF AppendChunk
<1>2. CASE RecordChunk(u)
  <2> DEFINE k == up[u].item
  <2>1. k \in Items
    BY <1>2 DEF RecordChunk, Fits
  <2>2. Grown(part[k]) \in Open
    BY DEF Grown, Open
  <2>3. part[k] \in 0..Chunks
    BY <2>1
  <2>4. [item[k] EXCEPT !.received = part[k], !.state = Grown(part[k])] \in Item
    BY <2>1, <2>2, <2>3, ItemFields
  <2>5. item' \in [Items -> Item]
    <3>1. item' = item \/ item' = [item EXCEPT ![k] = [@ EXCEPT !.received = part[k], !.state = Grown(part[k])]]
      BY <1>2 DEF RecordChunk
    <3>2. QED BY <2>1, <2>4, <3>1
  <2>6. Serve(u, Serving)
    BY <1>2 DEF RecordChunk
  <2>7. QED BY <1>2, <2>5, <2>6, ServingFits, UploaderTo DEF RecordChunk
<1>3. QED BY <1>1, <1>2

LEMMA FailTyped ==
  ASSUME UploadTyped, NEW i \in Items, FailItem(i)
  PROVE  item' \in [Items -> Item] /\ session' \in {"open", "partial"}
<1> USE DEF UploadTyped, UploadTypeOK
<1>1. FailedItem(item[i]) \in Item
  BY ItemFields DEF FailedItem, Settled
<1>2. item' = [item EXCEPT ![i] = FailedItem(item[i])]
  BY DEF FailItem
<1>3. item' \in [Items -> Item]
  BY <1>1, <1>2
<1>4. session' \in {"open", "partial"}
  BY DEF FailItem, SessionOf
<1>5. QED BY <1>3, <1>4

LEMMA ReconcileTyped ==
  ASSUME UploadTyped, NEW i \in Items, Reconcile(i)
  PROVE  UploadTyped'
<1> USE DEF UploadTyped, UploadTypeOK
<1>1. CASE FailItem(i)
  BY <1>1, FailTyped DEF Reconcile
<1>2. CASE /\ item' = [item EXCEPT ![i].received = part[i], ![i].state = Grown(part[i])]
           /\ UNCHANGED session
  <2>1. Grown(part[i]) \in Open /\ part[i] \in 0..Chunks
    BY DEF Grown, Open
  <2>2. [item[i] EXCEPT !.received = part[i], !.state = Grown(part[i])] \in Item
    BY <2>1, ItemFields
  <2>3. item' = [item EXCEPT ![i] = [@ EXCEPT !.received = part[i], !.state = Grown(part[i])]]
    BY <1>2
  <2>4. item' \in [Items -> Item]
    BY <2>2, <2>3
  <2>5. QED BY <1>2, <2>4 DEF Reconcile
<1>3. QED BY <1>1, <1>2 DEF Reconcile

LEMMA StoreTyped ==
  ASSUME UploadTyped, NEW u \in Uploaders,
         (\E i \in Items : Finalize(u, i)) \/ RefuseFile(u) \/ StoreFile(u)
  PROVE  UploadTyped'
<1> USE DEF UploadTyped, UploadTypeOK
<1>1. ASSUME NEW i \in Items, Finalize(u, i) PROVE UploadTyped'
  <2>1. Fits([Serving EXCEPT !.pc = "store", !.item = i])
    BY UploaderFields DEF UploaderStates, Fits, Serving
  <2>2. QED BY <1>1, <2>1, UploaderTo DEF Finalize
<1>2. CASE RefuseFile(u)
  <2>1. Fits([up[u] EXCEPT !.pc = "refused"])
    BY <1>2, FitsGoesOn DEF RefuseFile
  <2>2. QED BY <1>2, <2>1, UploaderTo DEF RefuseFile, UpGoto
<1>3. CASE StoreFile(u)
  <2>1. PICK d \in Resumable : /\ Serve(u, [up[u] EXCEPT !.pc = "check", !.doc = d])
                               /\ key' = key \/ key' = [key EXCEPT ![d] = up[u].item]
    BY <1>3 DEF StoreFile
  <2>2. d \in Docs
    BY DocsAssumption
  <2>3. up[u].item \in Items
    BY <1>3 DEF StoreFile, Fits
  <2>4. Fits([up[u] EXCEPT !.pc = "check", !.doc = d])
    BY <1>3, <2>2, FitsGoesOn DEF StoreFile
  <2>5. key' \in [Docs -> Items \cup {None}]
    BY <2>1, <2>3
  <2>6. QED BY <1>3, <2>1, <2>4, <2>5, UploaderTo DEF StoreFile
<1>4. QED BY <1>1, <1>2, <1>3

LEMMA FinishTyped ==
  ASSUME UploadTyped, NEW u \in Uploaders, CheckItem(u) \/ FinishItem(u) \/ FinishRefused(u)
  PROVE  UploadTyped'
<1> USE DEF UploadTyped, UploadTypeOK
<1>1. CASE CheckItem(u)
  <2>1. \A pc \in {"discard", "finish"} : Fits([up[u] EXCEPT !.pc = pc])
    BY <1>1, FitsGoesOn DEF CheckItem
  <2>2. QED BY <1>1, <2>1, ServingFits, UploaderTo DEF CheckItem, UpGoto
<1>2. CASE FinishItem(u)
  <2> DEFINE i == up[u].item
             d == up[u].doc
             v == IF receipt = "held" THEN d ELSE None
             s == IF item[i].state = "uploaded" THEN "queued" ELSE item[i].state
             e == IF item[i].state = "uploaded" THEN d ELSE item[i].doc
  <2>1. i \in Items /\ d \in Docs
    BY <1>2 DEF FinishItem, Fits
  <2>2. item' = [item EXCEPT ![i] = [@ EXCEPT !.version = v, !.state = s, !.doc = e]]
    BY <1>2, <2>1 DEF FinishItem
  <2>3. [item[i] EXCEPT !.version = v, !.state = s, !.doc = e] \in Item
    BY <2>1 DEF Item, Open, Settled
  <2>4. item' \in [Items -> Item]
    BY <2>1, <2>2, <2>3
  <2>5. Fits([up[u] EXCEPT !.pc = "discard"])
    BY <1>2, FitsGoesOn DEF FinishItem
  <2>6. session' \in {"open", "partial", "complete"}
    BY <1>2 DEF FinishItem, SessionOf
  <2>7. QED BY <1>2, <2>4, <2>5, <2>6, UploaderTo DEF FinishItem, UpGoto
<1>3. CASE FinishRefused(u)
  BY <1>3, ServingFits, UploaderTo DEF FinishRefused
<1>4. QED BY <1>1, <1>2, <1>3

LEMMA DiscardTyped ==
  ASSUME UploadTyped, NEW u \in Uploaders, DiscardFile(u) \/ FailRefused(u)
  PROVE  UploadTyped'
<1> USE DEF UploadTyped, UploadTypeOK
<1>1. CASE DiscardFile(u)
  <2>1. 0 \in 0..Chunks
    BY UploadAssumption
  <2>2. part' \in [Items -> 0..Chunks]
    BY <1>1, <2>1 DEF DiscardFile
  <2>3. up[u].pc = "refused" => Fits([up[u] EXCEPT !.pc = "fail"])
    BY <1>1, FitsGoesOn DEF DiscardFile
  <2>4. QED BY <1>1, <2>2, <2>3, ServingFits, UploaderTo DEF DiscardFile, UpGoto
<1>2. CASE FailRefused(u)
  <2>1. up[u].item \in Items
    BY <1>2 DEF FailRefused, Fits
  <2>2. QED BY <1>2, <2>1, FailTyped, ServingFits, UploaderTo DEF FailRefused
<1>3. QED BY <1>1, <1>2

LEMMA CancelTyped ==
  ASSUME UploadTyped, NEW u \in Uploaders, AskCancel(u) \/ CancelSession(u) \/ DropFile(u)
  PROVE  UploadTyped'
<1> USE DEF UploadTyped, UploadTypeOK
<1>1. CASE AskCancel(u)
  <2>1. Fits([Serving EXCEPT !.pc = "cancel"])
    BY UploaderFields DEF UploaderStates, Fits, Serving
  <2>2. QED BY <1>1, <2>1, UploaderTo DEF AskCancel
<1>2. CASE CancelSession(u)
  <2> DEFINE S == {i \in Items : item'[i].state = "cancelled"}
  <2>1. item' \in [Items -> Item]
    BY <1>2, ItemFields DEF CancelSession, Settled
  <2>2. Fits([up[u] EXCEPT !.pc = "drop", !.todo = S])
    <3>1. S \in SUBSET Items
      OBVIOUS
    <3>2. Fits(up[u])
      OBVIOUS
    <3> HIDE DEF S
    <3>3. QED BY <3>1, <3>2 DEF Fits, Uploader
  <2>3. QED BY <1>2, <2>1, <2>2, UploaderTo DEF CancelSession
<1>3. CASE DropFile(u)
  <2>1. 0 \in 0..Chunks
    BY UploadAssumption
  <2>2. CASE up[u].todo = {}
    BY <1>3, <2>2, ServingFits, UploaderTo DEF DropFile
  <2>3. CASE up[u].todo # {}
    <3>1. PICK i \in up[u].todo : /\ part' = [part EXCEPT ![i] = 0]
                                  /\ Serve(u, [up[u] EXCEPT !.todo = @ \ {i}])
      BY <1>3, <2>3 DEF DropFile
    <3>2. up[u].todo \ {i} \in SUBSET Items
      BY DEF Uploader
    <3>3. Fits([up[u] EXCEPT !.todo = @ \ {i}])
      <4> DEFINE T == up[u].todo \ {i}
      <4>1. Fits(up[u]) /\ up[u].pc = "drop" /\ T \in SUBSET Items
        BY <1>3, <3>2 DEF DropFile
      <4> HIDE DEF T
      <4>2. Fits([up[u] EXCEPT !.todo = T])
        BY <4>1 DEF Fits, Uploader
      <4>3. QED BY <4>2 DEF T
    <3>4. part' \in [Items -> 0..Chunks]
      BY <2>1, <3>1
    <3>5. QED BY <1>3, <3>1, <3>3, <3>4, UploaderTo DEF DropFile
  <2>4. QED BY <2>2, <2>3
<1>4. QED BY <1>1, <1>2, <1>3

LEMMA UploadStepTyped == ASSUME UploadTyped, UploadStep PROVE UploadTyped'
<1>1. ASSUME NEW u \in Uploaders, Transfer(u) PROVE UploadTyped'
  <2>1. CASE \E i \in Items : AppendChunk(u, i)
    BY <2>1, ChunksTyped
  <2>2. CASE RecordChunk(u)
    <3>1. up[u].item \in Items
      BY <2>2 DEF RecordChunk, UploadTyped, Fits
    <3>2. QED BY <2>2, <3>1, ChunksTyped
  <2>3. QED BY <1>1, <2>1, <2>2, StoreTyped, FinishTyped, DiscardTyped, CancelTyped DEF Transfer
<1>2. QED BY <1>1, ReceiptTyped, ReconcileTyped DEF UploadStep

LEMMA UploadDownTyped == ASSUME UploadTyped, UploadDown PROVE UploadTyped'
<1>1. up' \in [Uploaders -> Uploader] /\ \A u \in Uploaders : Fits(up'[u])
  BY ServingFits, UploaderFields DEF UploadDown
<1>2. QED BY <1>1 DEF UploadTyped, UploadTypeOK, UploadDown

\* What uploads do to the rest.
LEMMA UploadLeavesTyped ==
  ASSUME IntakeTyped, UploadTyped, UploadStep
  PROVE  IntakeTyped'
<1> USE DEF IntakeTyped, IntakeTypeOK
<1>1. ASSUME NEW e \in Events, Spend(e) PROVE left' \in [Events -> Nat]
  BY <1>1, SpendTyped
<1>2. CASE CreateSession
  BY <1>1, <1>2, UploadAssumption DEF CreateSession, sourceVars
<1>3. CASE DiscardReceipt
  BY <1>3 DEF DiscardReceipt, intakeVars
<1>4. ASSUME NEW i \in Items, Reconcile(i) PROVE IntakeTyped'
  BY <1>4 DEF Reconcile, intakeVars
<1>5. ASSUME NEW u \in Uploaders, Transfer(u) PROVE IntakeTyped'
  <2>1. CASE \E i \in Items : AppendChunk(u, i)
    BY <2>1, UploadAssumption DEF AppendChunk
  <2>2. CASE RecordChunk(u)
    BY <2>2 DEF RecordChunk
  <2>3. CASE RefuseFile(u)
    BY <2>3, <1>1, EventsAssumption DEF RefuseFile, sourceVars
  <2>4. CASE StoreFile(u)
    <3>1. doc' = doc \/ \E d \in Docs : doc' = [doc EXCEPT ![d].state = "queued"]
      BY <2>4, DocsAssumption DEF StoreFile
    <3>2. \A d \in Docs : [doc[d] EXCEPT !.state = "queued"] \in Doc
      BY DocFields
    <3>3. doc' = doc \/ \E d \in Docs : doc' = [doc EXCEPT ![d] = [@ EXCEPT !.state = "queued"]]
      BY <3>1
    <3>4. doc' \in [Docs -> Doc]
      BY <3>2, <3>3
    <3>5. QED BY <2>4, <3>4 DEF StoreFile
  <2>5. CASE FinishItem(u)
    BY <2>5 DEF FinishItem, JobStates
  <2>6. CASE \/ \E i \in Items : Finalize(u, i)
             \/ CheckItem(u) \/ FinishRefused(u) \/ DiscardFile(u) \/ FailRefused(u)
             \/ AskCancel(u) \/ CancelSession(u) \/ DropFile(u)
    BY <2>6 DEF Finalize, CheckItem, FinishRefused, DiscardFile, FailRefused, AskCancel,
       CancelSession, DropFile, intakeVars
  <2>7. QED BY <1>5, <2>1, <2>2, <2>3, <2>4, <2>5, <2>6 DEF Transfer
<1>6. QED BY <1>2, <1>3, <1>4, <1>5 DEF UploadStep
=============================================================================
