---------------------------- MODULE UploadSessions ----------------------------
(***************************************************************************)
(* Resumable uploads into the sources of SourceIntake (workbench.py,       *)
(* pilot_uploads.py, workspace_store.py and intake_receipts.py of          *)
(* src/case_intelligence): one session, bound to the receipt of a          *)
(* selection of files.                                                     *)
(*                                                                         *)
(* The bytes of an item grow in a staged file under the lock of the        *)
(* matter's store; how much was received and what became of the item is a  *)
(* row of the shared database, which is written under another lock.  A     *)
(* finalization creates the document in the registry, then commits the     *)
(* item, then removes the staged file, and each of the three may be the    *)
(* last before a crash.  Clients repeat what they got no answer to.        *)
(***************************************************************************)
EXTENDS SourceIntake

CONSTANTS
    Items,           \* the files of the session
    Uploaders,       \* threads that serve its requests
    Chunks           \* chunks of each file

ASSUME UploadAssumption == /\ Chunks \in Nat \ {0}
                           /\ "sessions" \in Events
                           /\ None \notin Items
                           /\ Uploaders \subseteq Holders

VARIABLES
    item,     \* rows of workbench_upload_item, with workbench_intake_transfer
    session,  \* state of the row of workbench_upload_session
    receipt,  \* whether its receipt is held, or was discarded
    part,     \* chunks in the staged file of each item
    key,      \* the item each document was made of: name_key
    up        \* what each thread holds in memory

uploadVars == <<item, session, receipt, part, key, up>>

-----------------------------------------------------------------------------
(* Rows, files and threads                                                 *)

Open     == {"pending", "uploading", "uploaded"}
Settled  == {"queued", "failed", "cancelled"}

Item == [state    : {"none"} \cup Open \cup Settled,
         received : 0..Chunks,
         doc      : Docs \cup {None},   \* the source it became
         version  : Docs \cup {None}]   \* source_version_id of its transfer

Uploader == [pc   : {"idle", "record", "store", "check", "finish", "discard",
                     "refused", "fail", "cancel", "drop"},
             item : Items \cup {None},
             doc  : Docs \cup {None},
             todo : SUBSET Items]

Serving == [pc |-> "idle", item |-> None, doc |-> None, todo |-> {}]

\* The document in the registry that was made of item i, if any.
Made(i) == {d \in Docs : Exists(d) /\ key[d] = i}

\* What the size says of an item.
Grown(n) == IF n = Chunks THEN "uploaded" ELSE "uploading"

\* The session after a write that leaves the rows as they are in rows.
SessionOf(rows, done) ==
    IF \E i \in Items : rows[i].state \notin Settled THEN "open"
    ELSE IF \E i \in Items : rows[i].state # "queued" THEN "partial" ELSE done

UploadInit ==
    /\ item    = [i \in Items |-> [state |-> "none", received |-> 0, doc |-> None,
                              version |-> None]]
    /\ session = "none"
    /\ receipt = "none"
    /\ part    = [i \in Items |-> 0]
    /\ key     = [d \in Docs |-> None]
    /\ up      = [u \in Uploaders |-> Serving]

Serve(u, r) == up' = [up EXCEPT ![u] = r]

\* A request about the session arrives.
Arrives(u) == boot = "up" /\ up[u].pc = "idle" /\ session # "none"

-----------------------------------------------------------------------------
(* The session and its receipt                                             *)

\* create_upload_session, bind_upload_locked; asking again finds the session
CreateSession ==
    /\ boot = "up" /\ session = "none" /\ Spend("sessions")
    /\ session' = "open"
    /\ receipt' = "held"
    /\ item'    = [i \in Items |-> [item[i] EXCEPT !.state = "pending"]]
    /\ UNCHANGED <<sourceVars, part, key, up>>

\* Mutant: only the staged files are looked at.
FilesOnly == \E i \in Items : part[i] # 0

\* _has_received_data_locked, upload_is_empty
Received ==
    \E i \in Items : \/ item[i].received # 0 \/ item[i].doc # None
                     \/ item[i].state \in {"uploaded", "queued"}
                     \/ item[i].version # None \/ part[i] # 0

\* discard_intake_receipt, IntakeReceipts.discard
DiscardReceipt ==
    /\ boot = "up" /\ guard = None /\ receipt = "held"
    /\ ~Received
    /\ item'    = [i \in Items |-> [item[i] EXCEPT !.state = "cancelled",
                                                   !.version = None]]
    /\ session' = "cancelled"
    /\ receipt' = "discarded"
    /\ part'    = [i \in Items |-> 0]
    /\ UNCHANGED <<intakeVars, key, up>>

-----------------------------------------------------------------------------
(* Chunks                                                                  *)

\* upload_source_chunk: under the store's lock the recorded offset follows the
\* file, and the chunk at that offset is appended
AppendChunk(u, i) ==
    /\ Arrives(u) /\ guard = None
    /\ item[i].state \in {"pending", "uploading"}
    /\ item[i].received <= part[i] /\ part[i] < Chunks
    /\ guard' = u
    /\ item'  = IF part[i] = item[i].received THEN item
                ELSE [item EXCEPT ![i].received = part[i], ![i].state = Grown(part[i])]
    /\ part'  = [part EXCEPT ![i] = @ + 1]
    /\ Serve(u, [Serving EXCEPT !.pc = "record", !.item = i])
    /\ UNCHANGED <<boot, doc, job, copies, iw, left, session, receipt, key>>

\* set_upload_item_offset: refused if the item was cancelled or failed meanwhile
RecordChunk(u) ==
    LET i == up[u].item
    IN  /\ up[u].pc = "record"
        /\ item' = IF item[i].state \in Open /\ item[i].received = part[i] - 1
                   THEN [item EXCEPT ![i].received = part[i], ![i].state = Grown(part[i])]
                   ELSE item
        /\ guard' = None
        /\ Serve(u, Serving)
        /\ UNCHANGED <<boot, doc, job, copies, iw, left, session, receipt, part, key>>

\* fail_upload_item, the row
FailedItem(r) == IF r.state \in {"queued", "cancelled"} THEN r
                 ELSE [r EXCEPT !.state = "failed"]

\* fail_upload_item
FailItem(i) ==
    /\ item'    = [item EXCEPT ![i] = FailedItem(@)]
    /\ session' = SessionOf(item', "partial")

\* reconcile_upload_session, one item that needs it, when a client asks for the
\* status or resumes
Reconcile(i) ==
    /\ boot = "up" /\ guard = None
    /\ item[i].state \in Open
    /\ \/ part[i] < item[i].received /\ FailItem(i)
       \/ /\ part[i] > item[i].received
          /\ item' = [item EXCEPT ![i].received = part[i], ![i].state = Grown(part[i])]
          /\ UNCHANGED session
    /\ UNCHANGED <<intakeVars, receipt, part, key, up>>

-----------------------------------------------------------------------------
(* Finalization                                                            *)

\* finalize_uploaded_source
Finalize(u, i) ==
    /\ Arrives(u) /\ item[i].state # "queued"
    /\ Serve(u, [Serving EXCEPT !.pc = "store", !.item = i])
    /\ UNCHANGED <<intakeVars, item, session, receipt, part, key>>

UpGoto(u, pc) == Serve(u, [up[u] EXCEPT !.pc = pc])

\* UploadProblem: the file is incomplete, or a check refuses it
RefuseFile(u) ==
    /\ up[u].pc = "store" /\ guard = None
    /\ \/ part[up[u].item] # Chunks /\ UNCHANGED left
       \/ part[up[u].item] = Chunks /\ Made(up[u].item) = {} /\ Spend("errors")
    /\ UpGoto(u, "refused")
    /\ UNCHANGED <<sourceVars, item, session, receipt, part, key>>

\* Mutant: a document is found by its name, which it has from the path.
FoundByPath(i) == {}

\* The collision of finalize_resumable_upload: the item's own document
Found(i) == Made(i)

\* finalize_resumable_upload
StoreFile(u) ==
    LET i == up[u].item
    IN  /\ up[u].pc = "store" /\ guard = None
        /\ part[i] = Chunks
        /\ \E d \in Resumable :
             /\ IF Found(i) # {}
                THEN d \in Found(i) /\ UNCHANGED <<doc, key>>
                ELSE /\ doc[d].state = "none"
                     /\ doc' = [doc EXCEPT ![d].state = "queued"]
                     /\ key' = [key EXCEPT ![d] = i]
             /\ Serve(u, [up[u] EXCEPT !.pc = "check", !.doc = d])
        /\ UNCHANGED <<boot, job, copies, iw, guard, left, item, session, receipt, part>>

\* finish_upload_item, before its transaction; WorkspaceProblem if the item
\* is not all there
CheckItem(u) ==
    LET r == item[up[u].item]
    IN  /\ up[u].pc = "check"
        /\ IF r.state = "queued" THEN UpGoto(u, "discard")
           ELSE IF r.state = "uploaded" /\ r.received = Chunks THEN UpGoto(u, "finish")
           ELSE Serve(u, Serving)
        /\ UNCHANGED <<intakeVars, item, session, receipt, part, key>>

\* finish_upload_item, the transaction: the job is queued and the session moves
\* on whether or not the item is still uploaded
FinishItem(u) ==
    LET i == up[u].item
        d == up[u].doc
    IN  /\ up[u].pc = "finish" /\ item[i].version \in {None, d}
        /\ job'  = [job EXCEPT ![d] = IF @ = "none" THEN "queued" ELSE @]
        /\ item' = [item EXCEPT ![i].version = IF receipt = "held" THEN d ELSE None,
                                ![i].state   = IF @ = "uploaded" THEN "queued" ELSE @,
                                ![i].doc     = IF item[i].state = "uploaded" THEN d ELSE @]
        /\ session' = SessionOf(item', "complete")
        /\ UpGoto(u, "discard")
        /\ UNCHANGED <<boot, doc, copies, iw, guard, left, receipt, part, key>>

\* The received source version changed: another document was committed.
FinishRefused(u) ==
    /\ up[u].pc = "finish" /\ item[up[u].item].version \notin {None, up[u].doc}
    /\ Serve(u, Serving)
    /\ UNCHANGED <<intakeVars, item, session, receipt, part, key>>

\* discard_resumable_upload, when the item is committed or was refused
DiscardFile(u) ==
    /\ up[u].pc \in {"discard", "refused"} /\ guard = None
    /\ part' = [part EXCEPT ![up[u].item] = 0]
    /\ IF up[u].pc = "refused" THEN UpGoto(u, "fail") ELSE Serve(u, Serving)
    /\ UNCHANGED <<intakeVars, item, session, receipt, key>>

\* fail_upload_item
FailRefused(u) ==
    /\ up[u].pc = "fail"
    /\ FailItem(up[u].item)
    /\ Serve(u, Serving)
    /\ UNCHANGED <<intakeVars, receipt, part, key>>

-----------------------------------------------------------------------------
(* Cancellation                                                            *)

\* cancel_upload_session, cleanup_abandoned_uploads: the session is read
AskCancel(u) ==
    /\ Arrives(u) /\ session # "complete"
    /\ Serve(u, [Serving EXCEPT !.pc = "cancel"])
    /\ UNCHANGED <<intakeVars, item, session, receipt, part, key>>

\* cancel_upload_session, the transaction
CancelSession(u) ==
    /\ up[u].pc = "cancel"
    /\ item'    = [i \in Items |-> IF item[i].state = "queued" THEN item[i]
                                   ELSE [item[i] EXCEPT !.state = "cancelled"]]
    /\ session' = "cancelled"
    /\ Serve(u, [up[u] EXCEPT !.pc = "drop",
                              !.todo = {i \in Items : item'[i].state = "cancelled"}])
    /\ UNCHANGED <<intakeVars, receipt, part, key>>

\* discard_resumable_upload of each cancelled item
DropFile(u) ==
    /\ up[u].pc = "drop"
    /\ IF up[u].todo = {} THEN Serve(u, Serving) /\ UNCHANGED part
       ELSE \E i \in up[u].todo :
              /\ guard = None
              /\ part' = [part EXCEPT ![i] = 0]
              /\ Serve(u, [up[u] EXCEPT !.todo = @ \ {i}])
    /\ UNCHANGED <<intakeVars, item, session, receipt, key>>

-----------------------------------------------------------------------------
\* The threads go with the process; files and rows stay.
UploadDown ==
    /\ up' = [u \in Uploaders |-> Serving]
    /\ UNCHANGED <<item, session, receipt, part, key>>

Transfer(u) ==
    \/ \E i \in Items : AppendChunk(u, i) \/ Finalize(u, i)
    \/ RecordChunk(u) \/ RefuseFile(u) \/ StoreFile(u) \/ CheckItem(u) \/ FinishItem(u)
    \/ FinishRefused(u) \/ DiscardFile(u) \/ FailRefused(u) \/ AskCancel(u) \/ CancelSession(u) \/ DropFile(u)

UploadStep ==
    \/ CreateSession \/ DiscardReceipt
    \/ \E i \in Items : Reconcile(i)
    \/ \E u \in Uploaders : Transfer(u)

-----------------------------------------------------------------------------
(* Properties                                                              *)

UploadTypeOK ==
    /\ item    \in [Items -> Item]
    /\ session \in {"none", "open", "partial", "complete", "cancelled"}
    /\ receipt \in {"none", "held", "discarded"}
    /\ part    \in [Items -> 0..Chunks]
    /\ key     \in [Docs -> Items \cup {None}]
    /\ up      \in [Uploaders -> Uploader]

\* However often a finalization is repeated, by whichever thread and after
\* whatever crash, an item becomes one source; and an item that is queued has
\* its job and names that source, unless somebody removed the one it names
\* ("Retrying the same interrupted upload retains its source identity",
\* docs/UPLOAD_OCCURRENCES.md).
OneSourcePerItem ==
    \A i \in Items :
        /\ \A d, e \in Made(i) : d = e
        /\ item[i].state = "queued" =>
             LET d == item[i].doc
             IN  /\ d # None /\ key[d] = i /\ job[d] # "none"
                 /\ Exists(d) => Made(i) = {d}

\* A receipt that was discarded takes nothing with it: no item of its session
\* has saved bytes or was committed, and nothing of it is ever ingested, then or
\* later, whatever requests were under way ("Received source data and saved
\* partial bytes prevent discard", docs/ARCHITECTURE.md).
DiscardedIsEmpty ==
    receipt = "discarded" =>
        \A i \in Items : /\ part[i] = 0 /\ item[i].state = "cancelled"
                         /\ \A d \in Docs : key[d] = i => job[d] = "none"
=============================================================================
