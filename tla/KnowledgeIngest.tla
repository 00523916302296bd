--------------------------- MODULE KnowledgeIngest ---------------------------
(***************************************************************************)
(* How a document of the panel becomes text the agent may quote: the       *)
(* panel's routes (routers/panel_knowledge.py), the job that fills the row *)
(* (worker/ingest.py, knowledge/ingest.py), run by the background worker   *)
(* or, when the queue is down, by the API itself, and the filter by which  *)
(* retrieval serves passages (knowledge/retrieval.py).                     *)
(*                                                                         *)
(* A transaction holds the row it has updated until it ends; what it wrote *)
(* is seen by others when it commits.  A request writes only the columns   *)
(* it changed from what it had loaded.  The passages of a document are one *)
(* value, the text they were cut from; their vectors are left out.         *)
(***************************************************************************)
EXTENDS Integers, FiniteSets

CONSTANTS
    MaxDocs,    \* documents that are added (bound)
    Readings,   \* what the file or the site may be read as
    MaxJobs,    \* indexing jobs (bound)
    MaxFaults,  \* crashes, time-outs, failed reads and failed calls (bound)
    None

Docs == 1..MaxDocs
Jobs == 1..MaxJobs

VARIABLES
    docs,       \* kb_documents
    passages,   \* kb_chunks of each document
    lock,       \* per row: the job whose open transaction has updated it
    job,        \* per job: where ingest_pending_document is
    req,        \* the panel request being served
    used,       \* jobs made so far
    lost,       \* documents whose last job was never made, was cut, or ended in an
                \* error that nothing catches (history)
    faults      \* counter of the bound

vars == <<docs, passages, lock, job, req, used, lost, faults>>

NoDoc == [status |-> "none", title |-> None, hash |-> None,
          published |-> FALSE, deleted |-> FALSE]
NoJob == [pc |-> "none", doc |-> None, by |-> "worker",
          seen |-> "none", target |-> None, text |-> None]
Done == [NoJob EXCEPT !.pc = "done"]
NoReq == [op |-> "idle", doc |-> None, status |-> "none", published |-> FALSE]

Texts == Docs \X Readings
TextsOf(d) == {d} \X Readings

Init ==
    /\ docs = [d \in Docs |-> NoDoc]
    /\ passages = [d \in Docs |-> None]
    /\ lock = [d \in Docs |-> None]
    /\ job = [j \in Jobs |-> NoJob]
    /\ req = NoReq
    /\ used = 0 /\ lost = {} /\ faults = 0

Fault == faults < MaxFaults /\ faults' = faults + 1
Exists(d) == docs[d].status # "none"
Listed(d) == Exists(d) /\ ~docs[d].deleted

-----------------------------------------------------------------------------
(* The panel                                                               *)

\* Mutant: the row is given the digest of the text it has yet to be cut into.
HashOfText(d) == <<d, CHOOSE v \in Readings : TRUE>>

\* The digest of the upload, which is never that of a chunked text.
HashOfUpload(d) == None

\* add_document and _note: the row and the stored file, committed before the
\* job is queued.  The title t is its own, or that of an earlier document.
Uploads(d, t) ==
    /\ req.op = "idle" /\ used < MaxJobs
    /\ ~Exists(d) /\ \A e \in 1..(d - 1) : Exists(e)
    /\ docs' = [docs EXCEPT ![d] = [NoDoc EXCEPT !.status = "pending", !.title = t,
                                                 !.hash = HashOfUpload(d)]]
    /\ req' = [NoReq EXCEPT !.op = "queue", !.doc = d]
    /\ UNCHANGED <<passages, lock, job, used, lost, faults>>

\* reindex, set_published and delete_document load the row, check it and answer
\* with what they loaded.  Only what is indexed can be made live.
Loads(op, d) ==
    /\ req.op = "idle" /\ Listed(d)
    /\ op = "reindex" => used < MaxJobs
    /\ op = "publish" => docs[d].status = "indexed"
    /\ req' = [op |-> op, doc |-> d, status |-> docs[d].status,
               published |-> docs[d].published]
    /\ UNCHANGED <<docs, passages, lock, job, used, lost, faults>>

\* Their commit, which waits for a job's transaction on the same row.
Saves ==
    LET d == req.doc
        row == docs[d]
        live(b) == IF req.published # b THEN b ELSE row.published
        saved ==
            CASE req.op = "reindex" ->
                    [row EXCEPT !.status = IF req.status # "pending" THEN "pending" ELSE @]
              [] req.op = "publish" -> [row EXCEPT !.published = live(TRUE)]
              [] req.op = "withdraw" -> [row EXCEPT !.published = live(FALSE)]
              [] req.op = "delete" -> [row EXCEPT !.published = live(FALSE), !.deleted = TRUE]
    IN  /\ req.op \in {"reindex", "publish", "withdraw", "delete"} /\ lock[d] = None
        /\ docs' = [docs EXCEPT ![d] = saved]
        /\ req' = IF req.op = "reindex" THEN [NoReq EXCEPT !.op = "queue", !.doc = d]
                  ELSE NoReq
        /\ UNCHANGED <<passages, lock, job, used, lost, faults>>

NewJob(d, by) == [NoJob EXCEPT !.pc = "queued", !.doc = d, !.by = by]

\* _queue: the job is enqueued.
Enqueues ==
    /\ req.op = "queue"
    /\ used' = used + 1
    /\ job' = [job EXCEPT ![used + 1] = NewJob(req.doc, "worker")]
    /\ lost' = lost \ {req.doc}
    /\ req' = NoReq
    /\ UNCHANGED <<docs, passages, lock, faults>>

\* Mutant: a queue that is down is only logged.
OnlyLogs(d) == UNCHANGED <<used, job>>

\* _ingest_inline, in the API process after the response.
IndexesHere(d) ==
    /\ used' = used + 1
    /\ job' = [job EXCEPT ![used + 1] = NewJob(d, "api")]

\* _queue, when the pool of the queue cannot be made.
FallsBack ==
    /\ req.op = "queue" /\ Fault
    /\ IndexesHere(req.doc)
    /\ lost' = lost \ {req.doc}
    /\ req' = NoReq
    /\ UNCHANGED <<docs, passages, lock>>

\* The pool was made earlier and Redis has gone since: enqueue_job raises what
\* _queue does not catch.  Or the process dies between the commit and the call.
NeverQueued ==
    /\ req.op = "queue" /\ Fault
    /\ lost' = lost \cup {req.doc}
    /\ req' = NoReq
    /\ UNCHANGED <<docs, passages, lock, job, used>>

-----------------------------------------------------------------------------
(* The job                                                                 *)

Failing(j) == [NewJob(job[j].doc, job[j].by) EXCEPT !.pc = "failing"]

Released(j) == [d \in Docs |-> IF lock[d] = j THEN None ELSE lock[d]]
FreeFor(j, d) == lock[d] \in {None, j}

\* The row is loaded; a deleted one is not found, an indexed one is left.
Opens(j) ==
    /\ job[j].pc = "queued"
    /\ LET d == job[j].doc
           todo == Listed(d) /\ docs[d].status # "indexed"
       IN  job' = [job EXCEPT ![j] =
                       IF todo THEN [@ EXCEPT !.pc = "opened", !.seen = docs[d].status]
                       ELSE Done]
    /\ UNCHANGED <<docs, passages, lock, req, used, lost, faults>>

Marked(row) == [row EXCEPT !.status = "indexing"]

\* The first commit.
Marks(j) ==
    /\ job[j].pc = "opened" /\ lock[job[j].doc] = None
    /\ job' = [job EXCEPT ![j].pc = "reading", ![j].seen = "none"]
    /\ docs' = IF job[j].seen = "indexing" THEN docs
               ELSE [docs EXCEPT ![job[j].doc] = Marked(docs[job[j].doc])]
    /\ UNCHANGED <<passages, lock, req, used, lost, faults>>

\* _content_of: the stored file, or the site as it is now.
Reads(j) ==
    /\ job[j].pc = "reading"
    /\ \E text \in TextsOf(job[j].doc) :
          job' = [job EXCEPT ![j].pc = "read", ![j].text = text]
    /\ UNCHANGED <<docs, passages, lock, req, used, lost, faults>>

\* The stored file of a document that was deleted is gone; a site is not.
FileIsGone(j) ==
    /\ job[j].pc = "reading" /\ docs[job[j].doc].deleted
    /\ job' = [job EXCEPT ![j] = Failing(j)]
    /\ UNCHANGED <<docs, passages, lock, req, used, lost, faults>>

\* ingest_markdown looks for a document by its title: whichever row has it,
\* deleted ones included.  A row already cut from this text is left alone.
Finds(j) ==
    /\ job[j].pc = "read"
    /\ \E e \in {e \in Docs : Exists(e) /\ docs[e].title = docs[job[j].doc].title} :
          job' = [job EXCEPT ![j].pc = IF docs[e].hash = job[j].text THEN "closing"
                                       ELSE "found",
                             ![j].target = e]
    /\ UNCHANGED <<docs, passages, lock, req, used, lost, faults>>

\* Its version, hash and flags are flushed: the row is this transaction's.
Takes(j) ==
    /\ job[j].pc = "found" /\ lock[job[j].target] = None
    /\ job' = [job EXCEPT ![j].pc = "cutting"]
    /\ lock' = [lock EXCEPT ![job[j].target] = j]
    /\ UNCHANGED <<docs, passages, req, used, lost, faults>>

\* What the job says of its own row at the end.
Indexed(row) == [row EXCEPT !.status = "indexed", !.published = TRUE]

\* The passages replaced, the row refreshed and marked, the transaction
\* committed.
Finishes(j) ==
    /\ job[j].pc \in {"cutting", "closing"} /\ FreeFor(j, job[j].doc)
    /\ LET d == job[j].doc
           e == job[j].target
           cut == [docs EXCEPT ![e] = [@ EXCEPT !.hash = job[j].text, !.published = TRUE]]
       IN  IF job[j].pc = "closing"
           THEN docs' = [docs EXCEPT ![d] = Indexed(@)] /\ UNCHANGED passages
           ELSE /\ docs' = [cut EXCEPT ![d] = Indexed(@)]
                /\ passages' = [passages EXCEPT ![e] = job[j].text]
    /\ job' = [job EXCEPT ![j] = Done]
    /\ lock' = Released(j)
    /\ UNCHANGED <<req, used, lost, faults>>

\* The job is gone, its transaction rolled back, and nothing writes the row again.
Ends(j) ==
    /\ job' = [job EXCEPT ![j] = Done]
    /\ lock' = Released(j)
    /\ lost' = lost \cup {job[j].doc}

\* What the job says of an error inside its try: _failed is next.
Caught(j) ==
    /\ job' = [job EXCEPT ![j] = Failing(j)]
    /\ lock' = Released(j)
    /\ UNCHANGED lost

\* An error outside it, at the load, a commit, the refresh or in _failed.  It
\* leaves ingest_document, which ARQ does not run again; _ingest_inline catches
\* it and marks the row itself, unless that fails as well.
Uncaught(j) == IF job[j].by = "api" /\ job[j].pc # "failing" THEN Caught(j) ELSE Ends(j)

\* Two jobs of one title, each holding the row the other has to mark in its last
\* commit: the database refuses one of them.
Deadlocked(j) ==
    /\ job[j].pc = "cutting"
    /\ \E k \in Jobs \ {j} : job[k].pc = "cutting" /\ lock[job[j].doc] = k
                                                   /\ lock[job[k].doc] = j
    /\ Uncaught(j)
    /\ UNCHANGED <<docs, passages, req, used, faults>>

\* The text cannot be read, cut or embedded, or the database refuses: the
\* transaction is rolled back.
Fails(j) ==
    /\ job[j].pc \in {"reading", "read", "found", "cutting"}
    /\ Fault
    /\ Caught(j)
    /\ UNCHANGED <<docs, passages, req, used>>

\* The database refuses outside the try.  Without the worker's code beside the
\* API an inline job fails here at once.
Raises(j) ==
    /\ job[j].pc \in {"queued", "opened", "cutting", "closing", "failing"}
    /\ Fault
    /\ Uncaught(j)
    /\ UNCHANGED <<docs, passages, req, used>>

\* _failed: the reason, in the operator's words.
ReportsFailure(j) ==
    /\ job[j].pc = "failing" /\ lock[job[j].doc] = None
    /\ job' = [job EXCEPT ![j] = Done]
    /\ docs' = [docs EXCEPT ![job[j].doc].status = "failed"]
    /\ UNCHANGED <<passages, lock, req, used, lost, faults>>

UnderWay(j) == job[j].pc \in {"opened", "reading", "read", "found", "cutting", "closing", "failing"}

\* ARQ's time-out cancels the job, which nothing here catches and nothing runs
\* again; a job inside an API process that dies is gone too.
Cut(j) ==
    /\ UnderWay(j) /\ Fault
    /\ Ends(j)
    /\ UNCHANGED <<docs, passages, req, used>>

\* A worker that stops or dies: ARQ runs the job again.
Interrupted(j) ==
    /\ UnderWay(j) /\ job[j].by = "worker" /\ Fault
    /\ job' = [job EXCEPT ![j] = NewJob(job[j].doc, "worker")]
    /\ lock' = Released(j)
    /\ UNCHANGED <<docs, passages, req, used, lost>>

-----------------------------------------------------------------------------
Requesting ==
    \/ \E d \in Docs : \/ \E t \in 1..d : Uploads(d, t)
                       \/ \E op \in {"reindex", "publish", "withdraw", "delete"} : Loads(op, d)
    \/ FallsBack \/ NeverQueued

Runs(j) ==
    \/ Opens(j) \/ Marks(j) \/ Reads(j) \/ FileIsGone(j) \/ Finds(j) \/ Takes(j)
    \/ Finishes(j) \/ Deadlocked(j) \/ ReportsFailure(j)

Next ==
    \/ Requesting \/ Saves \/ Enqueues
    \/ \E j \in Jobs : Runs(j) \/ Fails(j) \/ Raises(j) \/ Cut(j) \/ Interrupted(j)

\* A request that was begun is answered, and a job that was queued is run.
Fairness == WF_vars(Saves) /\ WF_vars(Enqueues) /\ \A j \in Jobs : WF_vars(Runs(j))

Spec == Init /\ [][Next]_vars /\ Fairness

-----------------------------------------------------------------------------
(* Properties                                                              *)

\* The columns hold what the table allows, and a row is held only by a job that
\* is cutting.
TypeOK ==
    /\ docs \in [Docs -> [status : {"none", "pending", "indexing", "indexed", "failed"},
                          title : Docs \cup {None}, hash : Texts \cup {None},
                          published : BOOLEAN, deleted : BOOLEAN]]
    /\ passages \in [Docs -> Texts \cup {None}]
    /\ \A d \in Docs : lock[d] # None => lock[d] \in Jobs /\ job[lock[d]].pc = "cutting"
    /\ used \in 0..MaxJobs /\ lost \subseteq Docs /\ faults \in 0..MaxFaults

\* What retrieval can quote: it asks for published rows, and for nothing else.
Served(d) == docs[d].published /\ passages[d] # None

Alone(d) == \A e \in Docs \ {d} : docs[e].title # docs[d].title

\* A document the panel calls indexed, whose title no other carries, has its
\* own text behind it and the hash of that text, whatever jobs ran over it at
\* once, failed, were cut or ran twice.
IndexedHasItsText ==
    \A d \in Docs : docs[d].status = "indexed" /\ Alone(d) =>
        passages[d] \in TextsOf(d) /\ docs[d].hash = passages[d]

\* No document stays pending or indexing for ever once its last job is made,
\* whichever process runs it and whatever fails inside its try, unless that job
\* is cut or raises at a commit, which nothing catches.
UploadsSettle ==
    \A d \in Docs :
        (docs[d].status \in {"pending", "indexing"} /\ d \notin lost)
            ~> (docs[d].status \in {"indexed", "failed"} \/ docs[d].deleted \/ d \in lost)

\* Not so: a job that was under way, or one for another document of the same
\* title, makes a deleted document live again, and retrieval does not ask
\* whether it is deleted (delete_document says it stops being served with the
\* commit that hides it).
DeletedIsNotServed == \A d \in Docs : docs[d].deleted => ~Served(d)

\* Not so: of two documents with one title, one row gets both texts, and the
\* other is called indexed with no passage behind it.
EachHasItsText ==
    \A d \in Docs : docs[d].status = "indexed" => passages[d] \in TextsOf(d)

\* Not so: enqueue raises more than _queue catches, and a job that is cancelled, or
\* refused at its last commit, writes nothing.  The comment in _queue says a
\* document is never left silently pending, and the docstring of ingest_document
\* that failures are written to the row rather than raised.
NeverLeftPending ==
    \A d \in Docs : docs[d].status \in {"pending", "indexing"} ~>
                        (docs[d].status \in {"indexed", "failed"} \/ docs[d].deleted)
=============================================================================
