--------------------------- MODULE MCPanel_proofs ---------------------------
(***************************************************************************)
(* Proofs about four of the components that MCPanel checks: a document     *)
(* the panel calls indexed has its own text behind it; the passages a      *)
(* document is cut into are the document; from its first publication on a  *)
(* flow has one live version; and the Live page shows each viewer the      *)
(* calls of his scope, and of those it was told all about the ones that go *)
(* on.  For any number of documents, jobs, lines, versions, requests,      *)
(* calls, events and faults.                                               *)
(***************************************************************************)
EXTENDS MCPanel, Sequences, FiniteSetTheorems, SequenceTheorems, WellFoundedInduction, TLAPS

-----------------------------------------------------------------------------
(* Documents                                                               *)

\* None is no document and no text.
LEMMA NoneOfThem == /\ MaxDocs \in Nat
                    /\ None \notin Knowledge!Docs /\ None \notin Knowledge!Texts
BY PanelAssumption DEF Knowledge!Docs, Knowledge!Texts

\* The values that rows, jobs and requests have.
Document == [status : {"none", "pending", "indexing", "indexed", "failed"},
             title : Knowledge!Docs \cup {None}, hash : Knowledge!Texts \cup {None},
             published : BOOLEAN, deleted : BOOLEAN]
Steps == {"none", "queued", "opened", "reading", "read", "found", "cutting", "closing",
          "failing", "done"}
Job == [pc : Steps, doc : Knowledge!Docs \cup {None}, by : {"worker", "api"},
        seen : {"none", "pending", "indexing", "indexed", "failed"},
        target : Knowledge!Docs \cup {None}, text : Knowledge!Texts \cup {None}]
Request == [op : {"idle", "queue", "reindex", "publish", "withdraw", "delete"},
            doc : Knowledge!Docs \cup {None},
            status : {"none", "pending", "indexing", "indexed", "failed"},
            published : BOOLEAN]

KnowledgeTyped ==
    /\ docs \in [Knowledge!Docs -> Document]
    /\ passages \in [Knowledge!Docs -> Knowledge!Texts \cup {None}]
    /\ job \in [Knowledge!Jobs -> Job]
    /\ request \in Request

\* A row has the hash of its passages; they are of a document of its title; and a
\* row that is indexed, alone with its title, has some.
SoundRow(d) ==
    /\ docs[d].hash = passages[d]
    /\ docs[d].title = None <=> ~Knowledge!Exists(d)
    /\ passages[d] # None =>
          /\ Knowledge!Exists(d) /\ Knowledge!Exists(passages[d][1])
          /\ docs[passages[d][1]].title = docs[d].title
    /\ docs[d].status = "indexed" /\ Knowledge!Alone(d) => passages[d] # None

\* A job has a document; what it read is a text of it; its target has its title.
SoundJob(q) ==
    /\ q.pc \notin {"none", "done"} => q.doc \in Knowledge!Docs /\ Knowledge!Exists(q.doc)
    /\ q.pc \in {"read", "found", "cutting", "closing"} =>
          q.text \in Knowledge!TextsOf(q.doc)
    /\ q.pc \in {"found", "cutting", "closing"} =>
          /\ q.target \in Knowledge!Docs /\ Knowledge!Exists(q.target)
          /\ docs[q.target].title = docs[q.doc].title
    /\ q.pc = "closing" => passages[q.target] # None

\* A request is about a document there is.
SoundRequest == request.op # "idle" =>
   request.doc \in Knowledge!Docs /\ Knowledge!Exists(request.doc)

KnowledgeInv ==
    /\ KnowledgeTyped
    /\ \A d \in Knowledge!Docs : SoundRow(d)
    /\ \A j \in Knowledge!Jobs : SoundJob(job[j])
    /\ SoundRequest

\* A text of a document is a text, and tells whose it is.
LEMMA TextOf == \A d \in Knowledge!Docs : \A t \in Knowledge!TextsOf(d) :
                   t \in Knowledge!Texts /\ t[1] = d /\ t # None
  BY NoneOfThem DEF Knowledge!TextsOf, Knowledge!Texts

\* And it is a text of that document.
LEMMA TextOwner == \A t \in Knowledge!Texts :
                      t[1] \in Knowledge!Docs /\ t \in Knowledge!TextsOf(t[1]) /\ t # None
  BY NoneOfThem DEF Knowledge!TextsOf, Knowledge!Texts

\* There is no document at first.
LEMMA KnowledgeInitially == Knowledge!Init => KnowledgeInv
<1> SUFFICES ASSUME Knowledge!Init PROVE KnowledgeInv OBVIOUS
<1>1. Knowledge!NoDoc \in Document /\ Knowledge!NoJob \in Job /\ Knowledge!NoReq \in Request
  BY DEF Knowledge!NoDoc, Knowledge!NoJob, Knowledge!NoReq, Document, Job, Request,
     Steps
<1>2. KnowledgeTyped BY <1>1 DEF Knowledge!Init, KnowledgeTyped
<1>3. \A d \in Knowledge!Docs : SoundRow(d)
  BY DEF Knowledge!Init, SoundRow, Knowledge!NoDoc, Knowledge!Exists
<1>4. \A j \in Knowledge!Jobs : SoundJob(job[j])
  BY DEF Knowledge!Init, SoundJob, Knowledge!NoJob
<1>5. SoundRequest BY DEF Knowledge!Init, SoundRequest, Knowledge!NoReq
<1> QED BY <1>2, <1>3, <1>4, <1>5 DEF KnowledgeInv

\* Rows stay, with their titles; so does it that there are passages.
Later ==
    /\ \A x \in Knowledge!Docs : Knowledge!Exists(x) =>
          Knowledge!Exists(x)' /\ docs'[x].title = docs[x].title
    /\ \A x \in Knowledge!Docs : passages[x] # None => passages'[x] # None

\* What a job knows stays true.
LEMMA JobLater == ASSUME Later, NEW q, SoundJob(q) PROVE SoundJob(q)'
  BY DEF Later, SoundJob

\* A step of one job.
LEMMA JobMoves ==
  ASSUME KnowledgeInv, Later, NEW j \in Knowledge!Jobs, NEW q \in Job, SoundJob(q)',
         job' = [job EXCEPT ![j] = q]
  PROVE  job' \in [Knowledge!Jobs -> Job] /\ \A k \in Knowledge!Jobs : SoundJob(job[k])'
<1>1. job' \in [Knowledge!Jobs -> Job] BY DEF KnowledgeInv, KnowledgeTyped
<1>2. \A k \in Knowledge!Jobs : job'[k] = IF k = j THEN q ELSE job[k]
  BY DEF KnowledgeInv, KnowledgeTyped
<1> SUFFICES ASSUME NEW k \in Knowledge!Jobs PROVE SoundJob(job[k])' BY <1>1
<1>3. SoundJob(job[k])
  BY DEF KnowledgeInv
<1>4. SoundJob(job[k]) => (SoundJob(job'[k]) <=> SoundJob(job'[k])) OBVIOUS
<1>5. CASE k = j BY <1>2, <1>5 DEF SoundJob
<1>6. CASE k # j
  <2>1. job'[k] = job[k] BY <1>2, <1>6
  <2> QED BY <1>3, <2>1 DEF SoundJob, Later
<1> QED BY <1>5, <1>6

\* A step that makes no row indexed and cuts nothing.
LEMMA RowsKept ==
  ASSUME KnowledgeInv, UNCHANGED passages,
         \A x \in Knowledge!Docs :
            /\ docs'[x].title = docs[x].title /\ docs'[x].hash = docs[x].hash
            /\ docs'[x].status = "none" <=> docs[x].status = "none"
            /\ docs'[x].status = "indexed" => docs[x].status = "indexed"
  PROVE  Later /\ \A d \in Knowledge!Docs : SoundRow(d)'
<1>1. \A x \in Knowledge!Docs : Knowledge!Exists(x)' <=> Knowledge!Exists(x)
  BY DEF Knowledge!Exists
<1>2. Later BY <1>1 DEF Later
<1> SUFFICES ASSUME NEW d \in Knowledge!Docs PROVE SoundRow(d)' BY <1>2
<1>3. SoundRow(d) /\ passages[d] \in Knowledge!Texts \cup {None}
  BY DEF KnowledgeInv, KnowledgeTyped
<1>4. Knowledge!Alone(d)' <=> Knowledge!Alone(d) BY DEF Knowledge!Alone
<1>5. passages[d] # None => passages[d][1] \in Knowledge!Docs BY <1>3, TextOwner
<1> QED BY <1>1, <1>3, <1>4, <1>5 DEF SoundRow

\* A request or a job that leaves the rows alone.
LEMMA RowsAlone ==
  ASSUME KnowledgeInv, UNCHANGED <<docs, passages>>
  PROVE  Later /\ \A d \in Knowledge!Docs : SoundRow(d)'
  BY RowsKept

\* A step of no job.
LEMMA JobsAlone ==
  ASSUME KnowledgeInv, Later, UNCHANGED job
  PROVE  \A j \in Knowledge!Jobs : SoundJob(job[j])'
  BY DEF KnowledgeInv, SoundJob, Later

\* A step that is not the request's.
LEMMA RequestAlone ==
  ASSUME KnowledgeInv, Later, UNCHANGED request
  PROVE  SoundRequest'
  BY DEF KnowledgeInv, SoundRequest, Later

\* A new document has no passages, and no other is alone that was not.
LEMMA KnowledgeUploads ==
  ASSUME KnowledgeInv, NEW d \in Knowledge!Docs, NEW t \in 1..d, Knowledge!Uploads(d, t)
  PROVE  KnowledgeInv'
<1>0. KnowledgeTyped /\ (\A x \in Knowledge!Docs : SoundRow(x)) BY DEF KnowledgeInv
<1>1. t \in Knowledge!Docs BY NoneOfThem DEF Knowledge!Docs
<1>2. ~Knowledge!Exists(d) /\ UNCHANGED <<passages, job>> BY DEF Knowledge!Uploads
<1>3. PICK new \in Document : /\ docs' = [docs EXCEPT ![d] = new]
                        /\ new.status = "pending" /\ new.title = t /\ new.hash = None
  <2> DEFINE new == [Knowledge!NoDoc EXCEPT !.status = "pending", !.title = t, !.hash =
                Knowledge!HashOfUpload(d)]
  <2>1. docs' = [docs EXCEPT ![d] = new] BY DEF Knowledge!Uploads
  <2>2. Knowledge!NoDoc \in Document BY DEF Knowledge!NoDoc, Document
  <2>3. Knowledge!HashOfUpload(d) = None BY DEF Knowledge!HashOfUpload
  <2>4. new \in Document /\ new.status = "pending" /\ new.title = t /\ new.hash = None
    BY <1>1, <2>2, <2>3 DEF Document
  <2> QED BY <2>1, <2>4
<1>4. /\ docs' \in [Knowledge!Docs -> Document] /\ docs'[d] = new
      /\ \A x \in Knowledge!Docs : x # d => docs'[x] = docs[x]
  BY <1>0, <1>3 DEF KnowledgeTyped
<1>5. Knowledge!NoReq \in Request BY DEF Knowledge!NoReq, Request
<1>6. request' \in Request /\ request'.op = "queue" /\ request'.doc = d
  BY <1>5 DEF Knowledge!Uploads, Request
<1>7. /\ Knowledge!Exists(d)'
      /\ \A x \in Knowledge!Docs : x # d => (Knowledge!Exists(x)' <=> Knowledge!Exists(x))
  BY <1>3, <1>4 DEF Knowledge!Exists
<1>8. Later BY <1>2, <1>4, <1>7 DEF Later
<1>9. \A x \in Knowledge!Docs : SoundRow(x)'
  <2> SUFFICES ASSUME NEW x \in Knowledge!Docs PROVE SoundRow(x)' OBVIOUS
  <2>1. CASE x = d
    <3>1. passages[d] = None BY <1>0, <1>2 DEF SoundRow
    <3> QED BY <1>1, <1>2, <1>3, <1>4, <1>7, <2>1, <3>1, NoneOfThem DEF SoundRow
  <2>2. CASE x # d
    <3>1. SoundRow(x) /\ docs'[x] = docs[x] /\ passages'[x] = passages[x]
      BY <1>0, <1>2, <1>4, <2>2
    <3>2. docs[d].title = None BY <1>0, <1>2 DEF SoundRow
    <3>3. Knowledge!Exists(x) => (Knowledge!Alone(x)' => Knowledge!Alone(x))
      <4> SUFFICES ASSUME Knowledge!Exists(x), Knowledge!Alone(x)',
                          NEW e \in Knowledge!Docs \ {x}
                   PROVE  docs[e].title # docs[x].title
        BY DEF Knowledge!Alone
      <4>1. docs[x].title # None BY <3>1 DEF SoundRow
      <4>2. CASE e = d BY <3>2, <4>1, <4>2
      <4>3. CASE e # d BY <1>4, <2>2, <4>3 DEF Knowledge!Alone
      <4> QED BY <4>2, <4>3
    <3>4. passages[x] # None =>
             /\ passages[x][1] \in Knowledge!Docs /\ passages[x][1] # d
             /\ docs'[passages[x][1]] = docs[passages[x][1]]
      <4>1. passages[x] \in Knowledge!Texts \cup {None} BY <1>0 DEF KnowledgeTyped
      <4> QED BY <1>2, <1>4, <3>1, <4>1, TextOwner DEF SoundRow
    <3>5. docs[x].status = "indexed" => Knowledge!Exists(x) BY DEF Knowledge!Exists
    <3> QED BY <1>7, <2>2, <3>1, <3>3, <3>4, <3>5 DEF SoundRow
  <2> QED BY <2>1, <2>2
<1>10. \A j \in Knowledge!Jobs : SoundJob(job[j])' BY <1>2, <1>8, JobsAlone
<1>11. KnowledgeTyped' BY <1>0, <1>2, <1>4, <1>6 DEF KnowledgeTyped
<1>12. SoundRequest' BY <1>6, <1>7 DEF SoundRequest
<1> QED BY <1>9, <1>10, <1>11, <1>12 DEF KnowledgeInv

\* A request loads a row there is.
LEMMA KnowledgeLoads ==
  ASSUME KnowledgeInv, NEW d \in Knowledge!Docs,
         NEW op \in {"reindex", "publish", "withdraw", "delete"}, Knowledge!Loads(op, d)
  PROVE  KnowledgeInv'
<1>0. KnowledgeTyped BY DEF KnowledgeInv
<1>1. UNCHANGED <<docs, passages, job>> /\ Knowledge!Exists(d)
      /\ request' =
            [op |-> op, doc |-> d, status |-> docs[d].status,
              published |-> docs[d].published]
  BY DEF Knowledge!Loads, Knowledge!Listed
<1>2. docs[d] \in Document BY <1>0 DEF KnowledgeTyped
<1>3. request' \in Request /\ request'.doc = d BY <1>1, <1>2 DEF Request, Document
<1>4. Later /\ \A x \in Knowledge!Docs : SoundRow(x)' BY <1>1, RowsAlone
<1>5. \A j \in Knowledge!Jobs : SoundJob(job[j])' BY <1>1, <1>4, JobsAlone
<1>6. SoundRequest' BY <1>1, <1>3 DEF SoundRequest, Knowledge!Exists
<1>7. KnowledgeTyped' BY <1>0, <1>1, <1>3 DEF KnowledgeTyped
<1> QED BY <1>4, <1>5, <1>6, <1>7 DEF KnowledgeInv

\* Its commit changes no title and no hash, and makes no row indexed.
LEMMA KnowledgeSaves ==
  ASSUME KnowledgeInv, Knowledge!Saves
  PROVE  KnowledgeInv'
<1>0. KnowledgeTyped /\ SoundRequest BY DEF KnowledgeInv
<1>1. PICK d \in Knowledge!Docs :
           d = request.doc /\ Knowledge!Exists(d) /\ UNCHANGED <<passages, job>>
  BY <1>0 DEF Knowledge!Saves, SoundRequest
<1>2. docs[d] \in Document BY <1>0, <1>1 DEF KnowledgeTyped
<1>3. request.published \in BOOLEAN BY <1>0 DEF KnowledgeTyped, Request
<1>4. PICK row \in Document : /\ docs' = [docs EXCEPT ![d] = row]
                         /\ row.title = docs[d].title /\ row.hash = docs[d].hash
                         /\ row.status \in {docs[d].status, "pending"}
  <2> DEFINE flag(b) == IF request.published # b THEN b ELSE docs[d].published
  <2>1. flag(TRUE) \in BOOLEAN /\ flag(FALSE) \in BOOLEAN BY <1>2 DEF Document
  <2>2. CASE request.op = "reindex"
    <3> DEFINE row == [docs[d] EXCEPT !.status =
                  IF request.status # "pending" THEN "pending" ELSE @]
    <3>1. docs' = [docs EXCEPT ![d] = row] BY <1>1, <2>2 DEF Knowledge!Saves
    <3>2. /\ row \in Document /\ row.title = docs[d].title /\ row.hash = docs[d].hash
          /\ row.status \in {docs[d].status, "pending"}
      BY <1>2 DEF Document
    <3> QED BY <3>1, <3>2
  <2>3. CASE request.op = "publish"
    <3> DEFINE row == [docs[d] EXCEPT !.published = flag(TRUE)]
    <3>1. docs' = [docs EXCEPT ![d] = row] BY <1>1, <2>3 DEF Knowledge!Saves
    <3>2. /\ row \in Document /\ row.title = docs[d].title /\ row.hash = docs[d].hash
          /\ row.status = docs[d].status
      <4> HIDE DEF flag
      <4> QED BY <1>2, <2>1 DEF Document
    <3> QED BY <3>1, <3>2
  <2>4. CASE request.op = "withdraw"
    <3> DEFINE row == [docs[d] EXCEPT !.published = flag(FALSE)]
    <3>1. docs' = [docs EXCEPT ![d] = row] BY <1>1, <2>4 DEF Knowledge!Saves
    <3>2. /\ row \in Document /\ row.title = docs[d].title /\ row.hash = docs[d].hash
          /\ row.status = docs[d].status
      <4> HIDE DEF flag
      <4> QED BY <1>2, <2>1 DEF Document
    <3> QED BY <3>1, <3>2
  <2>5. CASE request.op = "delete"
    <3> DEFINE row == [docs[d] EXCEPT !.published = flag(FALSE), !.deleted = TRUE]
    <3>1. docs' = [docs EXCEPT ![d] = row] BY <1>1, <2>5 DEF Knowledge!Saves
    <3>2. /\ row \in Document /\ row.title = docs[d].title /\ row.hash = docs[d].hash
          /\ row.status = docs[d].status
      <4> HIDE DEF flag
      <4> QED BY <1>2, <2>1 DEF Document
    <3> QED BY <3>1, <3>2
  <2> QED BY <2>2, <2>3, <2>4, <2>5 DEF Knowledge!Saves
<1>5. /\ docs' \in [Knowledge!Docs -> Document] /\ docs'[d] = row
      /\ \A x \in Knowledge!Docs : x # d => docs'[x] = docs[x]
  BY <1>0, <1>1, <1>4 DEF KnowledgeTyped
<1>6. Later /\ \A x \in Knowledge!Docs : SoundRow(x)'
  <2>1. docs[d].status # "none" BY <1>1 DEF Knowledge!Exists
  <2>2. \A x \in Knowledge!Docs :
           /\ docs'[x].title = docs[x].title /\ docs'[x].hash = docs[x].hash
           /\ docs'[x].status = "none" <=> docs[x].status = "none"
           /\ docs'[x].status = "indexed" => docs[x].status = "indexed"
    BY <1>4, <1>5, <2>1
  <2> QED BY <1>1, <2>2, RowsKept
<1>7. \A j \in Knowledge!Jobs : SoundJob(job[j])' BY <1>1, <1>6, JobsAlone
<1>8. request' \in Request /\ SoundRequest'
  <2>1. Knowledge!NoReq \in Request /\ Knowledge!NoReq.op = "idle"
    BY DEF Knowledge!NoReq, Request
  <2>2. Knowledge!Exists(d)' BY <1>1, <1>6 DEF Later
  <2>3. request' = Knowledge!NoReq \/
           request' = [Knowledge!NoReq EXCEPT !.op = "queue", !.doc = d]
    BY <1>1 DEF Knowledge!Saves
  <2>4. request' \in Request /\ (request'.op = "idle" \/ request'.doc = d)
    <3>1. CASE request' = Knowledge!NoReq BY <2>1, <3>1
    <3>2. CASE request' = [Knowledge!NoReq EXCEPT !.op = "queue", !.doc = d]
      BY <1>1, <2>1, <3>2 DEF Request
    <3> QED BY <2>3, <3>1, <3>2
  <2> QED BY <1>1, <2>2, <2>4 DEF SoundRequest
<1>9. KnowledgeTyped' BY <1>0, <1>1, <1>5, <1>8 DEF KnowledgeTyped
<1> QED BY <1>6, <1>7, <1>8, <1>9 DEF KnowledgeInv

\* A job that has just been made.
LEMMA AJob ==
  ASSUME NEW d \in Knowledge!Docs, NEW by \in {"worker", "api"}
  PROVE  /\ Knowledge!NewJob(d, by) \in Job /\ Knowledge!NewJob(d, by).pc = "queued" /\
               Knowledge!NewJob(d, by).doc = d
<1>1. Knowledge!NoJob \in Job BY DEF Knowledge!NoJob, Job, Steps
<1>2. Knowledge!NewJob(d, by) = [Knowledge!NoJob EXCEPT !.pc = "queued", !.doc = d, !.by =
         by]
  BY DEF Knowledge!NewJob
<1>3. /\ Knowledge!NewJob(d, by) \in Job /\ Knowledge!NewJob(d, by).pc = "queued"
      /\ Knowledge!NewJob(d, by).doc = d
  BY <1>1, <1>2 DEF Job, Steps
<1> QED BY <1>3

\* A job whose transaction was rolled back.
LEMMA AFailure ==
  ASSUME NEW j \in Knowledge!Jobs, job[j].doc \in Knowledge!Docs,
         job[j].by \in {"worker", "api"}
  PROVE  /\ Knowledge!Failing(j) \in Job /\ Knowledge!Failing(j).pc = "failing"
         /\ Knowledge!Failing(j).doc = job[j].doc
<1> DEFINE q == Knowledge!NewJob(job[j].doc, job[j].by)
<1>1. q \in Job /\ q.doc = job[j].doc BY AJob
<1>2. Knowledge!Failing(j) = [q EXCEPT !.pc = "failing"] BY DEF Knowledge!Failing
<1> HIDE DEF q
<1> QED BY <1>1, <1>2 DEF Job, Steps

\* A queued request ends, with a job for its document or none.
LEMMA KnowledgeQueues ==
  ASSUME KnowledgeInv, Knowledge!Enqueues \/ Knowledge!FallsBack \/ Knowledge!NeverQueued
  PROVE  KnowledgeInv'
<1>0. KnowledgeTyped /\ SoundRequest BY DEF KnowledgeInv
<1>1. /\ UNCHANGED <<docs, passages>> /\ request' = Knowledge!NoReq
      /\ request.doc \in Knowledge!Docs /\ Knowledge!Exists(request.doc)
  BY <1>0
     DEF Knowledge!Enqueues, Knowledge!FallsBack, Knowledge!NeverQueued, SoundRequest
<1>2. Later /\ \A d \in Knowledge!Docs : SoundRow(d)' BY <1>1, RowsAlone
<1>3. request' \in Request /\ SoundRequest'
  BY <1>1 DEF Knowledge!NoReq, Request, SoundRequest
<1>4. job' \in [Knowledge!Jobs -> Job] /\ \A j \in Knowledge!Jobs : SoundJob(job[j])'
  <2>1. CASE UNCHANGED job BY <1>0, <1>2, <2>1, JobsAlone DEF KnowledgeTyped
  <2>2. CASE \E by \in {"worker", "api"} :
                job' = [job EXCEPT ![used + 1] = Knowledge!NewJob(request.doc, by)]
    <3>1. PICK by \in {"worker", "api"} :
               job' = [job EXCEPT ![used + 1] = Knowledge!NewJob(request.doc, by)]
      BY <2>2
    <3>2. PICK q \in Job :
               q.pc = "queued" /\ q.doc = request.doc /\ job' = [job EXCEPT ![used + 1] = q]
      <4>1. /\ Knowledge!NewJob(request.doc, by) \in Job
            /\ Knowledge!NewJob(request.doc, by).pc = "queued"
            /\ Knowledge!NewJob(request.doc, by).doc = request.doc
        BY <1>1, AJob
      <4> QED BY <3>1, <4>1
    <3>4. SoundJob(q)' BY <1>1, <3>2 DEF SoundJob, Knowledge!Exists
    <3>5. CASE used + 1 \in Knowledge!Jobs BY <1>2, <3>2, <3>4, <3>5, JobMoves
    <3>6. CASE used + 1 \notin Knowledge!Jobs
      <4>1. job' = job BY <1>0, <3>1, <3>6 DEF KnowledgeTyped
      <4> QED BY <1>0, <1>2, <4>1, JobsAlone DEF KnowledgeTyped
    <3> QED BY <3>5, <3>6
  <2> QED
    BY <2>1, <2>2 DEF Knowledge!Enqueues, Knowledge!FallsBack, Knowledge!NeverQueued,
       Knowledge!IndexesHere
<1>5. KnowledgeTyped' BY <1>0, <1>1, <1>3, <1>4 DEF KnowledgeTyped
<1> QED BY <1>2, <1>3, <1>4, <1>5 DEF KnowledgeInv

\* A job moves, the rows are left alone.
LEMMA OnlyJob ==
  ASSUME KnowledgeInv, NEW j \in Knowledge!Jobs, NEW q \in Job, SoundJob(q),
         job' = [job EXCEPT ![j] = q], UNCHANGED <<docs, passages, request>>
  PROVE  KnowledgeInv'
<1>1. Later /\ \A d \in Knowledge!Docs : SoundRow(d)' BY RowsAlone
<1>2. SoundJob(q)' BY <1>1, JobLater
<1>3. job' \in [Knowledge!Jobs -> Job] /\ \A k \in Knowledge!Jobs : SoundJob(job[k])'
  BY <1>1, <1>2, JobMoves
<1>4. SoundRequest' BY <1>1, RequestAlone
<1>5. KnowledgeTyped' BY <1>3 DEF KnowledgeInv, KnowledgeTyped
<1> QED BY <1>1, <1>3, <1>4, <1>5 DEF KnowledgeInv

\* A job that reads, waits, fails or is cut writes no row.
LEMMA KnowledgeReads ==
  ASSUME KnowledgeInv, NEW j \in Knowledge!Jobs,
         \/ Knowledge!Opens(j) \/ Knowledge!Reads(j) \/ Knowledge!FileIsGone(j) \/
               Knowledge!Finds(j) \/ Knowledge!Takes(j)
         \/ Knowledge!Deadlocked(j) \/ Knowledge!Fails(j) \/ Knowledge!Raises(j) \/
               Knowledge!Cut(j) \/ Knowledge!Interrupted(j)
  PROVE  KnowledgeInv'
<1>0. KnowledgeTyped /\ SoundJob(job[j]) BY DEF KnowledgeInv
<1>1. UNCHANGED <<docs, passages, request>>
  BY DEF Knowledge!Opens, Knowledge!Reads, Knowledge!FileIsGone, Knowledge!Finds,
     Knowledge!Takes, Knowledge!Deadlocked, Knowledge!Fails, Knowledge!Raises, Knowledge!Cut,
     Knowledge!Interrupted
<1>2. job[j] \in Job BY <1>0 DEF KnowledgeTyped
<1>3. Knowledge!Done \in Job /\ SoundJob(Knowledge!Done)
  BY DEF Knowledge!Done, Knowledge!NoJob, Job, Steps, SoundJob
<1>4. job[j].by \in {"worker", "api"} BY <1>2 DEF Job
<1>7. PICK q \in Job : SoundJob(q) /\ job' = [job EXCEPT ![j] = q]
  <2>1. CASE \/ Knowledge!FileIsGone(j) \/ Knowledge!Deadlocked(j) \/ Knowledge!Fails(j)
             \/ Knowledge!Raises(j)
    <3>1. job[j].doc \in Knowledge!Docs /\ Knowledge!Exists(job[j].doc)
      BY <1>0, <2>1
         DEF Knowledge!FileIsGone, Knowledge!Deadlocked, Knowledge!Fails, Knowledge!Raises,
             SoundJob
    <3>2. /\ Knowledge!Failing(j) \in Job /\ Knowledge!Failing(j).pc = "failing"
          /\ Knowledge!Failing(j).doc = job[j].doc
      BY <1>4, <3>1, AFailure
    <3>3. SoundJob(Knowledge!Failing(j)) BY <3>1, <3>2 DEF SoundJob
    <3>4. \/ job' = [job EXCEPT ![j] = Knowledge!Failing(j)]
          \/ job' = [job EXCEPT ![j] = Knowledge!Done]
      BY <2>1
         DEF Knowledge!FileIsGone, Knowledge!Deadlocked, Knowledge!Fails, Knowledge!Raises,
             Knowledge!Uncaught, Knowledge!Caught, Knowledge!Ends
    <3> QED BY <1>3, <3>2, <3>3, <3>4
  <2>2. CASE Knowledge!Interrupted(j)
    <3>1. job[j].doc \in Knowledge!Docs /\ Knowledge!Exists(job[j].doc)
      BY <1>0, <2>2 DEF Knowledge!Interrupted, Knowledge!UnderWay, SoundJob
    <3>2. /\ Knowledge!NewJob(job[j].doc, "worker") \in Job
          /\ SoundJob(Knowledge!NewJob(job[j].doc, "worker"))
      BY <3>1, AJob DEF SoundJob
    <3> QED BY <2>2, <3>2 DEF Knowledge!Interrupted
  <2>3. CASE Knowledge!Cut(j) BY <1>3, <2>3 DEF Knowledge!Cut, Knowledge!Ends
  <2>4. CASE Knowledge!Opens(j)
    <3> DEFINE q == [job[j] EXCEPT !.pc = "opened", !.seen = docs[job[j].doc].status]
    <3>1. /\ job[j].pc = "queued" /\ job[j].doc \in Knowledge!Docs
          /\ Knowledge!Exists(job[j].doc)
      BY <1>0, <2>4 DEF Knowledge!Opens, SoundJob
    <3>2. docs[job[j].doc].status \in {"none", "pending", "indexing", "indexed", "failed"}
      BY <1>0, <3>1 DEF KnowledgeTyped, Document
    <3>3. q \in Job /\ q.pc = "opened" /\ q.doc = job[j].doc
      BY <1>2, <3>2 DEF Job, Steps
    <3>4. SoundJob(q) BY <3>1, <3>3 DEF SoundJob
    <3>5. job' = [job EXCEPT ![j] = q] \/ job' = [job EXCEPT ![j] = Knowledge!Done]
      BY <2>4 DEF Knowledge!Opens
    <3> QED BY <1>3, <3>3, <3>4, <3>5
  <2>5. CASE Knowledge!Reads(j)
    <3>1. /\ job[j].pc = "reading" /\ job[j].doc \in Knowledge!Docs
          /\ Knowledge!Exists(job[j].doc)
      BY <1>0, <2>5 DEF Knowledge!Reads, SoundJob
    <3>2. PICK text \in Knowledge!TextsOf(job[j].doc) :
               job' = [job EXCEPT ![j].pc = "read", ![j].text = text]
      BY <2>5 DEF Knowledge!Reads
    <3> DEFINE q == [job[j] EXCEPT !.pc = "read", !.text = text]
    <3>3. text \in Knowledge!Texts BY <3>1, <3>2, TextOf
    <3>4. q \in Job /\ q.pc = "read" /\ q.doc = job[j].doc /\ q.text = text
      BY <1>2, <3>3 DEF Job, Steps
    <3>5. SoundJob(q) BY <3>1, <3>4 DEF SoundJob
    <3>6. job' = [job EXCEPT ![j] = q] BY <1>0, <3>2 DEF KnowledgeTyped
    <3> QED BY <3>4, <3>5, <3>6
  <2>6. CASE Knowledge!Finds(j)
    <3>1. /\ job[j].pc = "read" /\ job[j].doc \in Knowledge!Docs
          /\ Knowledge!Exists(job[j].doc)
          /\ job[j].text \in Knowledge!TextsOf(job[j].doc)
      BY <1>0, <2>6 DEF Knowledge!Finds, SoundJob
    <3>2. PICK e \in Knowledge!Docs :
             /\ Knowledge!Exists(e) /\ docs[e].title = docs[job[j].doc].title
             /\ job' = [job EXCEPT
                          ![j].pc = IF docs[e].hash =
                             job[j].text THEN "closing" ELSE "found",
                          ![j].target = e]
      BY <2>6 DEF Knowledge!Finds
    <3> DEFINE pc == IF docs[e].hash = job[j].text THEN "closing" ELSE "found"
               q == [job[j] EXCEPT !.pc = pc, !.target = e]
    <3>3. pc \in {"closing", "found"} /\ (pc = "closing" => docs[e].hash = job[j].text)
      OBVIOUS
    <3>4. job' = [job EXCEPT ![j] = q] BY <1>0, <3>2 DEF KnowledgeTyped
    <3> HIDE DEF pc
    <3>5. /\ q \in Job /\ q.pc = pc /\ q.doc = job[j].doc /\ q.text = job[j].text
          /\ q.target = e
      BY <1>2, <3>3 DEF Job, Steps
    <3>6. job[j].text # None BY <3>1, TextOf
    <3>7. pc = "closing" => passages[e] # None
      BY <3>2, <3>3, <3>6 DEF KnowledgeInv, SoundRow
    <3>8. SoundJob(q) BY <3>1, <3>2, <3>3, <3>5, <3>7 DEF SoundJob
    <3> QED BY <3>4, <3>5, <3>8
  <2>7. CASE Knowledge!Takes(j)
    <3> DEFINE q == [job[j] EXCEPT !.pc = "cutting"]
    <3>1. /\ q \in Job /\ q.pc = "cutting" /\ q.doc = job[j].doc /\ q.text = job[j].text
          /\ q.target = job[j].target
      BY <1>2 DEF Job, Steps
    <3>2. SoundJob(q) BY <1>0, <2>7, <3>1 DEF Knowledge!Takes, SoundJob
    <3>3. job' = [job EXCEPT ![j] = q] BY <2>7 DEF Knowledge!Takes
    <3> QED BY <3>1, <3>2, <3>3
  <2> QED BY <2>1, <2>2, <2>3, <2>4, <2>5, <2>6, <2>7
<1> QED BY <1>1, <1>7, OnlyJob

\* The first commit, and the report of a failure: the status of the row.
LEMMA KnowledgeMarks ==
  ASSUME KnowledgeInv, NEW j \in Knowledge!Jobs,
         Knowledge!Marks(j) \/ Knowledge!ReportsFailure(j)
  PROVE  KnowledgeInv'
<1>0. KnowledgeTyped /\ SoundJob(job[j]) BY DEF KnowledgeInv
<1> DEFINE d == job[j].doc
<1>1. d \in Knowledge!Docs /\ Knowledge!Exists(d) /\ UNCHANGED <<passages, request>>
  BY <1>0 DEF Knowledge!Marks, Knowledge!ReportsFailure, SoundJob
<1>2. docs[d] \in Document /\ job[j] \in Job BY <1>0, <1>1 DEF KnowledgeTyped
<1>3. /\ docs' \in [Knowledge!Docs -> Document]
      /\ \A x \in Knowledge!Docs :
            /\ docs'[x].title = docs[x].title /\ docs'[x].hash = docs[x].hash
            /\ docs'[x].status = "none" <=> docs[x].status = "none"
            /\ docs'[x].status = "indexed" => docs[x].status = "indexed"
  <2>1. CASE UNCHANGED docs BY <1>0, <2>1 DEF KnowledgeTyped
  <2>2. CASE \E s \in {"indexing", "failed"} :
                docs' = [docs EXCEPT ![d] = [docs[d] EXCEPT !.status = s]]
    <3>1. PICK s \in {"indexing", "failed"} :
               docs' = [docs EXCEPT ![d] = [docs[d] EXCEPT !.status = s]]
      BY <2>2
    <3> DEFINE row == [docs[d] EXCEPT !.status = s]
    <3>2. /\ row \in Document /\ row.title = docs[d].title /\ row.hash = docs[d].hash
          /\ row.status = s
      BY <1>2 DEF Document
    <3>3. docs' = [docs EXCEPT ![d] = row] BY <3>1
    <3> HIDE DEF row, d
    <3>4. /\ docs' \in [Knowledge!Docs -> Document] /\ docs'[d] = row
          /\ \A x \in Knowledge!Docs : x # d => docs'[x] = docs[x]
      BY <1>0, <1>1, <3>2, <3>3 DEF KnowledgeTyped
    <3> QED BY <1>1, <3>2, <3>4 DEF Knowledge!Exists
  <2> QED BY <2>1, <2>2 DEF Knowledge!Marks, Knowledge!ReportsFailure, Knowledge!Marked
<1>4. Later /\ \A x \in Knowledge!Docs : SoundRow(x)' BY <1>1, <1>3, RowsKept
<1>5. PICK q \in Job : SoundJob(q) /\ job' = [job EXCEPT ![j] = q]
  <2>1. CASE Knowledge!Marks(j)
    <3> DEFINE q == [job[j] EXCEPT !.pc = "reading", !.seen = "none"]
    <3>1. q \in Job /\ q.pc = "reading" /\ q.doc = d BY <1>2 DEF Job, Steps
    <3>2. SoundJob(q) BY <1>1, <3>1 DEF SoundJob
    <3>3. job' = [job EXCEPT ![j] = q] BY <1>0, <2>1 DEF Knowledge!Marks, KnowledgeTyped
    <3> QED BY <3>1, <3>2, <3>3
  <2>2. CASE Knowledge!ReportsFailure(j)
    <3>1. Knowledge!Done \in Job /\ SoundJob(Knowledge!Done)
      BY DEF Knowledge!Done, Knowledge!NoJob, Job, Steps, SoundJob
    <3> QED BY <2>2, <3>1 DEF Knowledge!ReportsFailure
  <2> QED BY <2>1, <2>2
<1>6. SoundJob(q)' BY <1>4, <1>5, JobLater
<1>7. job' \in [Knowledge!Jobs -> Job] /\ \A k \in Knowledge!Jobs : SoundJob(job[k])'
  BY <1>4, <1>5, <1>6, JobMoves
<1>8. SoundRequest' BY <1>1, <1>4, RequestAlone
<1>9. KnowledgeTyped' BY <1>0, <1>1, <1>3, <1>7 DEF KnowledgeTyped
<1> QED BY <1>4, <1>7, <1>8, <1>9 DEF KnowledgeInv

\* The transaction of a job: the target has its text, and its own row is indexed.
LEMMA KnowledgeFinishes ==
  ASSUME KnowledgeInv, NEW j \in Knowledge!Jobs, Knowledge!Finishes(j)
  PROVE  KnowledgeInv'
<1>0. KnowledgeTyped /\ SoundJob(job[j]) /\ (\A x \in Knowledge!Docs : SoundRow(x))
  BY DEF KnowledgeInv
<1> DEFINE d == job[j].doc
           e == job[j].target
           text == job[j].text
<1>1. /\ job[j].pc \in {"cutting", "closing"}
      /\ d \in Knowledge!Docs /\ Knowledge!Exists(d) /\ e \in Knowledge!Docs
      /\ Knowledge!Exists(e) /\ docs[e].title = docs[d].title
      /\ text \in Knowledge!TextsOf(d) /\ (job[j].pc = "closing" => passages[e] # None)
      /\ UNCHANGED request
  BY <1>0 DEF Knowledge!Finishes, SoundJob
<1>2. text \in Knowledge!Texts /\ text[1] = d /\ text # None BY <1>1, TextOf
<1>3. /\ docs' \in [Knowledge!Docs -> Document]
      /\ passages' \in [Knowledge!Docs -> Knowledge!Texts \cup {None}]
      /\ \A x \in Knowledge!Docs :
            /\ docs'[x].title = docs[x].title
            /\ docs'[x].status = IF x = d THEN "indexed" ELSE docs[x].status
      /\ \/ /\ job[j].pc = "closing" /\ UNCHANGED passages
            /\ \A x \in Knowledge!Docs : docs'[x].hash = docs[x].hash
         \/ /\ job[j].pc = "cutting" /\ passages'[e] = text /\ docs'[e].hash = text
            /\ \A x \in Knowledge!Docs : x # e =>
                  passages'[x] = passages[x] /\ docs'[x].hash = docs[x].hash
  <2> HIDE DEF d, e, text
  <2> DEFINE marked(r) == [r EXCEPT !.status = "indexed", !.published = TRUE]
  <2>1. \A r \in Document :
           /\ marked(r) \in Document /\ marked(r).title = r.title /\ marked(r).hash = r.hash
           /\ marked(r).status = "indexed"
    BY DEF Document
  <2>2. CASE job[j].pc = "closing"
    <3>1. docs' = [docs EXCEPT ![d] = marked(docs[d])] /\ UNCHANGED passages
      BY <2>2 DEF Knowledge!Finishes, Knowledge!Indexed, d
    <3> HIDE DEF marked
    <3>2. /\ docs' \in [Knowledge!Docs -> Document] /\ docs'[d] = marked(docs[d])
          /\ \A x \in Knowledge!Docs : x # d => docs'[x] = docs[x]
      BY <1>0, <1>1, <2>1, <3>1 DEF KnowledgeTyped
    <3>3. docs[d] \in Document BY <1>0, <1>1 DEF KnowledgeTyped
    <3> QED BY <1>0, <2>1, <2>2, <3>1, <3>2, <3>3 DEF KnowledgeTyped
  <2>3. CASE job[j].pc = "cutting"
    <3> DEFINE cutrow == [docs[e] EXCEPT !.hash = text, !.published = TRUE]
               cut == [docs EXCEPT ![e] = cutrow]
    <3>1. /\ docs' = [cut EXCEPT ![d] = marked(cut[d])]
          /\ passages' = [passages EXCEPT ![e] = text]
      BY <2>3 DEF Knowledge!Finishes, Knowledge!Indexed, d, e, text
    <3>2. docs[e] \in Document BY <1>0, <1>1 DEF KnowledgeTyped
    <3>3. /\ cutrow \in Document /\ cutrow.title = docs[e].title /\ cutrow.hash = text
          /\ cutrow.status = docs[e].status
      BY <1>2, <3>2 DEF Document
    <3> HIDE DEF marked, cutrow
    <3>4. /\ cut \in [Knowledge!Docs -> Document] /\ cut[e] = cutrow
          /\ \A x \in Knowledge!Docs : x # e => cut[x] = docs[x]
      BY <1>0, <1>1, <3>3 DEF KnowledgeTyped
    <3> HIDE DEF cut
    <3>5. cut[d] \in Document BY <1>1, <3>4
    <3>6. /\ docs' \in [Knowledge!Docs -> Document] /\ docs'[d] = marked(cut[d])
          /\ \A x \in Knowledge!Docs : x # d => docs'[x] = cut[x]
      BY <1>1, <2>1, <3>1, <3>4, <3>5
    <3>7. /\ passages' \in [Knowledge!Docs -> Knowledge!Texts \cup {None}]
          /\ passages'[e] = text
          /\ \A x \in Knowledge!Docs : x # e => passages'[x] = passages[x]
      BY <1>0, <1>1, <1>2, <3>1 DEF KnowledgeTyped
    <3>8. /\ docs'[d].title = cut[d].title /\ docs'[d].hash = cut[d].hash
          /\ docs'[d].status = "indexed"
      BY <2>1, <3>5, <3>6
    <3>9. \A x \in Knowledge!Docs :
             /\ cut[x].title = docs[x].title /\ cut[x].status = docs[x].status
             /\ (x # e => cut[x].hash = docs[x].hash)
      BY <3>3, <3>4
    <3>10. cut[e].hash = text BY <3>3, <3>4
    <3>11. \A x \in Knowledge!Docs :
              /\ docs'[x].title = docs[x].title
              /\ docs'[x].status = IF x = d THEN "indexed" ELSE docs[x].status
              /\ docs'[x].hash = cut[x].hash
      BY <1>1, <3>6, <3>8, <3>9
    <3> QED BY <1>1, <2>3, <3>6, <3>7, <3>9, <3>10, <3>11
  <2> QED BY <1>1, <2>2, <2>3
<1> HIDE DEF d, e, text
<1>4. \A x \in Knowledge!Docs : Knowledge!Exists(x)' <=> Knowledge!Exists(x)
  BY <1>1, <1>3 DEF Knowledge!Exists
<1>5. Later
  <2>1. \A x \in Knowledge!Docs : passages[x] # None => passages'[x] # None
    BY <1>2, <1>3
  <2> QED BY <1>3, <1>4, <2>1 DEF Later
<1>6. \A x \in Knowledge!Docs : SoundRow(x)'
  <2> SUFFICES ASSUME NEW x \in Knowledge!Docs PROVE SoundRow(x)' OBVIOUS
  <2>1. SoundRow(x) /\ passages[x] \in Knowledge!Texts \cup {None}
    BY <1>0 DEF KnowledgeTyped
  <2>2. Knowledge!Alone(x)' <=> Knowledge!Alone(x) BY <1>3 DEF Knowledge!Alone
  <2>3. docs'[x].hash = passages'[x] BY <1>3, <2>1 DEF SoundRow
  <2>4. (docs[x].title = None <=> ~Knowledge!Exists(x))'
    BY <1>3, <1>4, <2>1 DEF SoundRow
  <2>5. passages'[x] # None =>
           /\ Knowledge!Exists(x)' /\ (Knowledge!Exists(passages[x][1]))'
           /\ docs'[passages'[x][1]].title = docs'[x].title
    <3>1. CASE passages'[x] = passages[x]
      <4>1. passages[x] # None => passages[x][1] \in Knowledge!Docs BY <2>1, TextOwner
      <4> QED BY <1>3, <1>4, <2>1, <3>1, <4>1 DEF SoundRow
    <3>2. CASE x = e /\ passages'[x] = text BY <1>1, <1>2, <1>3, <1>4, <3>2
    <3> QED BY <1>3, <3>1, <3>2
  <2>6. docs'[x].status = "indexed" /\ Knowledge!Alone(x)' => passages'[x] # None
    <3>1. CASE x = d
      <4> SUFFICES ASSUME Knowledge!Alone(x) PROVE passages'[x] # None BY <2>2
      <4>1. e = d BY <1>1, <3>1 DEF Knowledge!Alone
      <4> QED BY <1>1, <1>2, <1>3, <3>1, <4>1
    <3>2. CASE x # d BY <1>3, <1>5, <2>1, <2>2, <3>2 DEF SoundRow, Later
    <3> QED BY <3>1, <3>2
  <2> QED BY <2>3, <2>4, <2>5, <2>6 DEF SoundRow
<1>7. Knowledge!Done \in Job /\ SoundJob(Knowledge!Done)'
  BY DEF Knowledge!Done, Knowledge!NoJob, Job, Steps, SoundJob
<1>8. job' = [job EXCEPT ![j] = Knowledge!Done] BY DEF Knowledge!Finishes
<1>9. job' \in [Knowledge!Jobs -> Job] /\ \A k \in Knowledge!Jobs : SoundJob(job[k])'
  BY <1>5, <1>7, <1>8, JobMoves
<1>10. SoundRequest' BY <1>1, <1>5, RequestAlone
<1>11. KnowledgeTyped' BY <1>0, <1>1, <1>3, <1>9 DEF KnowledgeTyped
<1> QED BY <1>6, <1>9, <1>10, <1>11 DEF KnowledgeInv

\* Every step keeps the invariant.
LEMMA KnowledgeStep ==
  ASSUME KnowledgeInv, [Knowledge!Next]_(Knowledge!vars)
  PROVE  KnowledgeInv'
<1>1. CASE UNCHANGED Knowledge!vars
  BY <1>1 DEF Knowledge!vars, KnowledgeInv, KnowledgeTyped, SoundRow, SoundJob,
     SoundRequest, Knowledge!Exists, Knowledge!Alone
<1>2. CASE Knowledge!Next
  BY <1>2, KnowledgeUploads, KnowledgeLoads, KnowledgeSaves, KnowledgeQueues,
     KnowledgeReads, KnowledgeMarks, KnowledgeFinishes
     DEF Knowledge!Next, Knowledge!Requesting, Knowledge!Runs
<1> QED BY <1>1, <1>2

\* Passages of a document alone with its title are its own.
LEMMA KnowledgeHolds ==
  ASSUME KnowledgeInv
  PROVE  Knowledge!IndexedHasItsText
<1> SUFFICES ASSUME NEW d \in Knowledge!Docs, docs[d].status = "indexed", Knowledge!Alone(d)
             PROVE  passages[d] \in Knowledge!TextsOf(d) /\ docs[d].hash = passages[d]
  BY DEF Knowledge!IndexedHasItsText
<1>1. SoundRow(d) /\ passages[d] \in Knowledge!Texts \cup {None}
  BY DEF KnowledgeInv, KnowledgeTyped
<1>2. passages[d] # None /\ docs[d].hash = passages[d] BY <1>1 DEF SoundRow
<1>3. passages[d][1] \in Knowledge!Docs /\ passages[d] \in Knowledge!TextsOf(passages[d][1])
  BY <1>1, <1>2, TextOwner
<1>4. passages[d][1] = d BY <1>1, <1>2, <1>3 DEF SoundRow, Knowledge!Alone
<1> QED BY <1>2, <1>3, <1>4

\* A step of the run is a step of the indexing, or leaves it alone.
LEMMA PanelKnowledge ==
    /\ PanelInit => Knowledge!Init
    /\ [PanelNext]_allVars => [Knowledge!Next]_(Knowledge!vars)
BY DEF PanelInit, PanelNext, allVars, knowledge, Knowledge!vars, InKnowledge, InChunks,
       InScripts, InLive, InAudit

\* Whatever jobs ran over it at once, failed, were cut or ran twice: a document
\* that is called indexed, whose title no other carries, has its own text.
THEOREM PanelIndexedHasItsText == PanelSpec => []IndexedHasItsText
<1>1. KnowledgeInv => IndexedHasItsText BY KnowledgeHolds DEF IndexedHasItsText
<1> QED BY <1>1, PanelKnowledge, KnowledgeInitially, KnowledgeStep, PTL DEF PanelSpec

-----------------------------------------------------------------------------
(* Passages                                                                *)

\* A set of numbers that is not empty has a least one.
LEMMA LeastNat ==
  ASSUME NEW T, T \subseteq Nat, T # {}
  PROVE  \E x \in T : \A y \in T : x <= y
<1> DEFINE R == OpToRel(<, Nat)
<1>1. IsWellFoundedOn(R, Nat)
  BY NatLessThanWellFounded
<1>2. \A a, b \in Nat : <<a, b>> \in R <=> a < b
  BY DEF OpToRel
<1> HIDE DEF R
<1>3. PICK x \in T : \A y \in T : ~ (<<y, x>> \in R)
  BY <1>1, WFMin
<1>4. \A y \in T : x <= y
  <2> TAKE y \in T
  <2>1. ~ (<<y, x>> \in R) BY <1>3
  <2>2. x \in Nat /\ y \in Nat OBVIOUS
  <2> QED BY <1>2, <2>1, <2>2
<1> QED BY <1>4

\* So a set with 0 in it, and with each number the next, has them all,
LEMMA NatInduct ==
  ASSUME NEW S, 0 \in S, \A n \in Nat : n \in S => n + 1 \in S
  PROVE  Nat \subseteq S
<1> DEFINE T == Nat \ S
<1>1. SUFFICES ASSUME T # {} PROVE FALSE
  OBVIOUS
<1>2. PICK n \in T : \A m \in T : n <= m
  BY <1>1, LeastNat
<1>3. n \in Nat /\ n # 0 OBVIOUS
<1>4. n - 1 \in Nat /\ n - 1 \notin T BY <1>2, <1>3
<1>5. (n - 1) + 1 \in S BY <1>4
<1> QED BY <1>3, <1>5

\* and one with <<>>, and with each sequence the longer ones, has all sequences.
LEMMA SeqInduct ==
  ASSUME NEW X, NEW S, <<>> \in S, \A s \in Seq(X), x \in X : s \in S => Append(s, x) \in S
  PROVE  Seq(X) \subseteq S
<1> DEFINE T == {n \in Nat : \A s \in Seq(X) : Len(s) = n => s \in S}
<1>1. 0 \in T OBVIOUS
<1>2. ASSUME NEW n \in Nat, n \in T PROVE n + 1 \in T
  <2>1. SUFFICES ASSUME NEW s \in Seq(X), Len(s) = n + 1 PROVE s \in S
    OBVIOUS
  <2>2. s # <<>> BY <2>1
  <2>3. PICK t \in Seq(X), x \in X : s = Append(t, x) BY <2>2, SequenceEmptyOrAppend
  <2>4. Len(t) = n BY <2>1, <2>3, AppendProperties
  <2> QED BY <1>2, <2>3, <2>4
<1>3. Nat \subseteq T
  <2> HIDE DEF T
  <2> QED BY <1>1, <1>2, NatInduct
<1> QED BY <1>3

\* f goes along s by G.
Recurs(n, f, G, s) == \A i \in 1..n : f[i] = G[<<f[i - 1], s[i]>>]

\* f goes along s by G from a.
Goes(X, a, f, G, s) ==
    f \in [0..Len(s) -> X] /\ f[0] = a /\ Recurs(Len(s), f, G, s)

\* There is such a function, wherever it starts
LEMMA Recursion ==
  ASSUME NEW X, NEW E, NEW a \in X, NEW G \in [X \X E -> X], NEW s \in Seq(E)
  PROVE  \E f : Goes(X, a, f, G, s)
<1> DEFINE Is(t, f) == f[0] = a /\ \A i \in 1..Len(t) : f[i] = G[<<f[i - 1], t[i]>>]
           S == {t \in Seq(E) : \E f \in [0..Len(t) -> X] : Is(t, f)}
<1>1. <<>> \in S
  <2>1. Is(<<>>, [i \in 0..0 |-> a]) OBVIOUS
  <2>2. [i \in 0..0 |-> a] \in [0..Len(<<>>) -> X] OBVIOUS
  <2> HIDE DEF Is
  <2> QED BY <2>1, <2>2
<1>2. ASSUME NEW t \in Seq(E), NEW x \in E, t \in S PROVE Append(t, x) \in S
  <2>1. PICK f \in [0..Len(t) -> X] : Is(t, f) BY <1>2
  <2> DEFINE u == Append(t, x)
             n == Len(t)
             g == [i \in 0..(n + 1) |-> IF i = n + 1 THEN G[<<f[n], x>>] ELSE f[i]]
  <2>2. /\ u \in Seq(E) /\ Len(u) = n + 1 /\ u[n + 1] = x
        /\ \A i \in 1..n : u[i] = t[i]
    BY AppendProperties
  <2>3. n \in Nat OBVIOUS
  <2>4. g \in [0..(n + 1) -> X]
    <3>1. n \in 0..n BY <2>3
    <3>2. f[n] \in X BY <3>1 DEF n
    <3>3. <<f[n], x>> \in X \X E BY <3>2
    <3>4. G[<<f[n], x>>] \in X BY <3>3
    <3> QED BY <3>4
  <2>5. g[0] = a BY <2>1
  <2>6. ASSUME NEW i \in 1..(n + 1) PROVE g[i] = G[<<g[i - 1], u[i]>>]
    <3> HIDE DEF n, u
    <3>0. i - 1 \in 0..(n + 1) /\ i - 1 # n + 1 /\ i \in 0..(n + 1) BY <2>3
    <3>1. g[i - 1] = f[i - 1] BY <3>0
    <3>2. CASE i = n + 1
      <4>1. g[i] = G[<<f[n], x>>] BY <3>2, <3>0
      <4>2. i - 1 = n BY <3>2, <2>3
      <4> QED BY <3>1, <3>2, <4>1, <4>2, <2>2
    <3>3. CASE i # n + 1
      <4>1. i \in 1..n BY <3>3, <2>3
      <4>2. g[i] = f[i] BY <3>0, <3>3
      <4>3. f[i] = G[<<f[i - 1], t[i]>>] BY <4>1, <2>1 DEF n
      <4> QED BY <3>1, <4>1, <4>2, <4>3, <2>2
    <3> QED BY <3>2, <3>3
  <2>7. Is(u, g) /\ g \in [0..Len(u) -> X]
    <3> HIDE DEF g, u, n
    <3> QED BY <2>2, <2>4, <2>5, <2>6
  <2> HIDE DEF Is, g
  <2> QED BY <2>2, <2>7
<1>3. Seq(E) \subseteq S
  <2> HIDE DEF S
  <2> QED BY <1>1, <1>2, SeqInduct
<1>4. PICK f \in [0..Len(s) -> X] : Is(s, f) BY <1>3
<1> QED BY <1>4 DEF Recurs, Goes

\* and no other.
LEMMA OneRecursion ==
  ASSUME NEW n \in Nat, NEW f, NEW g, NEW G, NEW s, f[0] = g[0],
         Recurs(n, f, G, s), Recurs(n, g, G, s)
  PROVE  \A i \in 0..n : f[i] = g[i]
<1> DEFINE S == {i \in Nat : i <= n => f[i] = g[i]}
<1>1. 0 \in S OBVIOUS
<1>2. ASSUME NEW i \in Nat, i \in S PROVE i + 1 \in S
  <2>1. CASE i + 1 <= n
    <3>1. i + 1 \in 1..n /\ (i + 1) - 1 = i BY <2>1
    <3>2. f[i] = g[i] BY <1>2, <2>1
    <3>3. f[i + 1] = G[<<f[i], s[i + 1]>>] /\ g[i + 1] = G[<<g[i], s[i + 1]>>]
      BY <3>1 DEF Recurs
    <3> QED BY <3>2, <3>3
  <2> QED BY <2>1
<1>3. Nat \subseteq S
  <2> HIDE DEF S
  <2> QED BY <1>1, <1>2, NatInduct
<1> QED BY <1>3

\* The concatenations that FlattenSeq goes through.
IsFlat(X, s, f) ==
    /\ f \in [0..Len(s) -> Seq(X)]
    /\ f[0] = <<>> /\ \A i \in 1..Len(s) : f[i] = f[i - 1] \o s[i]
    /\ Cutting!FlattenSeq(s) = f[Len(s)]

\* There are such: a function that is defined by recursion is a choice to the prover.
LEMMA FlatThere ==
  ASSUME NEW X, NEW s \in Seq(Seq(X)), s # <<>>
  PROVE  \E f : IsFlat(X, s, f)
<1> DEFINE n == Len(s)
           Is(h) == h = [i \in 1..n |-> IF i = 1 THEN s[i] ELSE h[i - 1] \o s[i]]
           h0 == CHOOSE h : Is(h)
           G == [p \in Seq(X) \X Seq(X) |-> p[1] \o p[2]]
<1>0. n \in Nat /\ n # 0 /\ \A i \in 1..n : s[i] \in Seq(X) BY ElementOfSeq
<1>1. G \in [Seq(X) \X Seq(X) -> Seq(X)] OBVIOUS
<1>2. <<>> \in Seq(X) OBVIOUS
<1>3. PICK f \in [0..n -> Seq(X)] : f[0] = <<>> /\ Recurs(n, f, G, s)
  <2> HIDE DEF G
  <2>1. PICK f : Goes(Seq(X), <<>>, f, G, s)
    BY ONLY <1>1, <1>2, s \in Seq(Seq(X)), Recursion
  <2> QED BY <2>1 DEF Goes
<1>4. ASSUME NEW i \in 1..n PROVE f[i] = f[i - 1] \o s[i]
  <2>1. i - 1 \in 0..n BY <1>0
  <2>2. f[i - 1] \in Seq(X) /\ s[i] \in Seq(X) BY <1>0, <2>1
  <2>3. <<f[i - 1], s[i]>> \in Seq(X) \X Seq(X) BY <2>2
  <2>4. G[<<f[i - 1], s[i]>>] = f[i - 1] \o s[i] BY <2>3
  <2> QED BY <1>3, <2>4 DEF Recurs
<1>5. f[1] = s[1]
  <2>0. 1 \in 1..n /\ 1 - 1 = 0 BY <1>0
  <2>1. f[1] = <<>> \o s[1] BY <2>0, <1>3, <1>4
  <2> QED BY <1>0, <2>1, ConcatEmptySeq
<1> HIDE DEF n
<1>6. Is([i \in 1..n |-> f[i]])
  <2> DEFINE h == [i \in 1..n |-> f[i]]
  <2>1. ASSUME NEW i \in 1..n PROVE h[i] = IF i = 1 THEN s[i] ELSE h[i - 1] \o s[i]
    <3>1. CASE i = 1 BY <1>5, <3>1
    <3>2. CASE i # 1
      <4>1. i - 1 \in 1..n BY <1>0, <3>2
      <4> QED BY <1>4, <3>2, <4>1
    <3> QED BY <3>1, <3>2
  <2> QED BY <2>1
<1>7. Is(h0) BY <1>6
<1>8. Cutting!FlattenSeq(s) = h0[n] BY <1>0 DEF Cutting!FlattenSeq, n
<1> HIDE DEF h0
<1>9. ASSUME NEW i \in 1..n PROVE h0[i] = IF i = 1 THEN s[i] ELSE h0[i - 1] \o s[i]
  BY <1>7
<1> DEFINE S == {i \in Nat : i \in 1..n => h0[i] = f[i]}
<1>10. 0 \in S BY <1>0
<1>11. ASSUME NEW i \in Nat, i \in S PROVE i + 1 \in S
  <2>1. CASE i = 0
    <3>1. 1 \in 1..n BY <1>0
    <3>2. h0[1] = f[1] BY <1>5, <1>9, <3>1
    <3> QED BY <2>1, <3>2
  <2>2. CASE i # 0 /\ i + 1 <= n
    <3>1. i + 1 \in 1..n /\ (i + 1) - 1 = i /\ i + 1 # 1 /\ i \in 1..n BY <1>0, <2>2
    <3>2. h0[i + 1] = h0[i] \o s[i + 1] BY <1>9, <3>1
    <3>3. f[i + 1] = f[i] \o s[i + 1] BY <1>4, <3>1
    <3>4. h0[i] = f[i] BY <1>11, <3>1
    <3>5. h0[i + 1] = f[i + 1] BY <3>2, <3>3, <3>4
    <3> QED BY <3>5
  <2> QED BY <1>0, <2>1, <2>2
<1>12. Nat \subseteq S
  <2> HIDE DEF S
  <2> QED BY <1>10, <1>11, NatInduct
<1>13. h0[n] = f[n] BY <1>0, <1>12
<1> QED BY <1>3, <1>4, <1>8, <1>13 DEF n, IsFlat

\* What FlattenSeq returns,
LEMMA FlatTyped ==
  ASSUME NEW X, NEW s \in Seq(Seq(X)) PROVE Cutting!FlattenSeq(s) \in Seq(X)
<1>1. CASE s = <<>> BY <1>1 DEF Cutting!FlattenSeq
<1>2. CASE s # <<>>
  <2>1. PICK f : IsFlat(X, s, f) BY <1>2, FlatThere
  <2>2. Len(s) \in 0..Len(s) OBVIOUS
  <2> QED BY <2>1, <2>2 DEF IsFlat
<1> QED BY <1>1, <1>2

\* of no sequence,
LEMMA FlatNone == Cutting!FlattenSeq(<<>>) = <<>>
BY DEF Cutting!FlattenSeq

\* of one more,
LEMMA FlatAppend ==
  ASSUME NEW X, NEW s \in Seq(Seq(X)), NEW x \in Seq(X)
  PROVE  Cutting!FlattenSeq(Append(s, x)) = Cutting!FlattenSeq(s) \o x
<1> DEFINE t == Append(s, x)
           n == Len(s)
           G == [p \in Seq(X) \X Seq(X) |-> p[1] \o p[2]]
<1>0. /\ n \in Nat /\ t \in Seq(Seq(X)) /\ t # <<>> /\ Len(t) = n + 1 /\ t[n + 1] = x
      /\ \A i \in 1..n : t[i] = s[i] /\ s[i] \in Seq(X)
  BY AppendProperties, ElementOfSeq
<1> HIDE DEF t
<1>1. PICK f \in [0..(n + 1) -> Seq(X)] :
         /\ f[0] = <<>> /\ \A i \in 1..(n + 1) : f[i] = f[i - 1] \o t[i]
         /\ Cutting!FlattenSeq(t) = f[n + 1]
  <2>1. PICK f : IsFlat(X, t, f) BY <1>0, FlatThere
  <2> QED BY <2>1, <1>0 DEF IsFlat
<1>2. f[n + 1] = f[n] \o x
  <2>1. n + 1 \in 1..(n + 1) /\ (n + 1) - 1 = n BY <1>0
  <2> QED BY <1>0, <1>1, <2>1
<1>3. CASE s = <<>>
  <2>1. n = 0 BY <1>3
  <2> QED BY <1>1, <1>2, <1>3, <2>1, FlatNone DEF t
<1>4. CASE s # <<>>
  <2>1. PICK g \in [0..n -> Seq(X)] :
         /\ g[0] = <<>> /\ \A i \in 1..n : g[i] = g[i - 1] \o s[i]
         /\ Cutting!FlattenSeq(s) = g[n]
    <3>1. PICK g : IsFlat(X, s, g) BY <1>4, FlatThere
    <3> QED BY <3>1 DEF IsFlat
  <2>2. ASSUME NEW i \in 1..n
        PROVE  f[i] = G[<<f[i - 1], s[i]>>] /\ g[i] = G[<<g[i - 1], s[i]>>]
    <3>1. i - 1 \in 0..n /\ i - 1 \in 0..(n + 1) /\ i \in 1..(n + 1) BY <1>0
    <3>2. f[i - 1] \in Seq(X) /\ g[i - 1] \in Seq(X) /\ s[i] \in Seq(X) /\ t[i] = s[i]
      BY <1>0, <3>1
    <3>3. f[i] = f[i - 1] \o s[i] /\ g[i] = g[i - 1] \o s[i] BY <1>1, <2>1, <3>1, <3>2
    <3>4. <<f[i - 1], s[i]>> \in Seq(X) \X Seq(X) /\ <<g[i - 1], s[i]>> \in Seq(X) \X Seq(X)
      BY <3>2
    <3>5. /\ G[<<f[i - 1], s[i]>>] = f[i - 1] \o s[i]
          /\ G[<<g[i - 1], s[i]>>] = g[i - 1] \o s[i]
      BY <3>4
    <3> QED BY <3>3, <3>5
  <2>3. f[n] = g[n]
    <3> HIDE DEF G, n
    <3>1. f[0] = g[0] BY <1>1, <2>1
    <3>3. Recurs(n, f, G, s) /\ Recurs(n, g, G, s) BY <2>2 DEF Recurs
    <3>4. n \in Nat BY <1>0
    <3>2. \A i \in 0..n : f[i] = g[i] BY <3>1, <3>3, <3>4, OneRecursion, ZenonT(30)
    <3> QED BY <1>0, <3>2
  <2> QED BY <1>1, <1>2, <2>1, <2>3 DEF t
<1> QED BY <1>3, <1>4

\* A function on 1..n is a sequence.
LEMMA FunctionSeq ==
  ASSUME NEW n \in Nat, NEW X, NEW f \in [1..n -> X]
  PROVE  f \in Seq(X) /\ Len(f) = n /\ DOMAIN f = 1..n
BY SeqDef

\* Three sequences, one after another.
Grouped(a, b, c) == (a \o b) \o c = a \o (b \o c)

\* Concatenation is associative.
LEMMA ConcatThree ==
  \A P : \A a, b, c \in Seq(P) : Grouped(a, b, c)
BY ConcatAssociative DEF Grouped

\* FlattenSeq of two after another,
LEMMA FlatConcat ==
  ASSUME NEW X, NEW s \in Seq(Seq(X)), NEW t \in Seq(Seq(X))
  PROVE  Cutting!FlattenSeq(s \o t) = Cutting!FlattenSeq(s) \o Cutting!FlattenSeq(t)
<1> DEFINE S == {u \in Seq(Seq(X)) :
                    Cutting!FlattenSeq(s \o u) =
                       Cutting!FlattenSeq(s) \o Cutting!FlattenSeq(u)}
<1>1. <<>> \in S
  <2>1. s \o <<>> = s /\ Cutting!FlattenSeq(s) \o <<>> = Cutting!FlattenSeq(s)
    BY FlatTyped, ConcatEmptySeq
  <2>2. Cutting!FlattenSeq(s \o <<>>) = Cutting!FlattenSeq(s) \o Cutting!FlattenSeq(<<>>)
    BY <2>1, FlatNone
  <2>3. <<>> \in Seq(Seq(X)) OBVIOUS
  <2> QED BY <2>2, <2>3
<1>2. ASSUME NEW u \in Seq(Seq(X)), NEW x \in Seq(X), u \in S PROVE Append(u, x) \in S
  <2>1. s \o Append(u, x) = Append(s \o u, x) OBVIOUS
  <2>2. s \o u \in Seq(Seq(X)) OBVIOUS
  <2>3. Cutting!FlattenSeq(Append(s \o u, x)) = Cutting!FlattenSeq(s \o u) \o x
    BY <2>2, FlatAppend
  <2>4. Cutting!FlattenSeq(Append(u, x)) = Cutting!FlattenSeq(u) \o x BY FlatAppend
  <2>5. Cutting!FlattenSeq(s) \in Seq(X) /\ Cutting!FlattenSeq(u) \in Seq(X)
    BY FlatTyped
  <2>6. (Cutting!FlattenSeq(s) \o Cutting!FlattenSeq(u)) \o x =
           Cutting!FlattenSeq(s) \o (Cutting!FlattenSeq(u) \o x)
    <3>1. Grouped(Cutting!FlattenSeq(s), Cutting!FlattenSeq(u), x)
      BY ONLY <2>5, x \in Seq(X), ConcatThree
    <3> QED BY <3>1 DEF Grouped
  <2>7. Append(u, x) \in Seq(Seq(X)) OBVIOUS
  <2> QED BY <1>2, <2>1, <2>3, <2>4, <2>6, <2>7
<1>3. Seq(Seq(X)) \subseteq S
  <2> HIDE DEF S
  <2> QED BY <1>1, <1>2, SeqInduct
<1> QED BY <1>3

\* and what is in it.
LEMMA FlatHas ==
  ASSUME NEW X, NEW s \in Seq(Seq(X)), NEW i \in 1..Len(s), NEW j \in 1..Len(s[i])
  PROVE  \E p \in DOMAIN Cutting!FlattenSeq(s) : Cutting!FlattenSeq(s)[p] = s[i][j]
<1> DEFINE Has(t) == \A k \in 1..Len(t) : \A l \in 1..Len(t[k]) :
                        \E p \in DOMAIN Cutting!FlattenSeq(t) :
                           Cutting!FlattenSeq(t)[p] = t[k][l]
           S == {t \in Seq(Seq(X)) : Has(t)}
<1>1. <<>> \in S
  OBVIOUS
<1>2. ASSUME NEW t \in Seq(Seq(X)), NEW x \in Seq(X), t \in S PROVE Append(t, x) \in S
  <2> DEFINE u == Append(t, x)
             f == Cutting!FlattenSeq(t)
  <2>1. Cutting!FlattenSeq(u) = f \o x /\ f \in Seq(X) BY FlatAppend, FlatTyped
  <2>2. /\ u \in Seq(Seq(X)) /\ Len(u) = Len(t) + 1 /\ u[Len(t) + 1] = x
        /\ \A k \in 1..Len(t) : u[k] = t[k]
    BY AppendProperties
  <2>3. /\ DOMAIN (f \o x) = 1..(Len(f) + Len(x)) /\ DOMAIN f = 1..Len(f)
        /\ Len(f) \in Nat /\ Len(x) \in Nat /\ Len(t) \in Nat
        /\ \A p \in 1..Len(f) : (f \o x)[p] = f[p]
        /\ \A p \in 1..Len(x) : (f \o x)[Len(f) + p] = x[p]
    BY <2>1
  <2>4. Has(t) BY <1>2
  <2> HIDE DEF u, f
  <2>5. ASSUME NEW k \in 1..Len(u), NEW l \in 1..Len(u[k])
        PROVE  \E p \in DOMAIN Cutting!FlattenSeq(u) : Cutting!FlattenSeq(u)[p] = u[k][l]
    <3>1. CASE k = Len(t) + 1
      <4>1. Len(f) + l \in 1..(Len(f) + Len(x)) /\ l \in 1..Len(x) BY <2>2, <2>3, <3>1
      <4> QED BY <2>1, <2>2, <2>3, <3>1, <4>1
    <3>2. CASE k # Len(t) + 1
      <4>0. k \in 1..(Len(t) + 1) BY <2>2
      <4>1. k \in 1..Len(t) BY <4>0, <2>3, <3>2
      <4>4. u[k] = t[k] BY <2>2, <4>1
      <4>2. PICK p \in DOMAIN f : f[p] = t[k][l] BY <2>4, <4>1, <4>4 DEF f
      <4>3. p \in DOMAIN (f \o x) /\ (f \o x)[p] = f[p] BY <2>3
      <4> QED BY <2>1, <4>4, <4>2, <4>3
    <3> QED BY <3>1, <3>2
  <2> QED BY <2>2, <2>5 DEF u
<1>3. Seq(Seq(X)) \subseteq S
  <2> HIDE DEF S
  <2> QED BY <1>1, <1>2, SeqInduct
<1>4. Has(s) BY <1>3
<1> QED BY <1>4

\* A unit;
Unit == [tokens : Nat, stops : BOOLEAN]
\* the numbers of the units of the document;
Places == 1..Len(units)
\* and a text.
Passage == Seq(Places)

\* A unit has its tokens.
LEMMA PlacesCost ==
  ASSUME units \in Seq(Unit) PROVE \A u \in Places : units[u].tokens \in Nat
<1> SUFFICES ASSUME NEW u \in Places PROVE units[u].tokens \in Nat OBVIOUS
<1>1. units[u] \in Unit BY ElementOfSeq DEF Places
<1> QED BY <1>1 DEF Unit

\* The sums that TokensOf goes through.
IsSum(s, f) ==
    /\ f \in [0..Len(s) -> Nat]
    /\ f[0] = 0 /\ \A i \in 1..Len(s) : f[i] = f[i - 1] + units[s[i]].tokens
    /\ Cutting!TokensOf(s) = f[Len(s)]

\* One more unit.
Adding == [p \in Nat \X Places |-> p[1] + units[p[2]].tokens]

\* What it adds.
LEMMA AddingIs ==
  ASSUME units \in Seq(Unit)
  PROVE  /\ Adding \in [Nat \X Places -> Nat]
         /\ \A a \in Nat, u \in Places : Adding[<<a, u>>] = a + units[u].tokens
<1>1. \A p \in Nat \X Places : p[1] + units[p[2]].tokens \in Nat
  <2> SUFFICES ASSUME NEW a \in Nat, NEW u \in Places
               PROVE  a + units[u].tokens \in Nat
    OBVIOUS
  <2> QED BY PlacesCost
<1>2. Adding \in [Nat \X Places -> Nat] BY <1>1 DEF Adding
<1>3. ASSUME NEW a \in Nat, NEW u \in Places PROVE Adding[<<a, u>>] = a + units[u].tokens
  BY DEF Adding
<1> QED BY <1>2, <1>3

\* There are such sums.
LEMMA SumThere ==
  ASSUME units \in Seq(Unit), NEW s \in Passage PROVE \E f : IsSum(s, f)
<1> DEFINE n == Len(s)
           Is(h) == h = [i \in 0..n |-> IF i = 0 THEN 0 ELSE h[i - 1] + units[s[i]].tokens]
           h0 == CHOOSE h : Is(h)
<1>0. n \in Nat /\ \A i \in 1..n : s[i] \in Places BY ElementOfSeq DEF Passage
<1>1. Adding \in [Nat \X Places -> Nat] BY AddingIs
<1>2. s \in Seq(Places) /\ 0 \in Nat BY DEF Passage
<1>3. PICK f \in [0..n -> Nat] : f[0] = 0 /\ Recurs(n, f, Adding, s)
  <2>1. PICK f : Goes(Nat, 0, f, Adding, s) BY ONLY <1>1, <1>2, Recursion
  <2> QED BY <2>1 DEF Goes
<1> HIDE DEF n
<1>4. ASSUME NEW i \in 1..n PROVE f[i] = f[i - 1] + units[s[i]].tokens
  <2>1. i - 1 \in 0..n BY <1>0
  <2>2. f[i - 1] \in Nat /\ s[i] \in Places BY <1>0, <2>1
  <2> QED BY <1>3, <2>2, AddingIs DEF Recurs
<1>5. Is([i \in 0..n |-> f[i]])
  <2> DEFINE h == [i \in 0..n |-> f[i]]
  <2>1. ASSUME NEW i \in 0..n
        PROVE  h[i] = IF i = 0 THEN 0 ELSE h[i - 1] + units[s[i]].tokens
    <3>1. CASE i = 0 BY <1>3, <3>1
    <3>2. CASE i # 0
      <4>1. i - 1 \in 0..n /\ i \in 1..n BY <1>0, <3>2
      <4> QED BY <1>4, <3>2, <4>1
    <3> QED BY <3>1, <3>2
  <2> QED BY <2>1
<1>6. Is(h0) BY <1>5
<1>7. Cutting!TokensOf(s) = h0[n] BY DEF Cutting!TokensOf, n
<1> HIDE DEF h0
<1>8. h0[0] = 0 BY <1>0, <1>6
<1>9. Recurs(n, h0, Adding, s)
  <2> DEFINE S == {i \in Nat : i \in 0..n => h0[i] \in Nat}
  <2>1. ASSUME NEW i \in 1..n PROVE h0[i] = h0[i - 1] + units[s[i]].tokens
    <3>1. i \in 0..n /\ i # 0 BY <1>0
    <3> QED BY <1>6, <3>1
  <2>2. 0 \in S BY <1>8
  <2>3. ASSUME NEW i \in Nat, i \in S PROVE i + 1 \in S
    <3>1. SUFFICES ASSUME i + 1 \in 0..n PROVE h0[i + 1] \in Nat
      OBVIOUS
    <3>2. i + 1 \in 1..n /\ (i + 1) - 1 = i /\ i \in 0..n BY <1>0, <3>1
    <3>3. h0[i + 1] = h0[i] + units[s[i + 1]].tokens BY <2>1, <3>2
    <3>4. h0[i] \in Nat /\ units[s[i + 1]].tokens \in Nat
      BY <1>0, <2>3, <3>2, PlacesCost
    <3> QED BY <3>3, <3>4
  <2>4. Nat \subseteq S
    <3> HIDE DEF S
    <3> QED BY <2>2, <2>3, NatInduct
  <2>5. ASSUME NEW i \in 1..n PROVE h0[i] = Adding[<<h0[i - 1], s[i]>>]
    <3>1. i - 1 \in 0..n /\ i - 1 \in Nat BY <1>0
    <3>2. h0[i - 1] \in Nat /\ s[i] \in Places BY <1>0, <2>4, <3>1
    <3> QED BY <2>1, <3>2, AddingIs
  <2> QED BY <2>5 DEF Recurs
<1>10. h0[n] = f[n]
  <2>1. \A i \in 0..n : h0[i] = f[i]
    <3>1. h0[0] = f[0] /\ Recurs(n, h0, Adding, s) /\ Recurs(n, f, Adding, s) /\ n \in Nat
      BY <1>0, <1>3, <1>8, <1>9
    <3> QED BY ONLY <3>1, OneRecursion, ZenonT(30)
  <2> QED BY <1>0, <2>1
<1> QED BY <1>3, <1>4, <1>7, <1>10 DEF n, IsSum

\* The tokens of a text,
LEMMA SumTyped ==
  ASSUME units \in Seq(Unit), NEW s \in Passage PROVE Cutting!TokensOf(s) \in Nat
<1>1. PICK f : IsSum(s, f) BY SumThere
<1>2. Len(s) \in 0..Len(s) BY DEF Passage
<1> QED BY <1>1, <1>2 DEF IsSum

\* of none,
LEMMA SumNone == ASSUME units \in Seq(Unit) PROVE Cutting!TokensOf(<<>>) = 0
<1>1. <<>> \in Passage BY DEF Passage
<1>2. PICK f : IsSum(<<>>, f) BY <1>1, SumThere
<1>3. Len(<<>>) = 0 OBVIOUS
<1> QED BY <1>2, <1>3 DEF IsSum

\* of one unit more,
LEMMA SumAppend ==
  ASSUME units \in Seq(Unit), NEW s \in Passage, NEW u \in Places
  PROVE  Cutting!TokensOf(Append(s, u)) = Cutting!TokensOf(s) + units[u].tokens
<1> DEFINE t == Append(s, u)
           n == Len(s)
<1>0. s \in Seq(Places) BY DEF Passage
<1>1. /\ n \in Nat /\ t \in Seq(Places) /\ Len(t) = n + 1 /\ t[n + 1] = u
      /\ \A i \in 1..n : t[i] = s[i] /\ s[i] \in Places
  BY <1>0, AppendProperties, ElementOfSeq
<1>2. t \in Passage BY <1>1 DEF Passage
<1> HIDE DEF t
<1>3. PICK f : IsSum(t, f) BY <1>2, SumThere
<1>4. PICK g : IsSum(s, g) BY SumThere
<1>5. /\ f \in [0..(n + 1) -> Nat] /\ f[0] = 0 /\ Cutting!TokensOf(t) = f[n + 1]
      /\ \A i \in 1..(n + 1) : f[i] = f[i - 1] + units[t[i]].tokens
  BY <1>1, <1>3 DEF IsSum
<1>6. /\ g \in [0..n -> Nat] /\ g[0] = 0 /\ Cutting!TokensOf(s) = g[n]
      /\ \A i \in 1..n : g[i] = g[i - 1] + units[s[i]].tokens
  BY <1>4 DEF IsSum
<1> HIDE DEF n
<1>7. ASSUME NEW i \in 1..n
      PROVE  f[i] = Adding[<<f[i - 1], s[i]>>] /\ g[i] = Adding[<<g[i - 1], s[i]>>]
  <2>1. i - 1 \in 0..n /\ i - 1 \in 0..(n + 1) /\ i \in 1..(n + 1) BY <1>1
  <2>2. f[i - 1] \in Nat /\ g[i - 1] \in Nat /\ s[i] \in Places /\ t[i] = s[i]
    BY <1>1, <1>5, <1>6, <2>1
  <2>3. f[i] = f[i - 1] + units[s[i]].tokens /\ g[i] = g[i - 1] + units[s[i]].tokens
    BY <1>5, <1>6, <2>1, <2>2
  <2> QED BY <2>2, <2>3, AddingIs
<1>8. f[n] = g[n]
  <2>1. /\ f[0] = g[0] /\ Recurs(n, f, Adding, s) /\ Recurs(n, g, Adding, s) /\ n \in Nat
    BY <1>1, <1>5, <1>6, <1>7 DEF Recurs
  <2>2. \A i \in 0..n : f[i] = g[i] BY ONLY <2>1, OneRecursion, ZenonT(30)
  <2> QED BY <2>1, <2>2
<1>9. f[n + 1] = f[n] + units[u].tokens
  <2>1. n + 1 \in 1..(n + 1) /\ (n + 1) - 1 = n BY <1>1
  <2> QED BY <1>1, <1>5, <2>1
<1> QED BY <1>5, <1>6, <1>8, <1>9 DEF t

\* of two after another: estimates add up.
LEMMA SumConcat ==
  ASSUME units \in Seq(Unit), NEW s \in Passage, NEW t \in Passage
  PROVE  Cutting!TokensOf(s \o t) = Cutting!TokensOf(s) + Cutting!TokensOf(t)
<1> DEFINE S == {v \in Seq(Places) :
                    Cutting!TokensOf(s \o v) = Cutting!TokensOf(s) + Cutting!TokensOf(v)}
<1>0. s \in Seq(Places) /\ t \in Seq(Places) BY DEF Passage
<1>1. <<>> \in S
  <2>1. s \o <<>> = s BY <1>0, ConcatEmptySeq
  <2>2. Cutting!TokensOf(s) \in Nat BY SumTyped
  <2>3. Cutting!TokensOf(s \o <<>>) = Cutting!TokensOf(s) + Cutting!TokensOf(<<>>)
    BY <2>1, <2>2, SumNone
  <2>4. <<>> \in Seq(Places) OBVIOUS
  <2> QED BY <2>3, <2>4
<1>2. ASSUME NEW v \in Seq(Places), NEW u \in Places, v \in S PROVE Append(v, u) \in S
  <2>1. s \o Append(v, u) = Append(s \o v, u) BY <1>0
  <2>2. s \o v \in Passage /\ v \in Passage BY <1>0, ConcatProperties DEF Passage
  <2>3. Cutting!TokensOf(Append(s \o v, u)) = Cutting!TokensOf(s \o v) + units[u].tokens
    BY <2>2, SumAppend
  <2>4. Cutting!TokensOf(Append(v, u)) = Cutting!TokensOf(v) + units[u].tokens
    BY <2>2, SumAppend
  <2>5. /\ Cutting!TokensOf(s) \in Nat /\ Cutting!TokensOf(v) \in Nat
        /\ units[u].tokens \in Nat
    BY <2>2, SumTyped, PlacesCost
  <2>6. Cutting!TokensOf(s \o v) = Cutting!TokensOf(s) + Cutting!TokensOf(v) BY <1>2
  <2>7. Cutting!TokensOf(s \o Append(v, u)) =
           Cutting!TokensOf(s) + Cutting!TokensOf(Append(v, u))
    BY <2>1, <2>3, <2>4, <2>5, <2>6
  <2>8. Append(v, u) \in Seq(Places) OBVIOUS
  <2> QED BY <2>7, <2>8
<1>3. Seq(Places) \subseteq S
  <2> HIDE DEF S
  <2> QED BY <1>1, <1>2, SeqInduct
<1> QED BY <1>0, <1>3

\* The pieces that blocks are cut into: within the window, or one sentence, or what is
\* not to be cut.
FitPieces(B) ==
    {q \in [text : Passage, path : {B[b].path : b \in DOMAIN B}] :
        \/ Cutting!TokensOf(q.text) <= MaxTokens
        \/ Len(q.text) = 1
        \/ \E b \in DOMAIN B : B[b].text = q.text /\ Cutting!Whole(B[b])}

\* Tables and dosage rows are in one piece.
WholeIn(B, packed) ==
    \A b \in DOMAIN B :
       Cutting!Whole(B[b]) => \E p \in DOMAIN packed : packed[p].text = B[b].text

\* The document.
WholeText == [u \in 1..Len(units) |-> u]

\* What is in the chunks and what is still to be put there.
Carried == IF phase = "done" THEN Cutting!Bodies ELSE Cutting!Bodies \o (current \o pieces)

\* What has been read.
Read ==
    /\ units \in Seq(Unit)
    /\ buffer \in Passage
    /\ blocks \in Seq(Range(blocks))
    /\ \A b \in Range(blocks) : b.text \in Passage

\* Chunks are made of such pieces, and only one that is alone exceeds the window.
FitChunks(B, ch) ==
    /\ ch \in Seq(Range(ch))
    /\ \A c \in Range(ch) :
          /\ c.body \in Seq(FitPieces(B))
          /\ Cutting!TokensOf(Cutting!Text(c.body)) > MaxTokens => Len(c.body) = 1

\* While it is read, the blocks and the buffer are the document.
Parsing ==
    /\ Cutting!Text(blocks) \o buffer = WholeText
    /\ current = <<>> /\ size = 0 /\ chunks = <<>>

\* While it is packed, the chunks, the current one and the pieces to come are.
Packing ==
    /\ current \in Seq(FitPieces(blocks)) /\ pieces \in Seq(FitPieces(blocks))
    /\ FitChunks(blocks, chunks)
    /\ size = Cutting!TokensOf(Cutting!Text(current)) /\ size <= MaxTokens
    /\ Cutting!Text(Carried) = WholeText /\ WholeIn(blocks, Carried)

\* The invariant.
ChunkInv ==
    /\ Read /\ phase \in {"parse", "pack", "done"}
    /\ IF phase = "parse" THEN Parsing ELSE Packing

\* What a sentence, or several within the window, may be.
FitPassage == {c \in Passage : Cutting!TokensOf(c) <= MaxTokens \/ Len(c) = 1}

\* Add, of Cut.
CutLonger(cut, u) ==
    IF cut # <<>> /\ Cutting!TokensOf(Cutting!Last(cut)) + units[u].tokens <= MaxTokens
    THEN [cut EXCEPT ![Len(cut)] = Append(@, u)]
    ELSE Append(cut, <<u>>)

\* One more sentence is put with the last, or alone.
LEMMA CutGrows ==
  ASSUME units \in Seq(Unit), NEW cut \in Seq(FitPassage), NEW u \in Places
  PROVE  /\ CutLonger(cut, u) \in Seq(FitPassage)
         /\ Cutting!FlattenSeq(CutLonger(cut, u)) = Append(Cutting!FlattenSeq(cut), u)
<1>0. FitPassage \subseteq Seq(Places) BY DEF FitPassage, Passage
<1>1. cut \in Seq(Seq(Places)) BY <1>0, SeqMonotonic
<1>2. Cutting!FlattenSeq(cut) \in Seq(Places) BY <1>1, FlatTyped
<1>3. CASE cut # <<>> /\ Cutting!TokensOf(Cutting!Last(cut)) + units[u].tokens <= MaxTokens
  <2>1. PICK c \in Seq(FitPassage), l \in FitPassage : cut = Append(c, l)
    BY <1>3, SequenceEmptyOrAppend
  <2>2. l \in Seq(Places) /\ l \in Passage /\ c \in Seq(Seq(Places))
    BY <1>0, SeqMonotonic DEF Passage
  <2>3. Cutting!Last(cut) = l BY <2>1 DEF Cutting!Last
  <2> DEFINE m == Append(l, u)
  <2>4. m \in Seq(Places) /\ m \in Passage BY <2>2 DEF Passage
  <2>5. Cutting!TokensOf(m) = Cutting!TokensOf(l) + units[u].tokens BY <2>2, SumAppend
  <2>6. m \in FitPassage BY <1>3, <2>3, <2>4, <2>5 DEF FitPassage
  <2> HIDE DEF m
  <2>7. CutLonger(cut, u) = Append(c, m)
    <3>1. CutLonger(cut, u) = [cut EXCEPT ![Len(cut)] = Append(cut[Len(cut)], u)]
      BY <1>3 DEF CutLonger
    <3>2. Len(cut) = Len(c) + 1 /\ cut[Len(cut)] = l BY <2>1
    <3>3. CutLonger(cut, u) = [cut EXCEPT ![Len(cut)] = m] BY <3>1, <3>2 DEF m
    <3>4. [cut EXCEPT ![Len(cut)] = m] = Append(c, m)
      <4> DEFINE a == [cut EXCEPT ![Len(cut)] = m]
                 b == Append(c, m)
      <4>1. /\ b \in Seq(FitPassage) /\ Len(b) = Len(c) + 1 /\ b[Len(c) + 1] = m
            /\ \A i \in 1..Len(c) : b[i] = c[i]
        BY <2>6, AppendProperties
      <4>2. /\ Len(c) \in Nat /\ Len(cut) \in 1..Len(cut)
            /\ \A i \in 1..Len(c) : cut[i] = c[i]
        BY <2>1, <3>2
      <4>3. /\ a \in Seq(FitPassage) /\ Len(a) = Len(cut)
            /\ \A i \in 1..Len(cut) : a[i] = IF i = Len(cut) THEN m ELSE cut[i]
        BY <2>6, <4>2, ExceptSeq
      <4> HIDE DEF a, b
      <4>4. Len(a) = Len(b) BY <3>2, <4>1, <4>3
      <4>6. ASSUME NEW i \in 1..Len(a) PROVE a[i] = b[i]
        <5>1. i \in 1..(Len(c) + 1) /\ i \in 1..Len(cut) BY <3>2, <4>3
        <5>2. CASE i = Len(c) + 1 BY <3>2, <4>1, <4>3, <5>1, <5>2
        <5>3. CASE i # Len(c) + 1
          <6>1. i \in 1..Len(c) BY <4>2, <5>1, <5>3
          <6> QED BY <3>2, <4>1, <4>2, <4>3, <5>1, <5>3, <6>1
        <5> QED BY <5>2, <5>3
      <4>5. a = b BY <4>1, <4>3, <4>4, <4>6, SeqEqual
      <4> QED BY <4>5 DEF a, b
    <3> QED BY <3>3, <3>4
  <2>8. Cutting!FlattenSeq(Append(c, m)) = Cutting!FlattenSeq(c) \o m
    BY <2>2, <2>4, FlatAppend
  <2>9. Cutting!FlattenSeq(cut) = Cutting!FlattenSeq(c) \o l BY <2>1, <2>2, FlatAppend
  <2>10. Cutting!FlattenSeq(c) \o m = Append(Cutting!FlattenSeq(c) \o l, u)
    <3>1. Cutting!FlattenSeq(c) \in Seq(Places) BY <2>2, FlatTyped
    <3> QED BY <3>1, <2>2 DEF m
  <2>11. Append(c, m) \in Seq(FitPassage) BY <2>6
  <2> QED BY <2>7, <2>8, <2>9, <2>10, <2>11
<1>4. CASE ~(/\ cut # <<>>
             /\ Cutting!TokensOf(Cutting!Last(cut)) + units[u].tokens <= MaxTokens)
  <2>1. CutLonger(cut, u) = Append(cut, <<u>>) BY <1>4, Zenon DEF CutLonger
  <2>2. <<u>> \in Seq(Places) /\ Len(<<u>>) = 1 OBVIOUS
  <2>3. <<u>> \in FitPassage BY <2>2 DEF FitPassage, Passage
  <2>4. Cutting!FlattenSeq(Append(cut, <<u>>)) = Cutting!FlattenSeq(cut) \o <<u>>
    BY <1>1, <2>2, FlatAppend
  <2>5. Cutting!FlattenSeq(cut) \o <<u>> = Append(Cutting!FlattenSeq(cut), u) BY <1>2
  <2>6. Append(cut, <<u>>) \in Seq(FitPassage) BY <2>3
  <2> QED BY <2>1, <2>4, <2>5, <2>6
<1> QED BY <1>3, <1>4

\* The same as a function.
Lengthening == [p \in Seq(FitPassage) \X Places |-> CutLonger(p[1], p[2])]

\* A text is cut into texts that fit, and they are the text.
LEMMA CutWhole ==
  ASSUME units \in Seq(Unit), NEW s \in Passage
  PROVE  Cutting!Cut(s) \in Seq(FitPassage) /\ Cutting!FlattenSeq(Cutting!Cut(s)) = s
<1> DEFINE n == Len(s)
           X == Seq(FitPassage)
           Is(h) == h = [i \in 0..n |-> IF i = 0 THEN <<>> ELSE CutLonger(h[i - 1], s[i])]
           h0 == CHOOSE h : Is(h)
<1>0. n \in Nat /\ s \in Seq(Places) /\ \A i \in 1..n : s[i] \in Places
  BY ElementOfSeq DEF Passage
<1>1. Lengthening \in [X \X Places -> X]
  <2> SUFFICES ASSUME NEW p \in X \X Places PROVE CutLonger(p[1], p[2]) \in X
    BY DEF Lengthening
  <2>1. p[1] \in X /\ p[2] \in Places OBVIOUS
  <2> QED BY <2>1, CutGrows
<1>2. <<>> \in X OBVIOUS
<1>3. PICK f \in [0..n -> X] : f[0] = <<>> /\ Recurs(n, f, Lengthening, s)
  <2> HIDE DEF X
  <2>1. PICK f : Goes(X, <<>>, f, Lengthening, s) BY ONLY <1>0, <1>1, <1>2, Recursion
  <2> QED BY <2>1 DEF Goes
<1> HIDE DEF n
<1>4. ASSUME NEW i \in 1..n PROVE f[i] = CutLonger(f[i - 1], s[i])
  <2>1. i - 1 \in 0..n BY <1>0
  <2>2. f[i - 1] \in X /\ s[i] \in Places BY <1>0, <2>1
  <2>3. <<f[i - 1], s[i]>> \in X \X Places BY <2>2
  <2>4. Lengthening[<<f[i - 1], s[i]>>] = CutLonger(f[i - 1], s[i])
    BY <2>3 DEF Lengthening
  <2> QED BY <1>3, <2>4 DEF Recurs
<1>5. Is([i \in 0..n |-> f[i]])
  <2> DEFINE h == [i \in 0..n |-> f[i]]
  <2>1. ASSUME NEW i \in 0..n
        PROVE  h[i] = IF i = 0 THEN <<>> ELSE CutLonger(h[i - 1], s[i])
    <3>1. CASE i = 0 BY <1>3, <3>1
    <3>2. CASE i # 0
      <4>1. i - 1 \in 0..n /\ i \in 1..n BY <1>0, <3>2
      <4> QED BY <1>4, <3>2, <4>1
    <3> QED BY <3>1, <3>2
  <2> QED BY <2>1
<1>6. Is(h0) BY <1>5
<1>7. Cutting!Cut(s) = h0[n] BY DEF Cutting!Cut, CutLonger, n
<1> HIDE DEF h0
<1>8. h0[0] = <<>> /\ \A i \in 1..n : h0[i] = CutLonger(h0[i - 1], s[i])
  <2>1. h0[0] = <<>> BY <1>0, <1>6
  <2>2. ASSUME NEW i \in 1..n PROVE h0[i] = CutLonger(h0[i - 1], s[i])
    <3>1. i \in 0..n /\ i # 0 BY <1>0
    <3> QED BY <1>6, <3>1
  <2> QED BY <2>1, <2>2
<1> HIDE DEF Is, X
<1> DEFINE S == {i \in Nat : i \in 0..n =>
                    /\ h0[i] \in Seq(FitPassage)
                    /\ Cutting!FlattenSeq(h0[i]) = SubSeq(s, 1, i)}
<1>9. 0 \in S
  <2>1. SubSeq(s, 1, 0) = <<>> BY SubSeqEmpty
  <2>2. h0[0] \in Seq(FitPassage) BY <1>8
  <2>3. Cutting!FlattenSeq(h0[0]) = SubSeq(s, 1, 0) BY <1>8, <2>1, FlatNone
  <2> QED BY <2>2, <2>3
<1>10. ASSUME NEW i \in Nat, i \in S PROVE i + 1 \in S
  <2>1. SUFFICES ASSUME i + 1 \in 0..n
                 PROVE  /\ h0[i + 1] \in Seq(FitPassage)
                        /\ Cutting!FlattenSeq(h0[i + 1]) = SubSeq(s, 1, i + 1)
    OBVIOUS
  <2>2. i + 1 \in 1..n /\ (i + 1) - 1 = i /\ i \in 0..n BY <1>0, <2>1
  <2>3. h0[i + 1] = CutLonger(h0[i], s[i + 1]) BY <1>8, <2>2
  <2>4. h0[i] \in Seq(FitPassage) /\ Cutting!FlattenSeq(h0[i]) = SubSeq(s, 1, i)
    BY <1>10, <2>2
  <2>5. s[i + 1] \in Places BY <1>0, <2>2
  <2>6. /\ h0[i + 1] \in Seq(FitPassage)
        /\ Cutting!FlattenSeq(h0[i + 1]) = Append(SubSeq(s, 1, i), s[i + 1])
    BY <2>3, <2>4, <2>5, CutGrows
  <2>7. SubSeq(s, 1, i + 1) = Append(SubSeq(s, 1, i), s[i + 1])
    BY <1>0, <2>2 DEF n
  <2> QED BY <2>6, <2>7
<1>11. Nat \subseteq S
  <2> HIDE DEF S
  <2> QED BY <1>9, <1>10, NatInduct
<1>12. n \in 0..n /\ n \in Nat BY <1>0
<1>13. h0[n] \in Seq(FitPassage) /\ Cutting!FlattenSeq(h0[n]) = SubSeq(s, 1, n)
  BY <1>11, <1>12
<1>14. SubSeq(s, 1, n) = s BY <1>0, SubSeqFull DEF n
<1> QED BY <1>7, <1>13, <1>14

\* The text of some pieces,
LEMMA TextIs ==
  ASSUME NEW S, \A x \in S : x.text \in Passage, NEW s \in Seq(S)
  PROVE  /\ [i \in DOMAIN s |-> s[i].text] \in Seq(Seq(Places))
         /\ Cutting!Text(s) \in Passage
<1> DEFINE m == [i \in DOMAIN s |-> s[i].text]
<1>1. DOMAIN s = 1..Len(s) /\ Len(s) \in Nat /\ \A i \in 1..Len(s) : s[i] \in S
  BY ElementOfSeq
<1>2. \A i \in 1..Len(s) : s[i].text \in Seq(Places) BY <1>1 DEF Passage
<1>3. m \in [1..Len(s) -> Seq(Places)] BY <1>1, <1>2
<1>4. m \in Seq(Seq(Places)) BY <1>1, <1>3, SeqDef
<1>5. Cutting!FlattenSeq(m) \in Seq(Places)
  <2> HIDE DEF m
  <2> QED BY <1>4, FlatTyped
<1> QED BY <1>4, <1>5 DEF Cutting!Text, Passage

\* of one piece more,
LEMMA TextAppend ==
  ASSUME NEW S, \A x \in S : x.text \in Passage, NEW s \in Seq(S), NEW x \in S
  PROVE  Cutting!Text(Append(s, x)) = Cutting!Text(s) \o x.text
<1> DEFINE t == Append(s, x)
           m == [i \in DOMAIN s |-> s[i].text]
           k == [i \in DOMAIN t |-> t[i].text]
<1>1. /\ t \in Seq(S) /\ Len(t) = Len(s) + 1 /\ t[Len(s) + 1] = x
      /\ \A i \in 1..Len(s) : t[i] = s[i]
      /\ DOMAIN t = 1..(Len(s) + 1) /\ DOMAIN s = 1..Len(s) /\ Len(s) \in Nat
  BY AppendProperties
<1>2. m \in Seq(Seq(Places)) BY TextIs
<1>3. x.text \in Seq(Places) BY DEF Passage
<1>4. k = Append(m, x.text)
  <2> DEFINE a == Append(m, x.text)
  <2>1. Len(m) = Len(s) BY <1>1
  <2>2. /\ a \in Seq(Seq(Places)) /\ Len(a) = Len(s) + 1 /\ a[Len(s) + 1] = x.text
        /\ \A i \in 1..Len(s) : a[i] = m[i]
    <3> HIDE DEF m
    <3> QED BY <1>2, <1>3, <2>1, AppendProperties
  <2>3. k \in Seq(Seq(Places)) BY <1>1, TextIs
  <2>4. Len(k) = Len(s) + 1 BY <1>1
  <2>5. ASSUME NEW i \in 1..(Len(s) + 1) PROVE k[i] = a[i]
    <3> HIDE DEF t, a
    <3>1. CASE i = Len(s) + 1 BY <1>1, <2>2, <3>1
    <3>2. CASE i # Len(s) + 1
      <4>1. i \in 1..Len(s) BY <1>1, <3>2
      <4>2. k[i] = s[i].text /\ m[i] = s[i].text BY <1>1, <4>1
      <4> QED BY <2>2, <4>1, <4>2
    <3> QED BY <3>1, <3>2
  <2> HIDE DEF a, k
  <2>6. Len(k) = Len(a) /\ \A i \in 1..Len(k) : k[i] = a[i] BY <2>2, <2>4, <2>5
  <2>7. a \in Seq(Seq(Places)) /\ k \in Seq(Seq(Places)) BY <2>2, <2>3
  <2>8. k = a BY ONLY <2>6, <2>7, SeqEqual
  <2> QED BY <2>8 DEF a
<1> HIDE DEF m, k
<1>5. Cutting!FlattenSeq(k) = Cutting!FlattenSeq(m) \o x.text
  BY <1>2, <1>3, <1>4, FlatAppend
<1>6. Cutting!Text(t) = Cutting!FlattenSeq(k) /\ Cutting!Text(s) = Cutting!FlattenSeq(m)
  BY DEF Cutting!Text, m, k
<1> QED BY <1>5, <1>6

\* of none,
LEMMA TextNone == Cutting!Text(<<>>) = <<>>
<1>1. [i \in DOMAIN <<>> |-> <<>>[i].text] = <<>> OBVIOUS
<1> QED BY <1>1, FlatNone DEF Cutting!Text

\* of two sequences of them after another,
LEMMA TextConcat ==
  ASSUME NEW S, \A x \in S : x.text \in Passage, NEW s \in Seq(S), NEW t \in Seq(S)
  PROVE  Cutting!Text(s \o t) = Cutting!Text(s) \o Cutting!Text(t)
<1> DEFINE V == {v \in Seq(S) : Cutting!Text(s \o v) = Cutting!Text(s) \o Cutting!Text(v)}
<1>1. <<>> \in V
  <2>1. s \o <<>> = s BY ConcatEmptySeq
  <2>2. Cutting!Text(s) \in Seq(Places) BY TextIs DEF Passage
  <2>3. Cutting!Text(s) \o <<>> = Cutting!Text(s) BY <2>2, ConcatEmptySeq
  <2>4. Cutting!Text(s \o <<>>) = Cutting!Text(s) \o Cutting!Text(<<>>)
    BY <2>1, <2>3, TextNone
  <2>5. <<>> \in Seq(S) OBVIOUS
  <2> QED BY <2>4, <2>5
<1>2. ASSUME NEW v \in Seq(S), NEW x \in S, v \in V PROVE Append(v, x) \in V
  <2>1. s \o Append(v, x) = Append(s \o v, x) OBVIOUS
  <2>2. s \o v \in Seq(S) OBVIOUS
  <2>3. Cutting!Text(Append(s \o v, x)) = Cutting!Text(s \o v) \o x.text
    BY <2>2, TextAppend
  <2>4. Cutting!Text(Append(v, x)) = Cutting!Text(v) \o x.text BY TextAppend
  <2>5. /\ Cutting!Text(s) \in Seq(Places) /\ Cutting!Text(v) \in Seq(Places)
        /\ x.text \in Seq(Places)
    BY TextIs DEF Passage
  <2>6. (Cutting!Text(s) \o Cutting!Text(v)) \o x.text =
           Cutting!Text(s) \o (Cutting!Text(v) \o x.text)
    <3>1. PICK a, b, c, P :
             a = Cutting!Text(s) /\ b = Cutting!Text(v) /\ c = x.text /\ P = Places
      OBVIOUS
    <3>2. a \in Seq(P) /\ b \in Seq(P) /\ c \in Seq(P) BY <2>5, <3>1
    <3>3. Grouped(a, b, c) BY ONLY <3>2, ConcatThree
    <3> QED BY <3>1, <3>3 DEF Grouped
  <2>7. Append(v, x) \in Seq(S) OBVIOUS
  <2>8. Cutting!Text(s \o v) = Cutting!Text(s) \o Cutting!Text(v) BY <1>2
  <2> QED BY <2>1, <2>3, <2>4, <2>6, <2>7, <2>8
<1>3. Seq(S) \subseteq V
  <2> HIDE DEF V
  <2> QED BY <1>1, <1>2, SeqInduct
<1> QED BY <1>3

\* and of many.
LEMMA TextFlat ==
  ASSUME NEW S, \A x \in S : x.text \in Passage, NEW s \in Seq(Seq(S))
  PROVE  Cutting!Text(Cutting!FlattenSeq(s)) =
            Cutting!FlattenSeq([i \in DOMAIN s |-> Cutting!Text(s[i])])
<1> DEFINE T(v) == [i \in DOMAIN v |-> Cutting!Text(v[i])]
           V == {v \in Seq(Seq(S)) :
                    Cutting!Text(Cutting!FlattenSeq(v)) = Cutting!FlattenSeq(T(v))}
<1>1. <<>> \in V
  <2>1. T(<<>>) = <<>> OBVIOUS
  <2>2. Cutting!Text(Cutting!FlattenSeq(<<>>)) = Cutting!FlattenSeq(T(<<>>))
    BY <2>1, FlatNone, TextNone
  <2>3. <<>> \in Seq(Seq(S)) OBVIOUS
  <2> QED BY <2>2, <2>3
<1>2. ASSUME NEW v \in Seq(Seq(S)), NEW x \in Seq(S), v \in V PROVE Append(v, x) \in V
  <2> DEFINE u == Append(v, x)
  <2>1. /\ u \in Seq(Seq(S)) /\ Len(u) = Len(v) + 1 /\ u[Len(v) + 1] = x
        /\ \A i \in 1..Len(v) : u[i] = v[i]
        /\ DOMAIN u = 1..(Len(v) + 1) /\ DOMAIN v = 1..Len(v) /\ Len(v) \in Nat
    BY AppendProperties
  <2>2. Cutting!FlattenSeq(u) = Cutting!FlattenSeq(v) \o x BY FlatAppend
  <2>3. Cutting!FlattenSeq(v) \in Seq(S) BY FlatTyped
  <2>4. Cutting!Text(Cutting!FlattenSeq(u)) =
           Cutting!Text(Cutting!FlattenSeq(v)) \o Cutting!Text(x)
    BY <2>2, <2>3, TextConcat
  <2> HIDE DEF u
  <2>5. ASSUME NEW w \in Seq(Seq(S)) PROVE T(w) \in Seq(Seq(Places)) /\ Len(T(w)) = Len(w)
    <3>1. DOMAIN w = 1..Len(w) /\ Len(w) \in Nat /\ \A i \in 1..Len(w) : w[i] \in Seq(S)
      BY ElementOfSeq
    <3>2. \A i \in 1..Len(w) : Cutting!Text(w[i]) \in Seq(Places)
      BY <3>1, TextIs DEF Passage
    <3>3. T(w) \in [1..Len(w) -> Seq(Places)] BY <3>1, <3>2
    <3> QED BY <3>1, <3>3, SeqDef
  <2>6. Cutting!Text(x) \in Seq(Places) BY TextIs DEF Passage
  <2>7. T(u) = Append(T(v), Cutting!Text(x))
    <3> DEFINE a == Append(T(v), Cutting!Text(x))
    <3>1. T(v) \in Seq(Seq(Places)) /\ Len(T(v)) = Len(v) BY <2>5
    <3>2. /\ a \in Seq(Seq(Places)) /\ Len(a) = Len(v) + 1
          /\ a[Len(v) + 1] = Cutting!Text(x)
          /\ \A i \in 1..Len(v) : a[i] = T(v)[i]
      <4> HIDE DEF T
      <4> QED BY <3>1, <2>6, AppendProperties
    <3>3. T(u) \in Seq(Seq(Places)) /\ Len(T(u)) = Len(v) + 1 BY <2>1, <2>5
    <3>4. ASSUME NEW i \in 1..(Len(v) + 1) PROVE T(u)[i] = a[i]
      <4> HIDE DEF a
      <4>1. CASE i = Len(v) + 1 BY <2>1, <3>2, <4>1
      <4>2. CASE i # Len(v) + 1
        <5>1. i \in 1..Len(v) BY <2>1, <4>2
        <5>2. T(u)[i] = Cutting!Text(v[i]) /\ T(v)[i] = Cutting!Text(v[i]) BY <2>1, <5>1
        <5> QED BY <3>2, <5>1, <5>2
      <4> QED BY <4>1, <4>2
    <3> HIDE DEF a, T
    <3>5. Len(T(u)) = Len(a) /\ \A i \in 1..Len(T(u)) : T(u)[i] = a[i]
      BY <3>2, <3>3, <3>4
    <3>6. a \in Seq(Seq(Places)) /\ T(u) \in Seq(Seq(Places)) BY <3>2, <3>3
    <3>7. T(u) = a BY ONLY <3>5, <3>6, SeqEqual
    <3> QED BY <3>7 DEF a
  <2>8. T(v) \in Seq(Seq(Places)) BY <2>5
  <2>9. Cutting!FlattenSeq(T(u)) = Cutting!FlattenSeq(T(v)) \o Cutting!Text(x)
    <3> HIDE DEF T
    <3> QED BY <2>6, <2>7, <2>8, FlatAppend
  <2>10. Cutting!Text(Cutting!FlattenSeq(v)) = Cutting!FlattenSeq(T(v)) BY <1>2
  <2>11. Cutting!Text(Cutting!FlattenSeq(u)) = Cutting!FlattenSeq(T(u))
    BY <2>4, <2>9, <2>10
  <2> HIDE DEF T
  <2> QED BY <2>1, <2>11 DEF u
<1>3. Seq(Seq(S)) \subseteq V
  <2> HIDE DEF V
  <2> QED BY <1>1, <1>2, SeqInduct
<1> QED BY <1>3

\* What a block is cut into, with the section it is cited by.
Parts(b) == [i \in DOMAIN Cutting!SplitLong(b) |->
                [text |-> Cutting!SplitLong(b)[i], path |-> b.path]]

\* A piece has a text.
LEMMA FitText == ASSUME NEW B, NEW q \in FitPieces(B) PROVE q.text \in Passage
BY DEF FitPieces

\* The pieces of a block are its text, and one if it is whole.
LEMMA PartsFit ==
  ASSUME units \in Seq(Unit), MaxTokens \in Nat,
         NEW B, NEW b \in DOMAIN B, B[b].text \in Passage
  PROVE  /\ Parts(B[b]) \in Seq(FitPieces(B))
         /\ Cutting!Text(Parts(B[b])) = B[b].text
         /\ Cutting!Whole(B[b]) => Len(Parts(B[b])) = 1 /\ Parts(B[b])[1].text = B[b].text
<1> DEFINE t == B[b].text
           l == Cutting!SplitLong(B[b])
           q == Parts(B[b])
           P == [text : Passage, path : {B[d].path : d \in DOMAIN B}]
<1>1. B[b].path \in {B[d].path : d \in DOMAIN B} OBVIOUS
<1>2. /\ l \in Seq(Passage) /\ Cutting!FlattenSeq(l) = t
      /\ \A i \in 1..Len(l) : [text |-> l[i], path |-> B[b].path] \in FitPieces(B)
      /\ Cutting!Whole(B[b]) => Len(l) = 1 /\ l[1] = t
  <2>1. CASE Cutting!Splittable(B[b]) /\ Cutting!TokensOf(t) > MaxTokens
    <3>1. l = Cutting!Cut(t) BY <2>1 DEF Cutting!SplitLong
    <3>2. l \in Seq(FitPassage) /\ Cutting!FlattenSeq(l) = t BY <3>1, CutWhole
    <3>3. FitPassage \subseteq Passage BY DEF FitPassage
    <3>4. l \in Seq(Passage) BY <3>2, <3>3, SeqMonotonic
    <3>5. ASSUME NEW i \in 1..Len(l)
          PROVE  [text |-> l[i], path |-> B[b].path] \in FitPieces(B)
      <4> DEFINE r == [text |-> l[i], path |-> B[b].path]
      <4>1. l[i] \in FitPassage BY <3>2, ElementOfSeq
      <4>2. r \in P /\ r.text = l[i] BY <1>1, <3>3, <4>1
      <4>3. Cutting!TokensOf(r.text) <= MaxTokens \/ Len(r.text) = 1
        BY <4>1, <4>2 DEF FitPassage
      <4> HIDE DEF r
      <4> QED BY <4>2, <4>3 DEF FitPieces, r
    <3>6. ~Cutting!Whole(B[b]) BY <2>1 DEF Cutting!Whole, Cutting!Splittable
    <3> QED BY <3>2, <3>4, <3>5, <3>6
  <2>2. CASE ~(Cutting!Splittable(B[b]) /\ Cutting!TokensOf(t) > MaxTokens)
    <3>1. l = <<t>> BY <2>2 DEF Cutting!SplitLong
    <3>2. t \in Seq(Places) BY DEF Passage
    <3>3. Cutting!FlattenSeq(<<t>>) = t
      <4>1. <<t>> = Append(<<>>, t) /\ <<>> \in Seq(Seq(Places)) OBVIOUS
      <4>2. Cutting!FlattenSeq(<<t>>) = Cutting!FlattenSeq(<<>>) \o t
        BY <3>2, <4>1, FlatAppend
      <4> QED BY <3>2, <4>2, FlatNone, ConcatEmptySeq
    <3>4. <<t>> \in Seq(Passage) /\ Len(<<t>>) = 1 /\ <<t>>[1] = t OBVIOUS
    <3> DEFINE r == [text |-> t, path |-> B[b].path]
    <3>5. r \in P /\ r.text = t BY <1>1
    <3>6. Cutting!TokensOf(t) <= MaxTokens \/ Cutting!Whole(B[b])
      <4>1. Cutting!TokensOf(t) \in Nat BY SumTyped
      <4>2. Cutting!Splittable(B[b]) \/ Cutting!Whole(B[b])
        BY DEF Cutting!Splittable, Cutting!Whole
      <4> QED BY <2>2, <4>1, <4>2
    <3>7. \/ Cutting!TokensOf(r.text) <= MaxTokens
          \/ \E d \in DOMAIN B : B[d].text = r.text /\ Cutting!Whole(B[d])
      BY <3>5, <3>6
    <3>8. r \in FitPieces(B)
      <4> HIDE DEF r
      <4> QED BY <3>5, <3>7 DEF FitPieces
    <3>9. ASSUME NEW i \in 1..Len(l)
          PROVE  [text |-> l[i], path |-> B[b].path] \in FitPieces(B)
      <4>1. i = 1 /\ l[i] = t BY <3>1
      <4> QED BY <3>8, <4>1
    <3> QED BY <3>1, <3>3, <3>4, <3>9
  <2> QED BY <2>1, <2>2
<1> HIDE DEF l
<1>3. DOMAIN l = 1..Len(l) /\ Len(l) \in Nat BY <1>2
<1>4. q = [i \in 1..Len(l) |-> [text |-> l[i], path |-> B[b].path]] BY <1>3 DEF Parts, l
<1>5. q \in [1..Len(l) -> FitPieces(B)] BY <1>2, <1>4
<1>6. q \in Seq(FitPieces(B)) /\ Len(q) = Len(l) /\ DOMAIN q = 1..Len(l)
  BY <1>3, <1>5, SeqDef
<1>7. \A i \in 1..Len(l) : q[i].text = l[i] BY <1>4
<1>8. [i \in DOMAIN q |-> q[i].text] = l
  <2>1. [i \in DOMAIN q |-> q[i].text] = [i \in 1..Len(l) |-> l[i]] BY <1>6, <1>7
  <2>2. [i \in 1..Len(l) |-> l[i]] = l BY <1>2, <1>3
  <2> QED BY <2>1, <2>2
<1>9. Cutting!Text(q) = t BY <1>2, <1>8 DEF Cutting!Text
<1>10. Cutting!Whole(B[b]) => Len(q) = 1 /\ q[1].text = t BY <1>2, <1>6, <1>7
<1> QED BY <1>6, <1>9, <1>10

\* The pieces of the blocks are the text of the blocks.
LEMMA Splitting ==
  ASSUME units \in Seq(Unit), MaxTokens \in Nat, NEW B, B \in Seq(Range(B)),
         \A b \in Range(B) : b.text \in Passage,
         NEW P, P = Cutting!FlattenSeq([b \in DOMAIN B |-> Parts(B[b])])
  PROVE  P \in Seq(FitPieces(B)) /\ Cutting!Text(P) = Cutting!Text(B) /\ WholeIn(B, P)
<1> DEFINE F == FitPieces(B)
           s == [b \in DOMAIN B |-> Parts(B[b])]
<1>1. DOMAIN B = 1..Len(B) /\ Len(B) \in Nat OBVIOUS
<1>2. \A b \in DOMAIN B : B[b].text \in Passage BY DEF Range
<1>3. \A b \in 1..Len(B) : /\ Parts(B[b]) \in Seq(F)
                           /\ Cutting!Text(Parts(B[b])) = B[b].text
                           /\ Cutting!Whole(B[b]) => /\ Len(Parts(B[b])) = 1
                                                     /\ Parts(B[b])[1].text = B[b].text
  BY <1>1, <1>2, PartsFit
<1>4. \A q \in F : q.text \in Passage BY FitText
<1> HIDE DEF F
<1>5. s \in [1..Len(B) -> Seq(F)] BY <1>1, <1>3
<1>6. s \in Seq(Seq(F)) /\ Len(s) = Len(B) /\ DOMAIN s = 1..Len(B) BY <1>1, <1>5, SeqDef
<1>7. \A b \in 1..Len(B) : s[b] = Parts(B[b]) BY <1>1
<1>8. P = Cutting!FlattenSeq(s) OBVIOUS
<1> HIDE DEF s
<1>9. P \in Seq(F) BY <1>6, <1>8, FlatTyped
<1>10. Cutting!Text(P) = Cutting!Text(B)
  <2>1. Cutting!Text(P) = Cutting!FlattenSeq([b \in DOMAIN s |-> Cutting!Text(s[b])])
    BY <1>4, <1>6, <1>8, TextFlat
  <2>2. [b \in DOMAIN s |-> Cutting!Text(s[b])] = [b \in DOMAIN B |-> B[b].text]
    BY <1>1, <1>3, <1>6, <1>7
  <2> QED BY <2>1, <2>2 DEF Cutting!Text
<1>11. WholeIn(B, P)
  <2> SUFFICES ASSUME NEW b \in DOMAIN B, Cutting!Whole(B[b])
               PROVE  \E p \in DOMAIN P : P[p].text = B[b].text
    BY DEF WholeIn
  <2>1. b \in 1..Len(s) /\ Len(s[b]) = 1 /\ s[b][1].text = B[b].text
    BY <1>1, <1>3, <1>6, <1>7
  <2>2. 1 \in 1..Len(s[b]) BY <2>1
  <2>3. PICK p \in DOMAIN Cutting!FlattenSeq(s) : Cutting!FlattenSeq(s)[p] = s[b][1]
    <3>1. s \in Seq(Seq(F)) /\ b \in 1..Len(s) BY <1>6, <2>1
    <3> QED BY ONLY <3>1, <2>2, FlatHas, ZenonT(30)
  <2> QED BY <1>8, <2>1, <2>3
<1> QED BY <1>9, <1>10, <1>11 DEF F

\* A sequence with one more element, whatever it holds.
LEMMA RangeAppend ==
  ASSUME NEW s, s \in Seq(Range(s)), NEW x, NEW t, t = Append(s, x)
  PROVE  /\ t \in Seq(Range(t)) /\ Range(t) = Range(s) \cup {x}
         /\ Len(t) = Len(s) + 1 /\ t[Len(s) + 1] = x /\ \A i \in 1..Len(s) : t[i] = s[i]
<1> DEFINE S == Range(s) \cup {x}
<1>1. s \in Seq(S) BY SeqMonotonic
<1>2. /\ t \in Seq(S) /\ Len(t) = Len(s) + 1 /\ t[Len(s) + 1] = x
      /\ \A i \in 1..Len(s) : t[i] = s[i]
  BY <1>1, AppendProperties
<1>3. /\ DOMAIN t = 1..(Len(s) + 1) /\ DOMAIN s = 1..Len(s) /\ Len(s) \in Nat
  BY <1>2
<1>4. Range(t) = S
  <2>1. \A y \in Range(t) : y \in S
    <3> SUFFICES ASSUME NEW i \in DOMAIN t PROVE t[i] \in S BY DEF Range
    <3> QED BY <1>2, ElementOfSeq
  <2>2. x \in Range(t)
    <3>1. Len(s) + 1 \in DOMAIN t BY <1>3
    <3> QED BY <1>2, <3>1 DEF Range
  <2>3. \A y \in Range(s) : y \in Range(t)
    <3> SUFFICES ASSUME NEW i \in DOMAIN s PROVE s[i] \in Range(t) BY DEF Range
    <3>1. i \in DOMAIN t /\ t[i] = s[i] BY <1>2, <1>3
    <3> QED BY <3>1 DEF Range
  <2> QED BY <2>1, <2>2, <2>3
<1> QED BY <1>2, <1>4

\* And its text.
LEMMA TextAppendAny ==
  ASSUME NEW s, s \in Seq(Range(s)), \A b \in Range(s) : b.text \in Passage,
         NEW x, x.text \in Passage
  PROVE  Cutting!Text(Append(s, x)) = Cutting!Text(s) \o x.text
<1> DEFINE S == Range(s) \cup {x}
<1>1. s \in Seq(S) BY SeqMonotonic
<1>2. \A b \in S : b.text \in Passage OBVIOUS
<1> HIDE DEF S
<1>3. x \in S BY DEF S
<1> QED BY <1>1, <1>2, <1>3, TextAppend

\* flush loses nothing.
LEMMA Flushing ==
  ASSUME Read
  PROVE  /\ Cutting!Flushed \in Seq(Range(Cutting!Flushed))
         /\ \A b \in Range(Cutting!Flushed) : b.text \in Passage
         /\ Cutting!Text(Cutting!Flushed) = Cutting!Text(blocks) \o buffer
<1>1. Cutting!Text(blocks) \in Seq(Places)
  <2>1. blocks \in Seq(Range(blocks)) /\ \A b \in Range(blocks) : b.text \in Passage
    BY DEF Read
  <2> QED BY <2>1, TextIs DEF Passage
<1>2. CASE buffer = <<>>
  <2>1. Cutting!Flushed = blocks BY <1>2 DEF Cutting!Flushed
  <2>2. Cutting!Text(blocks) \o buffer = Cutting!Text(blocks)
    BY <1>1, <1>2, ConcatEmptySeq
  <2> QED BY <2>1, <2>2 DEF Read
<1>3. CASE buffer # <<>>
  <2> DEFINE x == [text |-> buffer, kind |-> kind, path |-> path]
  <2>1. Cutting!Flushed = Append(blocks, x) BY <1>3 DEF Cutting!Flushed
  <2>2. x.text = buffer /\ x.text \in Passage BY DEF Read
  <2> HIDE DEF x
  <2>3. /\ Cutting!Flushed \in Seq(Range(Cutting!Flushed))
        /\ Range(Cutting!Flushed) = Range(blocks) \cup {x}
    BY <2>1, RangeAppend DEF Read
  <2>4. Cutting!Text(Cutting!Flushed) = Cutting!Text(blocks) \o x.text
    BY <2>1, <2>2, TextAppendAny DEF Read
  <2> QED BY <2>2, <2>3, <2>4 DEF Read
<1> QED BY <1>2, <1>3

\* Estimates do not change once units are read,
LEMMA TokensStand == units' = units => \A t : (Cutting!TokensOf(t))' = Cutting!TokensOf(t)
BY DEF Cutting!TokensOf

\* nor does what fits.
LEMMA PiecesStand ==
  units' = units => /\ (FitPieces(blocks))' = FitPieces(blocks')
                    /\ \A B : (FitPieces(B))' = FitPieces(B)
BY DEF FitPieces, Passage, Places, Cutting!TokensOf

\* The second half of the invariant, in the next state.
LEMMA PackingNext ==
  ASSUME units' = units,
         current' \in Seq(FitPieces(blocks')), pieces' \in Seq(FitPieces(blocks')),
         FitChunks(blocks', chunks'),
         size' = Cutting!TokensOf(Cutting!Text(current')), size' <= MaxTokens,
         Cutting!Text(Carried') = WholeText, WholeIn(blocks', Carried')
  PROVE  Packing'
<1>1. (FitPieces(blocks))' = FitPieces(blocks') BY PiecesStand
<1>2. (FitChunks(blocks, chunks))'
  <2>1. \A c \in Range(chunks') :
           (Cutting!TokensOf(Cutting!Text(c.body)))' =
              Cutting!TokensOf(Cutting!Text(c.body))
    BY DEF Cutting!TokensOf
  <2> QED BY <1>1, <2>1 DEF FitChunks
<1>3. (Cutting!TokensOf(Cutting!Text(current)))' = Cutting!TokensOf(Cutting!Text(current'))
  BY DEF Cutting!TokensOf
<1>4. (Cutting!Text(Carried))' = Cutting!Text(Carried') /\ WholeText' = WholeText
  BY DEF WholeText
<1>5. (WholeIn(blocks, Carried))' = WholeIn(blocks', Carried') OBVIOUS
<1> QED BY <1>1, <1>2, <1>3, <1>4, <1>5 DEF Packing

\* Nothing has been read at first.
LEMMA ChunkInitially == Cutting!Init => ChunkInv
<1> SUFFICES ASSUME Cutting!Init PROVE ChunkInv OBVIOUS
<1>1. units = <<>> /\ buffer = <<>> /\ blocks = <<>> BY DEF Cutting!Init
<1>2. units \in Seq(Unit) /\ buffer \in Passage /\ blocks \in Seq(Range(blocks))
  BY <1>1 DEF Passage
<1>3. \A b \in Range(blocks) : b.text \in Passage BY <1>1 DEF Range
<1>4. WholeText = <<>>
  <2>1. Len(units) = 0 BY <1>1
  <2> QED BY <2>1 DEF WholeText
<1>5. Cutting!Text(blocks) \o buffer = WholeText BY <1>1, <1>4, TextNone
<1> QED BY <1>2, <1>3, <1>5 DEF Cutting!Init, ChunkInv, Read, Parsing

\* A line that has no text may end a block.
LEMMA ReadsOn ==
  ASSUME ChunkInv, phase = "parse",
         units' = units, UNCHANGED <<phase, Cutting!packing>>,
         blocks' = Cutting!Flushed /\ buffer' = <<>>
  PROVE  ChunkInv'
<1>1. Read /\ Parsing BY DEF ChunkInv
<1>2. Passage' = Passage /\ WholeText' = WholeText /\ Places' = Places
  BY DEF Passage, Places, WholeText
<1>3. /\ Cutting!Text(Cutting!Flushed) = WholeText
      /\ Cutting!Text(Cutting!Flushed) \in Seq(Places)
  <2>1. Cutting!Text(Cutting!Flushed) = WholeText BY <1>1, Flushing DEF Parsing
  <2> QED BY <1>1, <2>1, Flushing, TextIs DEF Passage
<1>4. Cutting!Text(blocks') \o buffer' = WholeText' BY <1>2, <1>3, ConcatEmptySeq
<1>5. (Cutting!Text(blocks))' = Cutting!Text(blocks') OBVIOUS
<1>6. Read'
  <2>1. buffer' \in Passage' BY DEF Passage
  <2> QED BY <1>1, <1>2, <2>1, Flushing DEF Read
<1>7. Parsing' BY <1>1, <1>4, <1>5 DEF Parsing, Cutting!packing
<1> QED BY <1>6, <1>7 DEF ChunkInv

\* A heading does,
LEMMA ChunkHeads == ChunkInv /\ Cutting!ReadHeading => ChunkInv'
BY ReadsOn DEF Cutting!ReadHeading

\* a blank line may.
LEMMA ChunkBlanks == ChunkInv /\ Cutting!ReadBlank => ChunkInv'
<1> SUFFICES ASSUME ChunkInv, Cutting!ReadBlank PROVE ChunkInv' OBVIOUS
<1>1. CASE kind = "table"
  <2>1. UNCHANGED <<phase, Cutting!packing, units, blocks, buffer>>
    BY <1>1 DEF Cutting!ReadBlank
  <2>2. TRUE OBVIOUS
  <2> QED
    BY <2>1 DEF Cutting!ReadBlank, ChunkInv, Read, Parsing, Passage, Places, WholeText,
       Cutting!packing, Cutting!Text, Range
<1>2. CASE kind # "table"
  BY <1>2, ReadsOn DEF Cutting!ReadBlank
<1> QED BY <1>1, <1>2

\* A line of text is read into the block or begins another.
LEMMA ChunkTexts == PanelAssumption /\ ChunkInv /\ Cutting!ReadText => ChunkInv'
<1> SUFFICES ASSUME PanelAssumption, ChunkInv, Cutting!ReadText PROVE ChunkInv' OBVIOUS
<1>1. Read /\ Parsing /\ phase = "parse" BY DEF ChunkInv, Cutting!ReadText
<1> DEFINE n == Len(units)
<1>2. PICK t \in DocLines :
         LET read == [i \in 1..Len(t.tokens) |-> n + i]
             stays == buffer = <<>> \/ Cutting!StaysWith(kind, t.kind)
         IN  /\ units' = units \o [i \in 1..Len(t.tokens) |->
                            [tokens |-> t.tokens[i], stops |-> t.kind # "table"]]
             /\ blocks' = IF stays THEN blocks ELSE Cutting!Flushed
             /\ buffer' = IF stays THEN buffer \o read ELSE read
  BY DEF Cutting!ReadText
<1> DEFINE m == Len(t.tokens)
           read == [i \in 1..m |-> n + i]
           more == [i \in 1..m |-> [tokens |-> t.tokens[i], stops |-> t.kind # "table"]]
           B == blocks'
<1>3. m \in Nat /\ n \in Nat /\ \A i \in 1..m : t.tokens[i] \in Nat
  <2>1. t.tokens \in Seq(Nat) BY DEF PanelAssumption
  <2>2. units \in Seq(Unit) BY <1>1 DEF Read
  <2> QED BY <2>1, <2>2, ElementOfSeq
<1>4. units' \in Seq(Unit) /\ Len(units') = n + m
  <2>1. more \in [1..m -> Unit] BY <1>3 DEF Unit
  <2>2. more \in Seq(Unit) /\ Len(more) = m
    <3> HIDE DEF more, m
    <3> QED BY <1>3, <2>1, FunctionSeq
  <2>3. units \in Seq(Unit) /\ units' = units \o more BY <1>1, <1>2 DEF Read
  <2> HIDE DEF more, m
  <2> QED BY <2>2, <2>3, ConcatProperties
<1>5. Places = 1..n /\ Places' = 1..(n + m) /\ Places \subseteq Places'
  BY <1>3, <1>4 DEF Places
<1>6. Passage = Seq(Places) /\ Passage' = Seq(Places') /\ Passage \subseteq Passage'
  BY <1>5, SeqMonotonic DEF Passage
<1>7. read \in Seq(Places') /\ Len(read) = m
  <2>1. read \in [1..m -> Places'] BY <1>3, <1>5
  <2> HIDE DEF read, m
  <2> QED BY <1>3, <2>1, FunctionSeq
<1>8. WholeText' = WholeText \o read
  <2>1. WholeText = [u \in 1..n |-> u] /\ WholeText' = [u \in 1..(n + m) |-> u]
    BY <1>4 DEF WholeText
  <2>2. WholeText \in Seq(Places') /\ Len(WholeText) = n
    <3>1. WholeText \in [1..n -> Places'] BY <1>3, <1>5, <2>1
    <3>2. n \in Nat /\ n + m \in Nat BY <1>3
    <3> HIDE DEF n, m
    <3> QED BY <3>1, <3>2, FunctionSeq
  <2>3. WholeText' \in Seq(Places') /\ Len(WholeText') = n + m
    <3>1. WholeText' \in [1..(n + m) -> Places'] BY <1>3, <1>5, <2>1
    <3>2. n \in Nat /\ n + m \in Nat BY <1>3
    <3> HIDE DEF n, m
    <3> QED BY <3>1, <3>2, FunctionSeq
  <2> DEFINE c == WholeText \o read
  <2>4. /\ c \in Seq(Places') /\ Len(c) = n + m
        /\ \A i \in 1..(n + m) : c[i] = IF i <= n THEN WholeText[i] ELSE read[i - n]
    <3> HIDE DEF read, n, m
    <3>1. PICK a, b, P : a = WholeText /\ b = read /\ P = Places' OBVIOUS
    <3>2. a \in Seq(P) /\ Len(a) = n /\ b \in Seq(P) /\ Len(b) = m
      BY <1>7, <2>2, <3>1
    <3>3. /\ a \o b \in Seq(P) /\ Len(a \o b) = n + m
          /\ \A i \in 1..(n + m) : (a \o b)[i] = IF i <= n THEN a[i] ELSE b[i - n]
      BY ONLY <3>2, ConcatProperties
    <3> QED BY <3>1, <3>3
  <2>5. ASSUME NEW i \in 1..(n + m) PROVE WholeText'[i] = c[i]
    <3> HIDE DEF c
    <3>1. CASE i <= n
      <4>1. i \in 1..n BY <1>3, <3>1
      <4> QED BY <2>1, <2>4, <3>1, <4>1
    <3>2. CASE ~(i <= n)
      <4>1. i - n \in 1..m /\ n + (i - n) = i BY <1>3, <3>2
      <4> QED BY <2>1, <2>4, <3>2, <4>1
    <3> QED BY <3>1, <3>2
  <2> HIDE DEF c, n, m, read
  <2>6. WholeText' = c BY <2>3, <2>4, <2>5, SeqEqual
  <2> QED BY <2>6 DEF c, n, m, read
<1> HIDE DEF read, more, m, n
<1>9. /\ Cutting!Text(blocks) \in Seq(Places') /\ buffer \in Seq(Places')
      /\ Cutting!Text(Cutting!Flushed) \in Seq(Places')
      /\ Cutting!Text(Cutting!Flushed) = WholeText
      /\ Cutting!Text(blocks) \o buffer = WholeText
  <2>1. Cutting!Text(blocks) \in Passage /\ Cutting!Text(Cutting!Flushed) \in Passage
    BY <1>1, Flushing, TextIs DEF Read
  <2>2. Cutting!Text(Cutting!Flushed) = Cutting!Text(blocks) \o buffer BY <1>1, Flushing
  <2> QED BY <1>1, <1>6, <2>1, <2>2 DEF Read, Parsing
<1>10. \/ blocks' = blocks /\ buffer' = buffer \o read
       \/ blocks' = Cutting!Flushed /\ buffer' = read
  BY <1>2 DEF read, m
<1>11. Cutting!Text(blocks') \o buffer' = WholeText' /\ buffer' \in Passage'
  <2>1. CASE blocks' = blocks /\ buffer' = buffer \o read
    <3>1. Cutting!Text(blocks) \o (buffer \o read) =
             (Cutting!Text(blocks) \o buffer) \o read
      <4>1. PICK a, b, c, P :
               a = Cutting!Text(blocks) /\ b = buffer /\ c = read /\ P = Places'
        OBVIOUS
      <4>2. a \in Seq(P) /\ b \in Seq(P) /\ c \in Seq(P) BY <1>7, <1>9, <4>1
      <4>3. Grouped(a, b, c) BY ONLY <4>2, ConcatThree
      <4> QED BY <4>1, <4>3 DEF Grouped
    <3>2. buffer \o read \in Seq(Places') BY <1>7, <1>9, ConcatProperties
    <3> QED BY <1>6, <1>8, <1>9, <2>1, <3>1, <3>2
  <2>2. CASE blocks' = Cutting!Flushed /\ buffer' = read
    BY <1>6, <1>7, <1>8, <1>9, <2>2
  <2> QED BY <1>10, <2>1, <2>2
<1>12. blocks' \in Seq(Range(blocks')) /\ \A b \in Range(blocks') : b.text \in Passage'
  <2>1. \/ blocks' = blocks
        \/ blocks' = Cutting!Flushed
    BY <1>10
  <2> QED BY <1>1, <1>6, <2>1, Flushing DEF Read
<1>13. Read' BY <1>4, <1>11, <1>12 DEF Read
<1>14. Parsing'
  <2>1. UNCHANGED Cutting!packing BY DEF Cutting!ReadText
  <2>2. (Cutting!Text(blocks))' = Cutting!Text(blocks') OBVIOUS
  <2> QED BY <1>1, <1>11, <2>1, <2>2 DEF Parsing, Cutting!packing
<1>15. phase' = "parse" BY <1>1 DEF Cutting!ReadText
<1> QED BY <1>13, <1>14, <1>15 DEF ChunkInv

\* The blocks are cut.
LEMMA ChunkParses == PanelAssumption /\ ChunkInv /\ Cutting!Parsed => ChunkInv'
<1> SUFFICES ASSUME PanelAssumption, ChunkInv, Cutting!Parsed PROVE ChunkInv' OBVIOUS
<1>1. Read /\ Parsing /\ phase = "parse" /\ phase' = "pack"
  BY DEF ChunkInv, Cutting!Parsed
<1>2. /\ blocks' = Cutting!Flushed /\ buffer' = <<>> /\ units' = units
      /\ UNCHANGED <<current, size, chunks>>
  BY DEF Cutting!Parsed
<1>3. (Cutting!Text(blocks))' = Cutting!Text(blocks') OBVIOUS
<1>4. Passage' = Passage /\ WholeText' = WholeText /\ Places' = Places
  BY <1>2 DEF Passage, Places, WholeText
<1>5. \A t : (Cutting!TokensOf(t))' = Cutting!TokensOf(t) BY <1>2, TokensStand
<1>6. pieces' =
         Cutting!FlattenSeq([b \in DOMAIN Cutting!Flushed |-> Parts(Cutting!Flushed[b])])
  <2>1. \A b : (Cutting!SplitLong(b))' = Cutting!SplitLong(b)
    BY <1>2 DEF Cutting!SplitLong, Cutting!Cut, Cutting!TokensOf
  <2> QED BY <1>2, <2>1 DEF Cutting!Parsed, Parts
<1>7. /\ (FitPieces(blocks))' = FitPieces(blocks')
      /\ (FitPieces(blocks))' = FitPieces(Cutting!Flushed)
  BY <1>2, PiecesStand
<1>8. /\ pieces' \in Seq(FitPieces(Cutting!Flushed))
      /\ Cutting!Text(pieces') = Cutting!Text(Cutting!Flushed)
      /\ WholeIn(Cutting!Flushed, pieces')
  <2>1. units \in Seq(Unit) /\ MaxTokens \in Nat BY <1>1 DEF Read, PanelAssumption
  <2> QED BY <1>1, <1>6, <2>1, Flushing, Splitting
<1>9. current' = <<>> /\ chunks' = <<>> /\ size' = 0 BY <1>1, <1>2 DEF Parsing
<1>10. Carried' = pieces'
  <2>1. Cutting!Bodies' = <<>>
    <3>1. [c \in DOMAIN chunks' |-> chunks'[c].body] = <<>> BY <1>9
    <3> QED BY <3>1, FlatNone DEF Cutting!Bodies
  <2>2. Carried' = <<>> \o (<<>> \o pieces') BY <1>1, <1>9, <2>1 DEF Carried
  <2> HIDE DEF Carried
  <2> QED BY <1>8, <2>2, ConcatEmptySeq
<1>11. Cutting!Text(Cutting!Flushed) = WholeText BY <1>1, Flushing DEF Parsing
<1>12. FitChunks(blocks', chunks') BY <1>9 DEF FitChunks, Range
<1>13. Cutting!TokensOf(Cutting!Text(current')) = 0
  BY <1>1, <1>9, TextNone, SumNone DEF Read
<1>14. Packing'
  <2>1. current' \in Seq(FitPieces(blocks')) /\ pieces' \in Seq(FitPieces(blocks'))
    BY <1>2, <1>8, <1>9
  <2>2. size' = Cutting!TokensOf(Cutting!Text(current')) /\ size' <= MaxTokens
    BY <1>9, <1>13 DEF PanelAssumption
  <2>3. Cutting!Text(Carried') = WholeText /\ WholeIn(blocks', Carried')
    BY <1>2, <1>8, <1>10, <1>11
  <2> QED BY <1>2, <1>12, <2>1, <2>2, <2>3, PackingNext
<1>15. Read'
  <2>1. buffer' \in Passage' BY <1>2 DEF Passage
  <2> QED BY <1>1, <1>2, <1>4, <2>1, Flushing DEF Read
<1> QED BY <1>1, <1>14, <1>15 DEF ChunkInv

\* The bodies of some chunks.
BodiesOf(ch) == Cutting!FlattenSeq([c \in DOMAIN ch |-> ch[c].body])

\* They are pieces.
LEMMA BodiesAre ==
  ASSUME NEW X, NEW s, s \in Seq(Range(s)), \A c \in Range(s) : c.body \in Seq(X)
  PROVE  /\ [c \in DOMAIN s |-> s[c].body] \in Seq(Seq(X))
         /\ BodiesOf(s) \in Seq(X)
<1> DEFINE m == [c \in DOMAIN s |-> s[c].body]
<1>1. DOMAIN s = 1..Len(s) /\ Len(s) \in Nat /\ \A i \in 1..Len(s) : s[i] \in Range(s)
  BY ElementOfSeq
<1>2. \A i \in 1..Len(s) : s[i].body \in Seq(X) BY <1>1
<1>3. m \in [1..Len(s) -> Seq(X)] BY <1>1, <1>2
<1>4. m \in Seq(Seq(X)) BY <1>1, <1>3, SeqDef
<1>5. Cutting!FlattenSeq(m) \in Seq(X)
  <2> HIDE DEF m
  <2> QED BY <1>4, FlatTyped
<1> QED BY <1>4, <1>5 DEF BodiesOf

\* The bodies of one chunk more.
LEMMA BodiesAppend ==
  ASSUME NEW X, NEW s, s \in Seq(Range(s)), \A c \in Range(s) : c.body \in Seq(X),
         NEW x, x.body \in Seq(X)
  PROVE  BodiesOf(Append(s, x)) = BodiesOf(s) \o x.body
<1>0. PICK t : t = Append(s, x) OBVIOUS
<1> DEFINE m == [i \in DOMAIN s |-> s[i].body]
           k == [i \in DOMAIN t |-> t[i].body]
<1>1. /\ t \in Seq(Range(t)) /\ Range(t) = Range(s) \cup {x}
      /\ Len(t) = Len(s) + 1 /\ t[Len(s) + 1] = x /\ \A i \in 1..Len(s) : t[i] = s[i]
  <2>1. s \in Seq(Range(s)) OBVIOUS
  <2>2. t \in Seq(Range(t)) /\ Range(t) = Range(s) \cup {x}
    BY ONLY <1>0, <2>1, RangeAppend
  <2>3. Len(t) = Len(s) + 1 /\ t[Len(s) + 1] = x BY ONLY <1>0, <2>1, RangeAppend
  <2>4. \A i \in 1..Len(s) : t[i] = s[i] BY ONLY <1>0, <2>1, RangeAppend
  <2> QED BY <2>2, <2>3, <2>4
<1>2. m \in Seq(Seq(X)) BY BodiesAre
<1>3. k \in Seq(Seq(X)) BY <1>1, BodiesAre
<1>4. DOMAIN s = 1..Len(s) /\ Len(s) \in Nat /\ DOMAIN t = 1..(Len(s) + 1) BY <1>1
<1>5. k = Append(m, x.body)
  <2> DEFINE a == Append(m, x.body)
  <2>1. Len(m) = Len(s) /\ Len(k) = Len(s) + 1 BY <1>4
  <2>2. /\ a \in Seq(Seq(X)) /\ Len(a) = Len(s) + 1 /\ a[Len(s) + 1] = x.body
        /\ \A i \in 1..Len(s) : a[i] = m[i]
    <3> HIDE DEF m
    <3> QED BY <1>2, <2>1, AppendProperties
  <2>3. ASSUME NEW i \in 1..(Len(s) + 1) PROVE k[i] = a[i]
    <3> HIDE DEF a
    <3>1. CASE i = Len(s) + 1 BY <1>1, <1>4, <2>2, <3>1
    <3>2. CASE i # Len(s) + 1
      <4>1. i \in 1..Len(s) BY <1>4, <3>2
      <4>2. k[i] = s[i].body /\ m[i] = s[i].body BY <1>1, <1>4, <4>1
      <4> QED BY <2>2, <4>1, <4>2
    <3> QED BY <3>1, <3>2
  <2> HIDE DEF a, k
  <2>4. Len(k) = Len(a) /\ \A i \in 1..Len(k) : k[i] = a[i] BY <2>1, <2>2, <2>3
  <2>5. a \in Seq(Seq(X)) /\ k \in Seq(Seq(X)) BY <1>3, <2>2
  <2>6. k = a BY ONLY <2>4, <2>5, SeqEqual
  <2> QED BY <2>6 DEF a
<1> HIDE DEF m, k
<1>6. Cutting!FlattenSeq(k) = Cutting!FlattenSeq(m) \o x.body BY <1>2, <1>5, FlatAppend
<1>7. BodiesOf(t) = Cutting!FlattenSeq(k) /\ BodiesOf(s) = Cutting!FlattenSeq(m)
  BY DEF BodiesOf, m, k
<1> QED BY <1>0, <1>6, <1>7

\* A chunk is emitted.
LEMMA ChunksAppend ==
  ASSUME NEW B, NEW ch, FitChunks(B, ch), NEW x, x.body \in Seq(FitPieces(B)),
         Cutting!TokensOf(Cutting!Text(x.body)) > MaxTokens => Len(x.body) = 1
  PROVE  /\ FitChunks(B, Append(ch, x))
         /\ BodiesOf(Append(ch, x)) = BodiesOf(ch) \o x.body
<1>1. ch \in Seq(Range(ch)) /\ \A c \in Range(ch) : c.body \in Seq(FitPieces(B))
  BY DEF FitChunks
<1>2. BodiesOf(Append(ch, x)) = BodiesOf(ch) \o x.body BY <1>1, BodiesAppend
<1>3. /\ Append(ch, x) \in Seq(Range(Append(ch, x)))
      /\ Range(Append(ch, x)) = Range(ch) \cup {x}
  <2>1. PICK t : t = Append(ch, x) OBVIOUS
  <2>2. t \in Seq(Range(t)) /\ Range(t) = Range(ch) \cup {x}
    BY ONLY <1>1, <2>1, RangeAppend
  <2> QED BY <2>1, <2>2
<1> QED BY <1>2, <1>3 DEF FitChunks

\* What Pack does with the piece it takes.
LEMMA PackMoves ==
  ASSUME PanelAssumption, Read, Packing, phase = "pack", Cutting!Pack
  PROVE  /\ current' \in Seq(FitPieces(blocks))
         /\ FitChunks(blocks, chunks')
         /\ size' = Cutting!TokensOf(Cutting!Text(current')) /\ size' <= MaxTokens
         /\ BodiesOf(chunks') \o current' =
               BodiesOf(chunks) \o Append(current, Head(pieces))
<1> DEFINE F == FitPieces(blocks)
           piece == Head(pieces)
           cost == Cutting!TokensOf(piece.text)
<1>1. /\ current \in Seq(F) /\ piece \in F /\ FitChunks(blocks, chunks)
      /\ size = Cutting!TokensOf(Cutting!Text(current)) /\ size <= MaxTokens
  <2>1. pieces \in Seq(F) /\ pieces # <<>> BY DEF Cutting!Pack, Packing
  <2> QED BY <2>1, HeadTailProperties DEF Packing
<1>2. MaxTokens \in Nat /\ units \in Seq(Unit) BY DEF PanelAssumption, Read
<1>3. \A q \in F : q.text \in Passage BY FitText
<1> HIDE DEF F
<1>4. BodiesOf(chunks) \in Seq(F)
  BY <1>1, BodiesAre DEF FitChunks, F
<1>5. Cutting!Text(current) \in Passage /\ piece.text \in Passage BY <1>1, <1>3, TextIs
<1>6. size \in Nat /\ cost \in Nat BY <1>1, <1>2, <1>5, SumTyped
<1>7. <<piece>> \in Seq(F) /\ Cutting!Text(<<piece>>) = piece.text
  <2>1. <<piece>> = Append(<<>>, piece) /\ <<>> \in Seq(F) OBVIOUS
  <2>2. Cutting!Text(<<piece>>) = <<>> \o piece.text
    BY <1>1, <1>3, <2>1, TextAppend, TextNone
  <2>3. piece.text \in Seq(Places) BY <1>5 DEF Passage
  <2> QED BY <1>1, <2>2, <2>3, ConcatEmptySeq
<1> DEFINE overflows == current # <<>> /\ size + cost > MaxTokens
           elsewhere == current # <<>> /\ ~overflows /\ piece.path # currentPath
           shared == Cutting!CommonPath(currentPath, piece.path)
           merges == elsewhere /\ size < MinTokens /\ shared # <<>>
           ends == overflows \/ (elsewhere /\ ~merges)
           label == IF overflows THEN currentPath ELSE IF merges THEN shared ELSE piece.path
           body == IF ends THEN <<piece>> ELSE Append(current, piece)
           total == IF ends THEN cost ELSE size + cost
           before == IF ends THEN Cutting!Tail15(Cutting!Text(current)) ELSE tail
           emitted == IF ends THEN Cutting!Emitted ELSE chunks
<1>8. /\ ends => current # <<>>
      /\ ~ends => current = <<>> \/ size + cost <= MaxTokens
      /\ ends => body = <<piece>> /\ total = cost /\ emitted = Cutting!Emitted
      /\ ~ends => body = Append(current, piece) /\ total = size + cost /\ emitted = chunks
      /\ total >= MaxTokens =>
            /\ chunks' = Append(emitted, [body |-> body, tail |-> before, path |-> label])
            /\ current' = <<>> /\ size' = 0
      /\ ~(total >= MaxTokens) => chunks' = emitted /\ current' = body /\ size' = total
  <2>1. ends => current # <<>> OBVIOUS
  <2>2. ~ends => current = <<>> \/ size + cost <= MaxTokens BY <1>2, <1>6
  <2>3. ends => body = <<piece>> /\ total = cost /\ emitted = Cutting!Emitted OBVIOUS
  <2>4. ~ends => body = Append(current, piece) /\ total = size + cost /\ emitted = chunks
    OBVIOUS
  <2>5. IF total >= MaxTokens
        THEN /\ chunks' = Append(emitted, [body |-> body, tail |-> before, path |-> label])
             /\ current' = <<>> /\ size' = 0
        ELSE /\ chunks' = emitted
             /\ current' = body /\ size' = total
    BY Zenon DEF Cutting!Pack
  <2> HIDE DEF ends, body, total, before, emitted, label
  <2> QED BY <2>1, <2>2, <2>3, <2>4, <2>5
<1> HIDE DEF ends, body, total, before, emitted, label
<1> HIDE DEF piece, cost
<1>9. /\ body \in Seq(F) /\ total = Cutting!TokensOf(Cutting!Text(body))
      /\ total <= MaxTokens \/ Len(body) = 1
  <2>1. CASE ends
    <3>1. body = <<piece>> /\ total = cost BY <1>8, <2>1
    <3> QED BY <1>7, <3>1 DEF cost
  <2>2. CASE ~ends
    <3>1. body = Append(current, piece) /\ total = size + cost BY <1>8, <2>2
    <3>2. Cutting!Text(body) = Cutting!Text(current) \o piece.text
      BY <1>1, <1>3, <3>1, TextAppend
    <3>3. Cutting!TokensOf(Cutting!Text(body)) = size + cost
      BY <1>1, <1>2, <1>5, <3>2, SumConcat DEF cost
    <3>4. current = <<>> \/ total <= MaxTokens BY <1>8, <2>2, <3>1
    <3>5. current = <<>> => Len(body) = 1 BY <3>1
    <3> QED BY <1>1, <3>1, <3>3, <3>4, <3>5
  <2> QED BY <1>8, <2>1, <2>2
<1>10. /\ FitChunks(blocks, emitted) /\ BodiesOf(emitted) \in Seq(F)
       /\ BodiesOf(emitted) \o body = BodiesOf(chunks) \o Append(current, piece)
  <2>1. CASE ends
    <3> DEFINE x == [body |-> current, tail |-> tail, path |-> currentPath]
    <3>1. emitted = Append(chunks, x) /\ body = <<piece>>
      BY <1>8, <2>1 DEF Cutting!Emitted
    <3>2. x.body = current OBVIOUS
    <3> HIDE DEF x
    <3>3. Cutting!TokensOf(Cutting!Text(x.body)) > MaxTokens => Len(x.body) = 1
      BY <1>1, <1>2, <1>6, <3>2
    <3>4. FitChunks(blocks, emitted) /\ BodiesOf(emitted) = BodiesOf(chunks) \o current
      BY <1>1, <3>1, <3>2, <3>3, ChunksAppend DEF F
    <3>5. BodiesOf(emitted) \in Seq(F) BY <1>1, <1>4, <3>4, ConcatProperties
    <3>6. (BodiesOf(chunks) \o current) \o <<piece>> =
             BodiesOf(chunks) \o Append(current, piece)
      <4>1. PICK a, b, c, P : /\ a = BodiesOf(chunks) /\ b = current /\ c = piece /\ P = F
        OBVIOUS
      <4>2. a \in Seq(P) /\ b \in Seq(P) /\ c \in P BY <1>1, <1>4, <4>1
      <4>3. <<c>> \in Seq(P) /\ Append(b, c) = b \o <<c>> BY <4>2
      <4>4. Grouped(a, b, <<c>>) BY ONLY <4>2, <4>3, ConcatThree
      <4> QED BY <4>1, <4>3, <4>4 DEF Grouped
    <3> QED BY <3>1, <3>4, <3>5, <3>6
  <2>2. CASE ~ends
    BY <1>1, <1>4, <1>8, <2>2
  <2> QED BY <1>8, <2>1, <2>2
<1>11. CASE total >= MaxTokens
  <2> DEFINE x == [body |-> body, tail |-> before, path |-> label]
  <2>1. chunks' = Append(emitted, x) /\ current' = <<>> /\ size' = 0 BY <1>8, <1>11
  <2>2. x.body = body OBVIOUS
  <2> HIDE DEF x
  <2>3. total \in Nat
    <3>1. Cutting!Text(body) \in Passage BY <1>3, <1>9, TextIs
    <3> QED BY <1>2, <1>9, <3>1, SumTyped
  <2>4. Cutting!TokensOf(Cutting!Text(x.body)) > MaxTokens => Len(x.body) = 1
    BY <1>2, <1>9, <2>2, <2>3
  <2>5. FitChunks(blocks, chunks') /\ BodiesOf(chunks') = BodiesOf(emitted) \o body
    BY <1>9, <1>10, <2>1, <2>2, <2>4, ChunksAppend DEF F
  <2>6. BodiesOf(chunks') \in Seq(F) BY <1>9, <1>10, <2>5, ConcatProperties
  <2>7. BodiesOf(chunks') \o current' = BodiesOf(chunks') BY <2>1, <2>6, ConcatEmptySeq
  <2>8. size' = Cutting!TokensOf(Cutting!Text(current'))
    BY <1>2, <2>1, TextNone, SumNone
  <2>9. current' \in Seq(F) /\ size' <= MaxTokens BY <1>2, <2>1
  <2> QED BY <1>10, <2>5, <2>7, <2>8, <2>9 DEF F, piece
<1>12. CASE ~(total >= MaxTokens)
  <2>1. chunks' = emitted /\ current' = body /\ size' = total BY <1>8, <1>12
  <2>2. total \in Nat
    <3>1. Cutting!Text(body) \in Passage BY <1>3, <1>9, TextIs
    <3> QED BY <1>2, <1>9, <3>1, SumTyped
  <2>3. size' <= MaxTokens BY <1>2, <1>12, <2>1, <2>2
  <2> QED BY <1>9, <1>10, <2>1, <2>3 DEF F, piece
<1> QED BY <1>11, <1>12

\* So what is carried stays as it was.
LEMMA ChunkPacks == PanelAssumption /\ ChunkInv /\ Cutting!Pack => ChunkInv'
<1> SUFFICES ASSUME PanelAssumption, ChunkInv, Cutting!Pack PROVE ChunkInv' OBVIOUS
<1>1. Read /\ Packing /\ phase = "pack" /\ phase' = "pack" BY DEF ChunkInv, Cutting!Pack
<1>2. /\ blocks' = blocks /\ buffer' = buffer /\ units' = units
      /\ pieces' = Tail(pieces) /\ pieces # <<>>
  BY DEF Cutting!Pack, Cutting!parsing
<1> DEFINE F == FitPieces(blocks)
           p == Head(pieces)
           r == Tail(pieces)
           a == BodiesOf(chunks)
           d == BodiesOf(chunks')
<1>3. /\ current' \in Seq(F) /\ FitChunks(blocks, chunks')
      /\ size' = Cutting!TokensOf(Cutting!Text(current')) /\ size' <= MaxTokens
      /\ d \o current' = a \o Append(current, p)
  BY <1>1, PackMoves
<1>4. /\ pieces \in Seq(F) /\ current \in Seq(F) /\ p \in F /\ r \in Seq(F)
  <2>1. pieces \in Seq(F) /\ current \in Seq(F) BY <1>1 DEF Packing
  <2> QED BY <1>2, <2>1, HeadTailProperties
<1>5. a \in Seq(F) /\ d \in Seq(F)
  BY <1>1, <1>3, BodiesAre DEF FitChunks, Packing
<1>6. Carried = a \o (current \o pieces) BY <1>1 DEF Carried, Cutting!Bodies, BodiesOf
<1>7. Carried' = d \o (current' \o r)
  BY <1>1, <1>2 DEF Carried, Cutting!Bodies, BodiesOf
<1>8. Carried' = Carried
  <2> HIDE DEF F, p, r, a, d
  <2>1. pieces = <<p>> \o r
    <3>1. pieces = <<Head(pieces)>> \o Tail(pieces) BY <1>2, <1>4
    <3> QED BY <3>1 DEF p, r
  <2>2. PICK ka, kc, kd, ke, kp, kr, P :
           /\ ka = a /\ kc = current /\ kd = d /\ ke = current' /\ kp = p /\ kr = r /\ P = F
    OBVIOUS
  <2>3. /\ ka \in Seq(P) /\ kc \in Seq(P) /\ kd \in Seq(P) /\ ke \in Seq(P) /\ kp \in P
        /\ kr \in Seq(P) /\ kd \o ke = ka \o Append(kc, kp)
    BY <1>3, <1>4, <1>5, <2>2
  <2>4. <<kp>> \in Seq(P) /\ Append(kc, kp) = kc \o <<kp>> /\ kc \o <<kp>> \in Seq(P)
    BY <2>3
  <2>5. kd \o (ke \o kr) = (ka \o (kc \o <<kp>>)) \o kr
    <3>1. kd \in Seq(P) /\ ke \in Seq(P) /\ kr \in Seq(P) BY <2>3
    <3>2. Grouped(kd, ke, kr) BY ONLY <3>1, ConcatThree
    <3> QED BY <2>3, <2>4, <3>2 DEF Grouped
  <2>6. (ka \o (kc \o <<kp>>)) \o kr = ka \o ((kc \o <<kp>>) \o kr)
    <3> DEFINE k == kc \o <<kp>>
    <3>1. ka \in Seq(P) /\ k \in Seq(P) /\ kr \in Seq(P) BY <2>3, <2>4
    <3> HIDE DEF k
    <3>2. Grouped(ka, k, kr) BY ONLY <3>1, ConcatThree
    <3> QED BY <3>2 DEF k, Grouped
  <2>7. (kc \o <<kp>>) \o kr = kc \o (<<kp>> \o kr)
    <3>1. kc \in Seq(P) /\ <<kp>> \in Seq(P) /\ kr \in Seq(P) BY <2>3, <2>4
    <3>2. Grouped(kc, <<kp>>, kr) BY ONLY <3>1, ConcatThree
    <3> QED BY <3>2 DEF Grouped
  <2>8. kd \o (ke \o kr) = ka \o (kc \o (<<kp>> \o kr)) BY <2>5, <2>6, <2>7
  <2> QED BY <1>6, <1>7, <2>1, <2>2, <2>8
<1>9. Packing'
  <2>1. Cutting!Text(Carried') = WholeText /\ WholeIn(blocks', Carried')
    BY <1>1, <1>2, <1>8 DEF Packing
  <2> QED BY <1>2, <1>3, <1>4, <2>1, PackingNext
<1>10. Read' BY <1>1, <1>2 DEF Read, Passage, Places
<1> QED BY <1>1, <1>9, <1>10 DEF ChunkInv

\* The last chunk is emitted.
LEMMA ChunkFinishes == PanelAssumption /\ ChunkInv /\ Cutting!Finish => ChunkInv'
<1> SUFFICES ASSUME PanelAssumption, ChunkInv, Cutting!Finish PROVE ChunkInv' OBVIOUS
<1>1. Read /\ Packing /\ phase = "pack" /\ phase' = "done"
  BY DEF ChunkInv, Cutting!Finish
<1>2. /\ blocks' = blocks /\ buffer' = buffer /\ units' = units
      /\ pieces' = pieces /\ pieces = <<>> /\ current' = current /\ size' = size
      /\ chunks' = IF current = <<>> THEN chunks ELSE Cutting!Emitted
  BY DEF Cutting!Finish, Cutting!parsing
<1> DEFINE F == FitPieces(blocks)
           a == BodiesOf(chunks)
<1>3. current \in Seq(F) /\ FitChunks(blocks, chunks) /\ a \in Seq(F)
  <2>1. current \in Seq(F) /\ FitChunks(blocks, chunks) BY <1>1 DEF Packing
  <2> QED BY <2>1, BodiesAre DEF FitChunks
<1>4. Carried = a \o current
  <2>1. Carried = a \o (current \o <<>>)
    BY <1>1, <1>2 DEF Carried, Cutting!Bodies, BodiesOf
  <2> QED BY <1>3, <2>1, ConcatEmptySeq
<1>5. Carried' = BodiesOf(chunks') BY <1>1 DEF Carried, Cutting!Bodies, BodiesOf
<1>6. BodiesOf(chunks') = a \o current /\ FitChunks(blocks, chunks')
  <2>1. CASE current = <<>> BY <1>2, <1>3, <2>1, ConcatEmptySeq
  <2>2. CASE current # <<>>
    <3> DEFINE x == [body |-> current, tail |-> tail, path |-> currentPath]
    <3>1. chunks' = Append(chunks, x) BY <1>2, <2>2 DEF Cutting!Emitted
    <3>2. x.body = current OBVIOUS
    <3> HIDE DEF x
    <3>3. Cutting!TokensOf(Cutting!Text(x.body)) > MaxTokens => Len(x.body) = 1
      <4>1. size = Cutting!TokensOf(Cutting!Text(current)) /\ size <= MaxTokens
        BY <1>1 DEF Packing
      <4>2. MaxTokens \in Nat BY DEF PanelAssumption
      <4>3. size \in Nat
        <5>1. Cutting!Text(current) \in Passage BY <1>3, FitText, TextIs
        <5> QED BY <1>1, <4>1, <5>1, SumTyped DEF Read
      <4> QED BY <3>2, <4>1, <4>2, <4>3
    <3> QED BY <1>3, <3>1, <3>2, <3>3, ChunksAppend
  <2> QED BY <2>1, <2>2
<1>7. Packing'
  <2>1. Cutting!Text(Carried') = WholeText /\ WholeIn(blocks', Carried')
    BY <1>1, <1>2, <1>4, <1>5, <1>6 DEF Packing
  <2>2. /\ current' \in Seq(FitPieces(blocks')) /\ pieces' \in Seq(FitPieces(blocks'))
        /\ size' = Cutting!TokensOf(Cutting!Text(current')) /\ size' <= MaxTokens
    BY <1>1, <1>2 DEF Packing
  <2> QED BY <1>2, <1>6, <2>1, <2>2, PackingNext
<1>8. Read' BY <1>1, <1>2 DEF Read, Passage, Places
<1> QED BY <1>1, <1>7, <1>8 DEF ChunkInv

\* Every step keeps the invariant.
LEMMA ChunkStep == PanelAssumption /\ ChunkInv /\ [Cutting!Next]_(Cutting!vars) => ChunkInv'
<1> SUFFICES ASSUME PanelAssumption, ChunkInv, [Cutting!Next]_(Cutting!vars) PROVE ChunkInv'
  OBVIOUS
<1>1. CASE UNCHANGED Cutting!vars
  <2>1. UNCHANGED <<phase, units, buffer, blocks, pieces, current, size, chunks>>
    BY <1>1 DEF Cutting!vars, Cutting!parsing, Cutting!packing
  <2>2. Read' BY <2>1 DEF ChunkInv, Read, Passage, Places
  <2>3. Carried' = Carried BY <2>1 DEF Carried, Cutting!Bodies
  <2>4. Parsing => Parsing'
    <3>1. (Cutting!Text(blocks))' = Cutting!Text(blocks) BY <2>1
    <3> QED BY <2>1, <3>1 DEF Parsing, WholeText
  <2>5. Packing => Packing'
    <3> SUFFICES ASSUME Packing PROVE Packing' OBVIOUS
    <3> QED BY <2>1, <2>3, PackingNext DEF Packing
  <2> QED BY <2>1, <2>2, <2>4, <2>5 DEF ChunkInv
<1> QED
  BY <1>1, ChunkHeads, ChunkBlanks, ChunkTexts, ChunkParses, ChunkPacks, ChunkFinishes
        DEF Cutting!Next

\* And in the end it says what is wanted of the chunks.
LEMMA ChunksCarry == PanelAssumption /\ ChunkInv => Cutting!ChunksCarryTheDocument
<1> SUFFICES ASSUME PanelAssumption, ChunkInv, Cutting!Done PROVE
       /\ Cutting!Text(Cutting!Bodies) = [u \in 1..Len(units) |-> u]
       /\ \A b \in DOMAIN blocks : Cutting!Whole(blocks[b]) =>
             \E p \in DOMAIN Cutting!Bodies : Cutting!Bodies[p].text = blocks[b].text
       /\ \A c \in DOMAIN chunks :
             Cutting!TokensOf(Cutting!Text(chunks[c].body)) > MaxTokens =>
                /\ Len(chunks[c].body) = 1
                /\ \/ Len(chunks[c].body[1].text) = 1
                   \/ \E b \in DOMAIN blocks :
                         blocks[b].text = chunks[c].body[1].text /\ Cutting!Whole(blocks[b])
  BY DEF Cutting!ChunksCarryTheDocument
<1>1. Packing /\ Carried = Cutting!Bodies BY DEF ChunkInv, Cutting!Done, Carried
<1>2. Cutting!Text(Cutting!Bodies) = [u \in 1..Len(units) |-> u]
  BY <1>1 DEF Packing, WholeText
<1>3. WholeIn(blocks, Cutting!Bodies) BY <1>1 DEF Packing
<1>4. ASSUME NEW c \in DOMAIN chunks,
             Cutting!TokensOf(Cutting!Text(chunks[c].body)) > MaxTokens
      PROVE  /\ Len(chunks[c].body) = 1
             /\ \/ Len(chunks[c].body[1].text) = 1
                \/ \E b \in DOMAIN blocks :
                      blocks[b].text = chunks[c].body[1].text /\ Cutting!Whole(blocks[b])
  <2> DEFINE F == FitPieces(blocks)
             body == chunks[c].body
  <2>1. chunks[c] \in Range(chunks) BY DEF Range
  <2>2. body \in Seq(F) /\ Len(body) = 1 BY <1>1, <1>4, <2>1 DEF Packing, FitChunks
  <2>3. body[1] \in F BY <2>2, ElementOfSeq
  <2>4. units \in Seq(Unit) /\ MaxTokens \in Nat BY DEF ChunkInv, Read, PanelAssumption
  <2>5. Cutting!Text(body) = body[1].text
    <3>1. body = Append(<<>>, body[1]) /\ <<>> \in Seq(F) BY <2>2
    <3>2. \A q \in F : q.text \in Passage BY FitText
    <3> HIDE DEF body, F
    <3>3. Cutting!Text(body) = <<>> \o body[1].text
      BY <2>3, <3>1, <3>2, TextAppend, TextNone
    <3>4. body[1].text \in Seq(Places) BY <2>3, <3>2 DEF Passage
    <3> QED BY <3>3, <3>4, ConcatEmptySeq
  <2>6. Cutting!TokensOf(body[1].text) \in Nat BY <2>3, <2>4, FitText, SumTyped
  <2>7. ~(Cutting!TokensOf(body[1].text) <= MaxTokens)
    <3> HIDE DEF body
    <3>1. Cutting!TokensOf(Cutting!Text(body)) > MaxTokens BY <1>4 DEF body
    <3> QED BY <2>4, <2>5, <2>6, <3>1
  <2> HIDE DEF body
  <2>8. \/ Len(body[1].text) = 1
        \/ \E b \in DOMAIN blocks :
              blocks[b].text = body[1].text /\ Cutting!Whole(blocks[b])
    BY <2>3, <2>7 DEF FitPieces, F
  <2> QED BY <2>2, <2>8 DEF body
<1>5. \A b \in DOMAIN blocks : Cutting!Whole(blocks[b]) =>
         \E p \in DOMAIN Cutting!Bodies : Cutting!Bodies[p].text = blocks[b].text
  BY <1>3 DEF WholeIn
<1> QED BY <1>2, <1>4, <1>5

\* A step of the run is a step of the cutting, or leaves it alone.
LEMMA PanelChunks ==
    /\ PanelInit => Cutting!Init
    /\ [PanelNext]_allVars => [Cutting!Next]_(Cutting!vars)
<1>1. PanelInit => Cutting!Init BY DEF PanelInit
<1>2. ASSUME [PanelNext]_allVars PROVE [Cutting!Next]_(Cutting!vars)
  BY <1>2 DEF PanelNext, allVars, cutting, Cutting!vars, Cutting!parsing, Cutting!packing,
              InKnowledge, InChunks, InScripts, InLive, InAudit
<1> QED BY <1>1, <1>2

\* Whatever lines a document has and however many, and whatever the window and the
\* overlap: the chunks, without what they repeat, are the document, its tables and
\* dosage rows are in one piece, and no chunk exceeds the window but for such a piece
\* or one sentence.
THEOREM PanelChunksCarry == PanelSpec => []ChunksCarryTheDocument
<1>1. ChunkInv => ChunksCarryTheDocument
  BY PanelAssumption, ChunksCarry DEF ChunksCarryTheDocument
<1>2. ChunkInv /\ [Cutting!Next]_(Cutting!vars) => ChunkInv' BY PanelAssumption, ChunkStep
<1> QED BY <1>1, <1>2, PanelChunks, ChunkInitially, PTL DEF PanelSpec

-----------------------------------------------------------------------------
(* Scripts                                                                 *)

\* The index counts versions.
LEMMA ScriptsCount == ASSUME NEW S PROVE Scripts!Cardinality(S) = Cardinality(S)
BY Zenon DEF Scripts!Cardinality, Cardinality

\* Rows have their form, and only a version there is is published.
RowsSound ==
    /\ configs \in
          [Scripts!Versions -> [exists : BOOLEAN, published : BOOLEAN, words : Int]]
    /\ \A v \in Scripts!Versions : configs[v].published => configs[v].exists

\* A publication under way is of a version there is; an edit has words.
RequestSound(q) ==
    /\ q.op = "publish" => q.v \in Scripts!Made
    /\ q.op \in {"clone", "edit"} => q.words \in Int
RequestsSound ==
    /\ req = [r \in Requests |-> req[r]]
    /\ \A r \in Requests : RequestSound(req[r])

ScriptInv == RowsSound /\ RequestsSound /\ edits \in Int /\ Scripts!FlowStaysLive

\* At first there is one version, a draft.
LEMMA ScriptsInitially == Scripts!Init => ScriptInv
<1> SUFFICES ASSUME Scripts!Init PROVE ScriptInv
  OBVIOUS
<1>1. RowsSound
  <2>1. \A v \in Scripts!Versions : (v = 1) \in BOOLEAN
    OBVIOUS
  <2>2. \A b \in BOOLEAN :
           /\ [Scripts!NoRow EXCEPT !.exists = b]
                  \in [exists : BOOLEAN, published : BOOLEAN, words : Int]
           /\ [Scripts!NoRow EXCEPT !.exists = b].published = FALSE
    <3> DEFINE R == [exists : BOOLEAN, published : BOOLEAN, words : Int]
    <3>1. Scripts!NoRow \in R /\ Scripts!NoRow.published = FALSE
      BY DEF Scripts!NoRow
    <3>2. \A q \in R, b \in BOOLEAN : /\ [q EXCEPT !.exists = b] \in R
                                     /\ [q EXCEPT !.exists = b].published = q.published
      OBVIOUS
    <3> QED
      BY <3>1, <3>2
  <2>3. configs \in
           [Scripts!Versions -> [exists : BOOLEAN, published : BOOLEAN, words : Int]]
    BY <2>1, <2>2 DEF Scripts!Init
  <2>4. \A v \in Scripts!Versions : configs[v].published = FALSE
    BY <2>1, <2>2 DEF Scripts!Init
  <2> QED
    BY <2>3, <2>4 DEF RowsSound
<1>2. RequestsSound
  BY DEF Scripts!Init, RequestsSound, RequestSound, Scripts!NoReq
<1>3. Scripts!FlowStaysLive
  <2>1. Scripts!Published = {}
    BY DEF Scripts!Init, Scripts!Published, Scripts!Made, Scripts!NoRow
  <2> QED
    BY <2>1, FS_EmptySet, ScriptsCount DEF Scripts!Init, Scripts!FlowStaysLive
<1> QED
  BY <1>1, <1>2, <1>3 DEF ScriptInv, Scripts!Init

\* A step that publishes nothing and takes nothing down leaves the flow live.
LEMMA NothingPublished ==
  ASSUME ScriptInv, UNCHANGED everLive, RowsSound',
         \A v \in Scripts!Versions : /\ configs'[v].published = configs[v].published
                                     /\ configs[v].exists => configs'[v].exists
  PROVE  Scripts!FlowStaysLive'
<1>1. Scripts!Published' = Scripts!Published
  BY DEF ScriptInv, RowsSound, Scripts!Published, Scripts!Made
<1> QED
  BY <1>1 DEF ScriptInv, Scripts!FlowStaysLive

\* A request that begins or ends leaves the others as they were.
LEMMA OneRequest ==
  ASSUME ScriptInv, NEW r \in Requests, NEW new, req' = [req EXCEPT ![r] = new],
         RequestSound(new)', \A v \in Scripts!Made : v \in Scripts!Made'
  PROVE  RequestsSound'
<1>1. /\ req' = [q \in Requests |-> req'[q]]
      /\ \A q \in Requests : req'[q] = IF q = r THEN new ELSE req[q]
  BY DEF ScriptInv, RequestsSound
<1> QED
  BY <1>1 DEF ScriptInv, RequestsSound, RequestSound

\* A request that reads, whatever it writes down, publishes nothing.
LEMMA RequestReads ==
  ASSUME ScriptInv, NEW r \in Requests, NEW new, UNCHANGED <<configs, everLive>>,
         edits' \in Int, req' = [req EXCEPT ![r] = new], RequestSound(new)
  PROVE  ScriptInv'
<1>1. RowsSound'
  BY DEF ScriptInv, RowsSound
<1>2. Scripts!FlowStaysLive'
  BY <1>1, NothingPublished
<1>3. Scripts!Made' = Scripts!Made
  BY DEF Scripts!Made
<1>4. RequestSound(new)'
  BY <1>3 DEF RequestSound
<1>5. RequestsSound'
  BY <1>3, <1>4, OneRequest
<1> QED
  BY <1>1, <1>2, <1>5 DEF ScriptInv

\* Every step keeps the invariant.
LEMMA ScriptsStep == ScriptInv /\ [Scripts!Next]_(Scripts!vars) => ScriptInv'
<1> SUFFICES ASSUME ScriptInv, [Scripts!Next]_(Scripts!vars) PROVE ScriptInv'
  OBVIOUS
<1>1. RowsSound /\ RequestsSound /\ edits \in Int /\ Scripts!FlowStaysLive
  BY DEF ScriptInv
<1>2. ASSUME NEW r \in Requests, NEW v \in Scripts!Versions, Scripts!Clones(r, v)
      PROVE  ScriptInv'
  <2>1. PICK edited \in BOOLEAN :
           /\ edits' = IF edited THEN edits + 1 ELSE edits
           /\ req' = [req EXCEPT ![r] =
                         [op |-> "clone", v |-> Scripts!Highest + 1, live |-> None,
                          words |-> IF edited THEN edits + 1 ELSE configs[v].words]]
    BY <1>2 DEF Scripts!Clones
  <2> DEFINE new == [op |-> "clone", v |-> Scripts!Highest + 1, live |-> None,
                     words |-> IF edited THEN edits + 1 ELSE configs[v].words]
  <2>2. RequestSound(new) /\ edits' \in Int
    BY <1>1, <2>1 DEF RequestSound, RowsSound
  <2> QED
    BY <1>2, <2>1, <2>2, RequestReads DEF Scripts!Clones
<1>3. ASSUME NEW r \in Requests, NEW v \in Scripts!Versions, Scripts!Opens(r, v)
      PROVE  ScriptInv'
  <2> DEFINE new == [op |-> "edit", v |-> v, live |-> None, words |-> edits + 1]
  <2>1. RequestSound(new) /\ edits' \in Int
    BY <1>1, <1>3 DEF RequestSound, Scripts!Opens
  <2> QED
    BY <1>3, <2>1, RequestReads DEF Scripts!Opens
<1>4. ASSUME NEW r \in Requests, NEW v \in Scripts!Versions, Scripts!Chooses(r, v)
      PROVE  ScriptInv'
  <2> DEFINE new == [op |-> "publish", v |-> v, live |-> Scripts!Live,
                     words |-> configs[v].words]
  <2>1. RequestSound(new) /\ edits' \in Int
    BY <1>1, <1>4 DEF RequestSound, Scripts!Chooses
  <2> QED
    BY <1>4, <2>1, RequestReads DEF Scripts!Chooses
<1>5. ASSUME NEW r \in Requests,
             Scripts!Adds(r) \/ Scripts!Edits(r) \/ Scripts!Publishes(r),
             \A v \in Scripts!Made : v \in Scripts!Made'
      PROVE  RequestsSound' /\ edits' \in Int
  <2>1. RequestSound(Scripts!NoReq)'
    BY DEF RequestSound, Scripts!NoReq
  <2> QED
    BY <1>1, <1>5, <2>1, OneRequest DEF Scripts!Adds, Scripts!Edits, Scripts!Publishes
<1>6. ASSUME NEW r \in Requests, Scripts!Adds(r) PROVE ScriptInv'
  <2> DEFINE new == [exists |-> TRUE, published |-> FALSE, words |-> req[r].words]
  <2>1. new \in [exists : BOOLEAN, published : BOOLEAN, words : Int]
    BY <1>1, <1>6 DEF Scripts!Adds, RequestsSound, RequestSound
  <2>2. /\ RowsSound'
        /\ \A v \in Scripts!Versions : /\ configs'[v].published = configs[v].published
                                       /\ configs[v].exists => configs'[v].exists
    <3>1. CASE configs' = configs
      BY <1>1, <3>1 DEF RowsSound
    <3>2. CASE ~configs[req[r].v].exists /\ configs' = [configs EXCEPT ![req[r].v] = new]
      BY <1>1, <2>1, <3>2 DEF RowsSound
    <3> QED
      BY <1>6, <3>1, <3>2 DEF Scripts!Adds
  <2>3. \A v \in Scripts!Made : v \in Scripts!Made'
    BY <2>2 DEF Scripts!Made
  <2>4. Scripts!FlowStaysLive'
    BY <1>6, <2>2, NothingPublished DEF Scripts!Adds
  <2> QED
    BY <1>5, <1>6, <2>2, <2>3, <2>4 DEF ScriptInv
<1>7. ASSUME NEW r \in Requests, Scripts!Edits(r) PROVE ScriptInv'
  <2>1. req[r].words \in Int
    BY <1>1, <1>7 DEF Scripts!Edits, RequestsSound, RequestSound
  <2>2. /\ RowsSound'
        /\ \A v \in Scripts!Versions : /\ configs'[v].published = configs[v].published
                                       /\ configs[v].exists => configs'[v].exists
    BY <1>1, <1>7, <2>1 DEF RowsSound, Scripts!Edits
  <2>3. \A v \in Scripts!Made : v \in Scripts!Made'
    BY <2>2 DEF Scripts!Made
  <2>4. Scripts!FlowStaysLive'
    BY <1>7, <2>2, NothingPublished DEF Scripts!Edits
  <2> QED
    BY <1>5, <1>7, <2>2, <2>3, <2>4 DEF ScriptInv
<1>8. ASSUME NEW r \in Requests, Scripts!Publishes(r) PROVE ScriptInv'
  <2> DEFINE after == Scripts!Swapped(req[r].v, req[r].live)
  <2>1. CASE UNCHANGED <<configs, everLive>>
    <3>1. RowsSound' /\ Scripts!Made' = Scripts!Made
      BY <1>1, <2>1 DEF RowsSound, Scripts!Made
    <3>2. Scripts!FlowStaysLive'
      BY <2>1, <3>1, NothingPublished
    <3> QED
      BY <1>5, <1>8, <3>1, <3>2 DEF ScriptInv
  <2>2. CASE Scripts!IndexAllows(after) /\ configs' = after
    <3>1. req[r].v \in Scripts!Made
      BY <1>1, <1>8 DEF Scripts!Publishes, RequestsSound, RequestSound
    <3>2. /\ RowsSound'
          /\ \A v \in Scripts!Versions : configs'[v].exists = configs[v].exists
          /\ configs'[req[r].v].published
      BY <1>1, <2>2, <3>1, ZenonT(30) DEF Scripts!Swapped, RowsSound, Scripts!Made
    <3>3. Scripts!Made' = Scripts!Made
      BY <3>2 DEF Scripts!Made
    <3>4. Scripts!Published' = {v \in Scripts!Versions : after[v].published}
      BY <2>2, <3>2 DEF Scripts!Published, Scripts!Made, RowsSound
    <3>5. req[r].v \in Scripts!Published'
      BY <3>1, <3>2, <3>3 DEF Scripts!Published
    <3>6. Scripts!FlowStaysLive'
      BY <2>2, <3>4, <3>5 DEF Scripts!FlowStaysLive, Scripts!IndexAllows
    <3> QED
      BY <1>5, <1>8, <3>2, <3>3, <3>6 DEF ScriptInv
  <2> QED
    BY <1>8, <2>1, <2>2 DEF Scripts!Publishes
<1>9. CASE UNCHANGED <<configs, req, edits, everLive>>
  <2>1. RowsSound' /\ Scripts!Made' = Scripts!Made
    BY <1>1, <1>9 DEF RowsSound, Scripts!Made
  <2>2. Scripts!FlowStaysLive'
    BY <1>9, <2>1, NothingPublished
  <2>3. RequestsSound'
    BY <1>1, <1>9, <2>1 DEF RequestsSound, RequestSound
  <2> QED
    BY <1>1, <1>9, <2>1, <2>2, <2>3 DEF ScriptInv
<1>10. CASE Scripts!Imports \/ Scripts!Approves \/ Scripts!HangsUp \/
               \E of \in {"campaign", "helpline"} : Scripts!Answers(of)
  BY <1>9, <1>10 DEF Scripts!Imports, Scripts!Approves, Scripts!HangsUp, Scripts!Answers
<1>11. CASE UNCHANGED Scripts!vars
  BY <1>9, <1>11 DEF Scripts!vars
<1> QED
  BY <1>2, <1>3, <1>4, <1>6, <1>7, <1>8, <1>10, <1>11 DEF Scripts!Next

\* A step of the run is a step of the scripts, or leaves them alone.
LEMMA PanelScripts ==
    /\ PanelInit => Scripts!Init
    /\ [PanelNext]_allVars => [Scripts!Next]_(Scripts!vars)
BY DEF PanelInit, PanelNext, allVars, scripts, Scripts!vars, InKnowledge, InChunks,
       InScripts, InLive, InAudit

\* However publications, edits and clones race, the flow has one live version
\* from its first publication on: publish_flow under uq_agent_config_published.
THEOREM PanelFlowStaysLive == PanelSpec => []FlowStaysLive
<1>1. ScriptInv => FlowStaysLive BY DEF ScriptInv, FlowStaysLive
<1> QED BY <1>1, PanelScripts, ScriptsInitially, ScriptsStep, PTL DEF PanelSpec

-----------------------------------------------------------------------------
(* The Live page                                                           *)

\* The values that events, sessions and rows have.
Event == [call : Calls \cup {None}, type : {"started", "identified", "turn", "ended"},
          centre : {Own, Other, None}]
LiveSession == [pc :
   {"none", "created", "started", "attached", "talking", "closing", "over"},
                centre : {Own, Other, None}, turns : Int]
LiveRow == [status : {"none", "in_progress", "ended"}, centre : {Own, Other, None}]

LiveTyped ==
    /\ scope \in {"all", "own"}
    /\ session \in [Calls -> LiveSession]
    /\ callRows \in [Calls -> LiveRow]
    /\ queue \in Seq(Event)
    /\ board \subseteq Calls /\ pending \subseteq Calls /\ whole \subseteq Calls

\* A call has a centre once it was attached, and its row has that one or none.
OneCentre ==
    \A c \in Calls :
        /\ session[c].pc \in {"none", "created", "started"} => session[c].centre = None
        /\ callRows[c].centre \in {None, session[c].centre}
        /\ session[c].pc = "none" => callRows[c].status = "none"

\* A call's own events carry its centre, but for its start, which comes first;
\* its end comes last.  No other call has the viewer's centre.
EventTrue(i) ==
    /\ queue[i].call \notin Calls => queue[i].centre = Other /\ queue[i].type = "turn"
    /\ queue[i].call \in Calls =>
          LET pc == session[queue[i].call].pc
          IN  /\ queue[i].centre = IF queue[i].type = "started" THEN None
                                   ELSE session[queue[i].call].centre
              /\ pc \notin {"none", "created"}
              /\ pc \in {"started", "attached"} => queue[i].type = "started"
              /\ queue[i].type = "ended" => pc = "over"
              /\ \A j \in DOMAIN queue : queue[j].call = queue[i].call =>
                    /\ queue[i].type = "ended" => j <= i
                    /\ queue[i].type = "started" => i <= j

EventsTrue == \A i \in DOMAIN queue : EventTrue(i)

\* What is to be shown: a viewer of one centre sees that centre.
InScope == scope = "own" => \A c \in board : session[c].centre = Own

LiveInv == LiveTyped /\ OneCentre /\ EventsTrue /\ InScope

\* What Append does.
LEMMA Appending ==
  ASSUME NEW S, NEW q \in Seq(S), NEW e \in S
  PROVE  /\ Append(q, e) \in Seq(S) /\ Len(q) \in Nat
         /\ DOMAIN q = 1..Len(q) /\ DOMAIN Append(q, e) = 1..(Len(q) + 1)
         /\ Append(q, e)[Len(q) + 1] = e
         /\ \A i \in 1..Len(q) : Append(q, e)[i] = q[i]
  OBVIOUS

\* What Head and Tail do.
LEMMA Taking ==
  ASSUME NEW S, NEW q \in Seq(S), q # <<>>
  PROVE  /\ Tail(q) \in Seq(S) /\ Head(q) = q[1] /\ Head(q) \in S /\ Len(q) \in Nat /\
               Len(q) >= 1
         /\ DOMAIN q = 1..Len(q) /\ DOMAIN Tail(q) = 1..(Len(q) - 1)
         /\ \A i \in 1..(Len(q) - 1) : Tail(q)[i] = q[i + 1]
  OBVIOUS

\* There is no call at first.
LEMMA LiveInitially == Live!Init => LiveInv
  BY PanelAssumption DEF Live!Init, LiveInv, LiveTyped, OneCentre, EventsTrue,
     EventTrue, InScope, LiveSession, LiveRow

\* The session of a call takes a step, others do not.
LEMMA SessionMoves ==
  ASSUME LiveTyped, NEW c \in Calls, NEW from,
         NEW to \in
         {"none", "created", "started", "attached", "talking", "closing", "over"},
         Live!Moves(c, from, to)
  PROVE  /\ session' \in [Calls -> LiveSession] /\ session[c].pc = from
         /\ session'[c].pc = to /\ session'[c].centre = session[c].centre
         /\ \A d \in Calls : d # c => session'[d] = session[d]
  BY DEF Live!Moves, LiveTyped, LiveSession

\* What a step that tells does to the queue.
LEMMA Telling ==
  ASSUME LiveTyped, NEW c \in Calls,
         NEW type \in {"started", "identified", "turn", "ended"},
         NEW centre \in {Own, Other, None},
         Live!Publishes(c, type, centre)
  PROVE  /\ whole' \subseteq whole
         /\ \/ UNCHANGED queue /\ whole' = whole \ {c}
            \/ /\ queue' \in Seq(Event) /\ DOMAIN queue' = 1..(Len(queue) + 1) /\
                     DOMAIN queue = 1..Len(queue)
               /\ queue'[Len(queue) + 1] = [call |-> c, type |-> type, centre |-> centre]
               /\ \A i \in DOMAIN queue : queue'[i] = queue[i]
               /\ UNCHANGED whole
         /\ Len(queue) \in Nat
<1>1. CASE UNCHANGED queue /\ whole' = whole \ {c}
  BY <1>1 DEF LiveTyped
<1>2. CASE /\ queue' = Append(queue, [call |-> c, type |-> type, centre |-> centre])
           /\ UNCHANGED whole
  <2>1. [call |-> c, type |-> type, centre |-> centre] \in Event BY DEF Event
  <2> QED BY <1>2, <2>1, Appending DEF LiveTyped
<1> QED BY <1>1, <1>2 DEF Live!Publishes

\* A session takes a step, and may tell of it.
LEMMA LiveSpeaks ==
  ASSUME LiveInv, NEW c \in Calls, Live!Speaks(c)
  PROVE  LiveInv'
<1>0. LiveTyped /\ OneCentre /\ EventsTrue /\ InScope BY DEF LiveInv
<1>a. UNCHANGED <<scope, pending, board>>
  BY DEF Live!Speaks, Live!Creates, Live!CannotCreate, Live!TellsStart, Live!Attaches,
     Live!TellsWho, Live!TellsTurn, Live!Finalises, Live!TellsEnd, Live!tab
<1>1. CASE Live!Creates(c)
  <2>1. /\ session' \in [Calls -> LiveSession] /\ session[c].pc = "none"
        /\ session'[c].pc = "created" /\ session'[c].centre = session[c].centre
        /\ \A d \in Calls : d # c => session'[d] = session[d]
    BY <1>0, <1>1, SessionMoves DEF Live!Creates
  <2>2. /\ callRows' \in [Calls -> LiveRow]
        /\ \A d \in Calls : callRows'[d].centre = callRows[d].centre
        /\ \A d \in Calls : d # c => callRows'[d] = callRows[d]
        /\ UNCHANGED <<queue, whole>>
    BY <1>0, <1>1 DEF Live!Creates, LiveTyped, LiveRow
  <2>3. LiveTyped' BY <1>0, <1>a, <2>1, <2>2 DEF LiveTyped
  <2>4. OneCentre' BY <1>0, <2>1, <2>2 DEF OneCentre, LiveTyped
  <2>5. EventsTrue'
    <3>1. \A d \in Calls : /\ session[d].centre = session'[d].centre
                          /\ session'[d].pc # session[d].pc => d = c
      BY <2>1
    <3>2. \A i \in DOMAIN queue : queue[i].call # c
      BY <1>0, <2>1 DEF EventsTrue, EventTrue
    <3> QED BY <1>0, <2>1, <3>1, <3>2, <2>2 DEF EventsTrue, EventTrue
  <2>6. InScope' BY <1>0, <1>a, <2>1 DEF InScope, LiveTyped
  <2> QED BY <2>3, <2>4, <2>5, <2>6 DEF LiveInv
<1>2. CASE Live!CannotCreate(c)
  <2>1. /\ session' \in [Calls -> LiveSession] /\ session[c].pc = "none"
        /\ session'[c].pc = "closing" /\ session'[c].centre = session[c].centre
        /\ \A d \in Calls : d # c => session'[d] = session[d]
        /\ UNCHANGED <<callRows, queue, whole>>
    BY <1>0, <1>2, SessionMoves DEF Live!CannotCreate
  <2>3. LiveTyped' BY <1>0, <1>a, <2>1 DEF LiveTyped
  <2>4. OneCentre' BY <1>0, <2>1 DEF OneCentre, LiveTyped
  <2>5. EventsTrue'
    <3>1. \A d \in Calls : /\ session[d].centre = session'[d].centre
                          /\ session'[d].pc # session[d].pc => d = c
      BY <2>1
    <3>2. \A i \in DOMAIN queue : queue[i].call # c
      BY <1>0, <2>1 DEF EventsTrue, EventTrue
    <3> QED BY <1>0, <2>1, <3>1, <3>2 DEF EventsTrue, EventTrue
  <2>6. InScope' BY <1>0, <1>a, <2>1 DEF InScope, LiveTyped
  <2> QED BY <2>3, <2>4, <2>5, <2>6 DEF LiveInv
<1>3. CASE Live!TellsStart(c) \/ Live!TellsWho(c) \/ Live!TellsEnd(c) \/ Live!TellsTurn(c)
  <2>1. PICK to \in {"started", "talking", "over"},
             type \in {"started", "identified", "turn", "ended"},
                centre \in {Own, Other, None} :
          /\ session' \in [Calls -> LiveSession] /\ session'[c].pc = to
          /\ session'[c].centre = session[c].centre
          /\ \A d \in Calls : d # c => session'[d] = session[d]
          /\ Live!Publishes(c, type, centre) /\ UNCHANGED callRows
          /\ \/ session[c].pc = "created" /\ to = "started" /\ type = "started" /\
                   centre = None
             \/ session[c].pc = "attached" /\ to = "talking" /\ type = "identified" /\
                   centre = session[c].centre
             \/ session[c].pc = "talking" /\ to = "talking" /\ type = "turn" /\
                   centre = session[c].centre
             \/ session[c].pc = "closing" /\ to = "over" /\ type = "ended" /\
                   centre = session[c].centre
    <3>1. CASE Live!TellsStart(c) BY <1>0, <3>1, SessionMoves DEF Live!TellsStart
    <3>2. CASE Live!TellsWho(c)
      <4>1. session[c].centre \in {Own, Other, None} BY <1>0 DEF LiveTyped, LiveSession
      <4> QED BY <1>0, <3>2, <4>1, SessionMoves DEF Live!TellsWho
    <3>3. CASE Live!TellsEnd(c)
      <4>1. session[c].centre \in {Own, Other, None} BY <1>0 DEF LiveTyped, LiveSession
      <4> QED BY <1>0, <3>3, <4>1, SessionMoves DEF Live!TellsEnd
    <3>4. CASE Live!TellsTurn(c)
      <4>1. session[c].centre \in {Own, Other, None} /\ session[c].turns + 1 \in Int
        BY <1>0 DEF LiveTyped, LiveSession
      <4>2. /\ session' \in [Calls -> LiveSession] /\ session'[c].pc = "talking"
            /\ session'[c].centre = session[c].centre
            /\ \A d \in Calls : d # c => session'[d] = session[d]
        BY <1>0, <3>4, <4>1 DEF Live!TellsTurn, LiveTyped, LiveSession
      <4> QED BY <1>0, <3>4, <4>1, <4>2 DEF Live!TellsTurn
    <3> QED BY <1>3, <3>1, <3>2, <3>3, <3>4
  <2>2. /\ whole' \subseteq whole
        /\ \/ UNCHANGED queue /\ whole' = whole \ {c}
           \/ /\ queue' \in Seq(Event) /\ DOMAIN queue' = 1..(Len(queue) + 1) /\
                    DOMAIN queue = 1..Len(queue)
              /\ queue'[Len(queue) + 1] = [call |-> c, type |-> type, centre |-> centre]
              /\ \A i \in DOMAIN queue : queue'[i] = queue[i]
              /\ UNCHANGED whole
        /\ Len(queue) \in Nat
    BY <1>0, <2>1, Telling
  <2>3. LiveTyped' BY <1>0, <1>a, <2>1, <2>2 DEF LiveTyped
  <2>4. OneCentre' BY <1>0, <2>1 DEF OneCentre
  <2>5. InScope' BY <1>0, <1>a, <2>1 DEF InScope, LiveTyped
  <2>6. EventsTrue'
    <3>1. CASE UNCHANGED queue BY <1>0, <2>1, <3>1 DEF EventsTrue, EventTrue
    <3>2. CASE /\ queue' \in Seq(Event) /\ DOMAIN queue' = 1..(Len(queue) + 1) /\
                     DOMAIN queue = 1..Len(queue)
               /\ queue'[Len(queue) + 1] = [call |-> c, type |-> type, centre |-> centre]
               /\ \A i \in DOMAIN queue : queue'[i] = queue[i]
      <4>1. \A i \in DOMAIN queue : queue[i].call = c =>
               queue[i].type # "ended" /\ session[c].pc # "created"
        BY <1>0, <2>1 DEF EventsTrue, EventTrue
      <4> DEFINE n == Len(queue) + 1
      <4>2. \A i \in DOMAIN queue' : i = n \/ i \in DOMAIN queue
        BY <2>2, <3>2
      <4>3. /\ queue'[n].call = c /\ queue'[n].type = type /\ queue'[n].centre = centre
            /\ n \in DOMAIN queue'
            /\ n \in Nat
            /\ \A i \in DOMAIN queue : i <= n /\ i \in DOMAIN queue' /\ i \in Nat
        BY <2>2, <3>2
      <4> HIDE DEF n
      <4> SUFFICES ASSUME NEW i \in DOMAIN queue'
                   PROVE  EventTrue(i)'
        BY DEF EventsTrue, EventTrue
      <4>4. CASE i = n
        BY <1>0, <2>1, <3>2, <4>1, <4>2, <4>3, <4>4 DEF EventTrue
      <4>5. CASE i \in DOMAIN queue
        <5>1. queue'[i] = queue[i] BY <3>2, <4>5
        <5>2. CASE queue[i].call = c
          BY <1>0, <2>1, <3>2, <4>1, <4>2, <4>3, <4>5, <5>1, <5>2
             DEF EventsTrue, EventTrue
        <5>3. CASE queue[i].call # c
          BY <1>0, <2>1, <3>2, <4>2, <4>3, <4>5, <5>1, <5>3 DEF EventsTrue, EventTrue
        <5> QED BY <5>2, <5>3
      <4> QED BY <4>2, <4>4, <4>5
    <3> QED BY <2>2, <3>1, <3>2
  <2> QED BY <2>3, <2>4, <2>5, <2>6 DEF LiveInv
<1>4. CASE \E centre \in {Own, Other, None} : Live!Attaches(c, centre)
  <2>1. PICK centre \in {Own, Other, None} : Live!Attaches(c, centre) BY <1>4
  <2>2. /\ session' \in [Calls -> LiveSession] /\ session[c].pc = "started"
        /\ session'[c].pc = "attached" /\ session'[c].centre = centre
        /\ \A d \in Calls : d # c => session'[d] = session[d]
        /\ UNCHANGED <<queue, whole>>
    BY <1>0, <2>1 DEF Live!Attaches, LiveTyped, LiveSession
  <2>3. /\ callRows' \in [Calls -> LiveRow]
        /\ callRows'[c].centre \in {callRows[c].centre, centre}
        /\ callRows'[c].status = callRows[c].status
        /\ \A d \in Calls : d # c => callRows'[d] = callRows[d]
    <3>1. UNCHANGED callRows \/ callRows' = [callRows EXCEPT ![c].centre = centre]
      BY <2>1 DEF Live!Attaches
    <3>2. CASE UNCHANGED callRows BY <1>0, <3>2 DEF LiveTyped
    <3>3. CASE callRows' = [callRows EXCEPT ![c].centre = centre]
      BY <1>0, <3>3 DEF LiveTyped, LiveRow
    <3> QED BY <3>1, <3>2, <3>3
  <2>4. session[c].centre = None /\ callRows[c].centre = None
    BY <1>0, <2>2 DEF OneCentre
  <2>5. c \notin board \/ scope = "all"
    BY <1>0, <2>4, PanelAssumption DEF InScope, LiveTyped
  <2>6. LiveTyped' BY <1>0, <1>a, <2>2, <2>3 DEF LiveTyped
  <2>7. OneCentre' BY <1>0, <2>2, <2>3, <2>4 DEF OneCentre
  <2>8. EventsTrue'
    <3> SUFFICES ASSUME NEW i \in DOMAIN queue
                 PROVE  EventTrue(i)'
      BY <2>2 DEF EventsTrue, EventTrue
    <3>1. CASE queue[i].call = c BY <1>0, <2>2, <3>1 DEF EventsTrue, EventTrue
    <3>2. CASE queue[i].call # c BY <1>0, <2>2, <3>2 DEF EventsTrue, EventTrue
    <3> QED BY <3>1, <3>2
  <2>9. InScope' BY <1>0, <1>a, <2>2, <2>5 DEF InScope, LiveTyped
  <2> QED BY <2>6, <2>7, <2>8, <2>9 DEF LiveInv
<1>5. CASE Live!Finalises(c)
  <2>1. /\ session' \in [Calls -> LiveSession] /\ session[c].pc \in {"started", "talking"}
        /\ session'[c].pc = "closing" /\ session'[c].centre = session[c].centre
        /\ \A d \in Calls : d # c => session'[d] = session[d]
    BY <1>0, <1>5 DEF Live!Finalises, LiveTyped, LiveSession
  <2>2. /\ callRows' \in [Calls -> LiveRow]
        /\ \A d \in Calls : callRows'[d].centre = callRows[d].centre
        /\ \A d \in Calls : d # c => callRows'[d] = callRows[d]
        /\ UNCHANGED <<queue, whole>>
    <3>1. UNCHANGED callRows \/ callRows' = [callRows EXCEPT ![c].status = "ended"]
      BY <1>5 DEF Live!Finalises
    <3>2. UNCHANGED <<queue, whole>> BY <1>5 DEF Live!Finalises
    <3>3. CASE UNCHANGED callRows BY <1>0, <3>2, <3>3 DEF LiveTyped
    <3>4. CASE callRows' = [callRows EXCEPT ![c].status = "ended"]
      BY <1>0, <3>2, <3>4 DEF LiveTyped, LiveRow
    <3> QED BY <3>1, <3>3, <3>4
  <2>3. LiveTyped' BY <1>0, <1>a, <2>1, <2>2 DEF LiveTyped
  <2>4. OneCentre' BY <1>0, <2>1, <2>2 DEF OneCentre, LiveTyped
  <2>5. EventsTrue'
    <3> SUFFICES ASSUME NEW i \in DOMAIN queue
                 PROVE  EventTrue(i)'
      BY <2>2 DEF EventsTrue, EventTrue
    <3>1. CASE queue[i].call = c BY <1>0, <2>1, <2>2, <3>1 DEF EventsTrue, EventTrue
    <3>2. CASE queue[i].call # c BY <1>0, <2>1, <2>2, <3>2 DEF EventsTrue, EventTrue
    <3> QED BY <3>1, <3>2
  <2>6. InScope' BY <1>0, <1>a, <2>1 DEF InScope, LiveTyped
  <2> QED BY <2>3, <2>4, <2>5, <2>6 DEF LiveInv
<1> QED BY <1>1, <1>2, <1>3, <1>4, <1>5 DEF Live!Speaks

\* Another call takes a place in the queue.
LEMMA LiveOthersTell ==
  ASSUME LiveInv, Live!OthersTell
  PROVE  LiveInv'
<1>0. LiveTyped /\ OneCentre /\ EventsTrue /\ InScope BY DEF LiveInv
<1>1. UNCHANGED <<scope, session, callRows, board, pending, whole>>
  BY DEF Live!OthersTell, Live!tab
<1> DEFINE e == [call |-> None, type |-> "turn", centre |-> Other]
<1>2. e \in Event /\ queue \in Seq(Event) BY <1>0 DEF Event, LiveTyped
<1>3. queue' = Append(queue, e) BY DEF Live!OthersTell
<1>4. /\ queue' \in Seq(Event) /\ Len(queue) \in Nat
      /\ DOMAIN queue = 1..Len(queue) /\ DOMAIN queue' = 1..(Len(queue) + 1)
      /\ queue'[Len(queue) + 1] = e
      /\ \A i \in 1..Len(queue) : queue'[i] = queue[i]
  <2> HIDE DEF e
  <2> QED BY <1>2, <1>3, Appending
<1>5. LiveTyped' BY <1>0, <1>1, <1>4 DEF LiveTyped
<1>6. OneCentre' BY <1>0, <1>1 DEF OneCentre
<1>7. InScope' BY <1>0, <1>1 DEF InScope
<1>8. EventsTrue'
  <2>1. e.call \notin Calls /\ e.centre = Other /\ e.type = "turn" BY PanelAssumption
  <2>2. \A i \in DOMAIN queue' : i \in DOMAIN queue \/ i = Len(queue) + 1 BY <1>4
  <2> HIDE DEF e
  <2> QED BY <1>0, <1>1, <1>4, <2>1, <2>2 DEF EventsTrue, EventTrue
<1> QED BY <1>5, <1>6, <1>7, <1>8 DEF LiveInv

\* The worker's calls are over, and its queue is gone.
LEMMA LiveDies ==
  ASSUME LiveInv, Live!WorkerDies
  PROVE  LiveInv'
<1>0. LiveTyped /\ OneCentre /\ EventsTrue /\ InScope BY DEF LiveInv
<1>1. /\ UNCHANGED <<scope, callRows, board, pending>> /\ queue' = <<>>
      /\ whole' \subseteq whole
  BY DEF Live!WorkerDies, Live!tab
<1>2. /\ session' \in [Calls -> LiveSession]
      /\ \A c \in Calls : /\ session'[c].centre = session[c].centre
                          /\ session'[c].pc \in {session[c].pc, "over"}
                          /\ session[c].pc = "none" <=> session'[c].pc = "none"
  <2>1. session' = [c \in Calls |-> IF session[c].pc = "none" THEN session[c]
                                   ELSE [session[c] EXCEPT !.pc = "over"]]
                                     BY DEF Live!WorkerDies
  <2> SUFFICES ASSUME NEW c \in Calls
               PROVE  /\ session'[c] \in LiveSession /\
                            session'[c].centre = session[c].centre
                      /\ session'[c].pc \in {session[c].pc, "over"}
                      /\ session[c].pc = "none" <=> session'[c].pc = "none"
    BY <2>1
  <2>2. session[c] \in LiveSession BY <1>0 DEF LiveTyped
  <2>3. session'[c] = IF session[c].pc =
           "none" THEN session[c] ELSE [session[c] EXCEPT !.pc = "over"]
    BY <2>1
  <2> QED BY <2>2, <2>3 DEF LiveSession
<1>3. LiveTyped' BY <1>0, <1>1, <1>2 DEF LiveTyped
<1>4. OneCentre' BY <1>0, <1>1, <1>2 DEF OneCentre
<1>5. InScope' BY <1>0, <1>1, <1>2 DEF InScope, LiveTyped
<1>6. EventsTrue' BY <1>1 DEF EventsTrue, EventTrue
<1> QED BY <1>3, <1>4, <1>5, <1>6 DEF LiveInv

\* A snapshot shows rows of the viewer's centre only.
LEMMA LiveOpens ==
  ASSUME LiveInv, Live!Opens
  PROVE  LiveInv'
<1>0. LiveTyped /\ OneCentre /\ EventsTrue /\ InScope BY DEF LiveInv
<1>1. /\ UNCHANGED <<scope, session, callRows, queue>> /\ pending' = {}
      /\ board' = {c \in Calls :
            callRows[c].status = "in_progress" /\ Live!Visible(callRows[c].centre)}
      /\ whole' \subseteq Calls
  BY DEF Live!Opens
<1>2. LiveTyped' BY <1>0, <1>1 DEF LiveTyped
<1>3. OneCentre' /\ EventsTrue' BY <1>0, <1>1 DEF OneCentre, EventsTrue, EventTrue
<1>4. InScope' BY <1>0, <1>1, PanelAssumption DEF InScope, Live!Visible, OneCentre
<1> QED BY <1>2, <1>3, <1>4 DEF LiveInv

\* The tail of the queue tells the truth as the queue does.
LEMMA ShorterTruth ==
  ASSUME LiveTyped, EventsTrue, queue # <<>>, queue' = Tail(queue), UNCHANGED session
  PROVE  EventsTrue' /\ queue' \in Seq(Event)
<1>1. /\ queue' \in Seq(Event) /\ Len(queue) \in Nat /\ DOMAIN queue = 1..Len(queue)
      /\ DOMAIN queue' = 1..(Len(queue) - 1)
      /\ \A i \in 1..(Len(queue) - 1) : queue'[i] = queue[i + 1]
  BY Taking DEF LiveTyped
<1>2. \A i \in DOMAIN queue' :
         i + 1 \in DOMAIN queue /\ queue'[i] = queue[i + 1] /\ i \in Nat
  BY <1>1
<1>3. \A i, j \in Nat : (i + 1 <= j + 1 <=> i <= j) OBVIOUS
<1>4. EventsTrue'
  <2> SUFFICES ASSUME NEW i \in DOMAIN queue'
               PROVE  EventTrue(i)'
    BY DEF EventsTrue, EventTrue
  <2> DEFINE e == queue[i + 1]
  <2>1. queue'[i] = e /\ i + 1 \in DOMAIN queue /\ i \in Nat BY <1>2
  <2>2. \A j \in DOMAIN queue' : queue'[j].call = e.call =>
            (e.type = "ended" => j + 1 <= i + 1) /\ (e.type = "started" => i + 1 <= j + 1)
    BY <1>2, <2>1 DEF EventsTrue, EventTrue
  <2>3. \A j \in DOMAIN queue' : queue'[j].call = e.call =>
            (e.type = "ended" => j <= i) /\ (e.type = "started" => i <= j)
    <3> SUFFICES ASSUME NEW j \in DOMAIN queue', queue'[j].call = e.call
                 PROVE  (e.type = "ended" => j <= i) /\ (e.type = "started" => i <= j)
      OBVIOUS
    <3>1. /\ j \in Nat
          /\ (e.type = "ended" => j + 1 <= i + 1)
          /\ (e.type = "started" => i + 1 <= j + 1)
      BY <1>2, <2>2
    <3> HIDE DEF e
    <3> QED BY <2>1, <3>1
  <2>4. /\ e.call \notin Calls => e.centre = Other /\ e.type = "turn"
        /\ e.call \in Calls =>
            /\ e.centre = IF e.type = "started" THEN None ELSE session[e.call].centre
            /\ session[e.call].pc \notin {"none", "created"}
            /\ session[e.call].pc \in {"started", "attached"} => e.type = "started"
            /\ e.type = "ended" => session[e.call].pc = "over"
    BY <2>1 DEF EventsTrue, EventTrue
  <2> HIDE DEF e
  <2> QED BY <2>1, <2>3, <2>4 DEF EventTrue
<1> QED BY <1>1, <1>4

\* What an event does to the board.
LEMMA Showing ==
  ASSUME NEW e \in Event, NEW shown
  PROVE  Live!Applied(shown, e.call, Live!Accepted(e)) =
            IF Live!Withheld(e) \/ ~Live!Visible(e.centre) THEN shown
            ELSE IF e.type = "ended" THEN shown \ {e.call}
            ELSE IF e.type = "started" \/ e.call \in pending THEN shown \cup {e.call}
            ELSE shown
<1> DEFINE types == Live!Accepted(e)
           told == {types[i] : i \in DOMAIN types}
<1>1. CASE Live!Withheld(e) \/ ~Live!Visible(e.centre)
  <2>1. types = <<>> BY <1>1 DEF Live!Accepted
  <2>2. told = {} BY <2>1
  <2> QED BY <1>1, <2>2 DEF Live!Applied
<1>2. CASE ~(Live!Withheld(e) \/ ~Live!Visible(e.centre)) /\ e.call \in pending
  <2>1. types = <<"started">> \o <<e.type>> BY <1>2 DEF Live!Accepted
  <2>2. <<"started">> \in Seq({"started", "identified", "turn", "ended"})
        /\ <<e.type>> \in Seq({"started", "identified", "turn", "ended"}) BY DEF Event
  <2>3. told = {"started", e.type}
    <3> HIDE DEF types
    <3>1. /\ types \in Seq({"started", "identified", "turn", "ended"}) /\ Len(types) = 2
          /\ types[1] = "started" /\ types[2] = e.type
      BY <2>1, <2>2
    <3>2. DOMAIN types = {1, 2} BY <3>1
    <3> QED BY <3>1, <3>2
  <2> QED BY <1>2, <2>3 DEF Live!Applied
<1>3. CASE ~(Live!Withheld(e) \/ ~Live!Visible(e.centre)) /\ e.call \notin pending
  <2>1. types = <<>> \o <<e.type>> BY <1>3 DEF Live!Accepted
  <2>2. types = <<e.type>> BY <2>1
  <2>3. told = {e.type}
    <3> HIDE DEF types
    <3> QED BY <2>2
  <2> QED BY <1>3, <2>3 DEF Live!Applied
<1> QED BY <1>1, <1>2, <1>3

\* An event is sent, and shown if it may be.
LEMMA LiveSends ==
  ASSUME LiveInv, Live!Sends
  PROVE  LiveInv'
<1>0. LiveTyped /\ OneCentre /\ EventsTrue /\ InScope BY DEF LiveInv
<1> DEFINE e == Head(queue)
<1>1. UNCHANGED <<scope, session, callRows>> /\ queue # <<>> /\ queue' = Tail(queue)
  BY DEF Live!Sends
<1>2. e \in Event /\ e = queue[1] /\ 1 \in DOMAIN queue
  BY <1>0, <1>1, Taking DEF LiveTyped
<1>3. EventsTrue' /\ queue' \in Seq(Event) BY <1>0, <1>1, ShorterTruth
<1>4. /\ e.call \notin Calls => e.centre = Other /\ e.type = "turn"
      /\ e.call \in Calls =>
            e.centre = IF e.type = "started" THEN None ELSE session[e.call].centre
  BY <1>0, <1>2 DEF EventsTrue, EventTrue
<1>5. whole' \subseteq whole BY DEF Live!Sends
<1>6. \/ UNCHANGED <<board, pending>>
      \/ board' = Live!Applied(board, e.call, Live!Accepted(e)) /\
            pending' = Live!StillPending(e)
  BY DEF Live!Sends
<1>7. \/ UNCHANGED board
      \/ board' = board \ {e.call}
      \/ board' = board \cup {e.call} /\ ~Live!Withheld(e) /\ Live!Visible(e.centre)
         /\ (e.type = "started" \/ e.call \in pending)
  <2> HIDE DEF e
  <2> QED BY <1>2, <1>6, Showing
<1>8. board' \subseteq Calls BY <1>0, <1>4, <1>7 DEF LiveTyped
<1>9. pending' \subseteq Calls
  BY <1>0, <1>4, <1>6 DEF LiveTyped, Live!StillPending, Live!Withheld
<1>10. LiveTyped' BY <1>0, <1>1, <1>3, <1>5, <1>8, <1>9 DEF LiveTyped
<1>11. OneCentre' BY <1>0, <1>1 DEF OneCentre
<1>12. InScope'
  BY <1>0, <1>1, <1>2, <1>4, <1>7, PanelAssumption
     DEF InScope, Live!Withheld, Live!Visible
<1> QED BY <1>3, <1>10, <1>11, <1>12 DEF LiveInv

\* Every step keeps the invariant.
LEMMA LiveStep ==
  ASSUME LiveInv, [Live!Next]_(Live!vars)
  PROVE  LiveInv'
<1>1. CASE Live!Subscribes \/ Live!Ends \/ UNCHANGED Live!vars
  BY <1>1 DEF Live!Subscribes, Live!Ends, Live!vars, Live!tab, LiveInv, LiveTyped,
     OneCentre, EventsTrue, EventTrue, InScope
<1>2. CASE Live!CannotSend
  <2>0. LiveTyped /\ OneCentre /\ EventsTrue /\ InScope BY DEF LiveInv
  <2>1. /\ UNCHANGED <<scope, session, callRows, board, pending>>
        /\ queue # <<>> /\ queue' = Tail(queue) /\ whole' \subseteq whole
    BY <1>2 DEF Live!CannotSend, Live!tab
  <2>2. EventsTrue' /\ queue' \in Seq(Event) BY <2>0, <2>1, ShorterTruth
  <2> QED BY <2>0, <2>1, <2>2 DEF LiveInv, LiveTyped, OneCentre, InScope
<1> QED
  BY <1>1, <1>2, LiveSpeaks, LiveOthersTell, LiveDies, LiveOpens, LiveSends
     DEF Live!Next


\* An event of the call waits.
Told(c, type) == \E i \in DOMAIN queue : queue[i].call = c /\ queue[i].type = type

\* What the board still lacks of a call that the stream has had all of, waits.
Fits(c) ==
    /\ session[c].pc = "none" => c \notin board /\ c \notin pending
    /\ scope = "all" /\ session[c].pc \in {"started", "attached", "talking"} =>
          c \in board \/ Told(c, "started")
    /\ scope = "own" /\ session[c].pc = "started" => c \in pending \/ Told(c, "started")
    /\ scope = "own" /\ session[c].pc = "attached" /\ session[c].centre = Own =>
          c \in board \/ c \in pending \/ Told(c, "started")
    /\ scope = "own" /\ session[c].pc = "talking" /\ session[c].centre = Own =>
          c \in board \/ ((c \in pending \/ Told(c, "started")) /\ Told(c, "identified"))
    /\ session[c].pc = "over" =>
          Told(c, "ended") \/ (c \notin board /\ \A i \in DOMAIN queue : queue[i].call # c)

\* Which is so for every call that is whole, while a stream is open.
BoardInv ==
    /\ LiveInv
    /\ stream # "away" => \A c \in whole : Fits(c)

\* What waits once an event has been queued.
LEMMA QueueLonger ==
  ASSUME LiveTyped, NEW e \in Event, queue' \in Seq(Event),
         DOMAIN queue' = 1..(Len(queue) + 1), DOMAIN queue = 1..Len(queue),
         queue'[Len(queue) + 1] = e, \A i \in DOMAIN queue : queue'[i] = queue[i],
            Len(queue) \in Nat
  PROVE  /\ \A d, t : Told(d, t)' <=> Told(d, t) \/ (d = e.call /\ t = e.type)
         /\ \A d : d # e.call => ((\A i \in DOMAIN queue : queue[i].call # d) =>
               (\A i \in DOMAIN queue' : queue'[i].call # d))
<1>1. \A i \in DOMAIN queue' : i \in DOMAIN queue \/ i = Len(queue) + 1 OBVIOUS
<1>2. \A i \in DOMAIN queue : i \in DOMAIN queue' OBVIOUS
<1>3. Len(queue) + 1 \in DOMAIN queue' OBVIOUS
<1> QED BY <1>1, <1>2, <1>3 DEF Told

\* What waits once the oldest event has been taken.
LEMMA QueueShorter ==
  ASSUME LiveTyped, EventsTrue, queue # <<>>, queue' = Tail(queue)
  PROVE  /\ \A d,
               t : Told(d, t) <=>
                  Told(d, t)' \/ (d = Head(queue).call /\ t = Head(queue).type)
         /\ \A d : d # Head(queue).call => ((\A i \in DOMAIN queue : queue[i].call # d) =>
               (\A i \in DOMAIN queue' : queue'[i].call # d))
         /\ Head(queue).call \in Calls => (Head(queue).type # "started" =>
               ~Told(Head(queue).call, "started"))
         /\ Head(queue).call \in Calls => (Head(queue).type = "ended" =>
               \A i \in DOMAIN queue' : queue'[i].call # Head(queue).call)
<1> DEFINE e == Head(queue)
<1>1. /\ queue' \in Seq(Event) /\ Len(queue) \in Nat /\ Len(queue) >= 1
      /\ DOMAIN queue = 1..Len(queue)
      /\ DOMAIN queue' = 1..(Len(queue) - 1)
      /\ \A i \in 1..(Len(queue) - 1) : queue'[i] = queue[i + 1]
      /\ e = queue[1]
  BY Taking DEF LiveTyped
<1> HIDE DEF e
<1>2. \A i \in DOMAIN queue' :
         i + 1 \in DOMAIN queue /\ queue'[i] = queue[i + 1] /\ i \in Nat /\ ~(i + 1 <= 1)
  BY <1>1
<1>3. \A i \in DOMAIN queue : i = 1 \/ (i - 1 \in DOMAIN queue' /\ queue'[i - 1] = queue[i])
  BY <1>1
<1>4. 1 \in DOMAIN queue /\ \A i \in DOMAIN queue : i <= 1 => i = 1 BY <1>1
<1>5. \A d, t : Told(d, t) <=> Told(d, t)' \/ (d = e.call /\ t = e.type)
  <2> TAKE d, t
  <2>1. ASSUME Told(d, t) PROVE Told(d, t)' \/ (d = e.call /\ t = e.type)
    <3>1. PICK i \in DOMAIN queue : queue[i].call = d /\ queue[i].type = t
      BY <2>1 DEF Told
    <3>2. CASE i = 1 BY <1>1, <3>1, <3>2
    <3>3. CASE i # 1 BY <1>3, <3>1, <3>3 DEF Told
    <3> QED BY <3>2, <3>3
  <2>2. ASSUME Told(d, t)' PROVE Told(d, t) BY <1>2, <2>2 DEF Told
  <2>3. ASSUME d = e.call, t = e.type PROVE Told(d, t) BY <1>1, <1>4, <2>3 DEF Told
  <2> QED BY <2>1, <2>2, <2>3
<1>6. \A d : d # e.call => ((\A i \in DOMAIN queue : queue[i].call # d) =>
         (\A i \in DOMAIN queue' : queue'[i].call # d))
  BY <1>2
<1>7. e.call \in Calls => (e.type # "started" => ~Told(e.call, "started"))
  <2> SUFFICES ASSUME e.call \in Calls, e.type # "started", NEW i \in DOMAIN queue,
                      queue[i].call = e.call, queue[i].type = "started"
               PROVE  FALSE
    BY DEF Told
  <2>1. i <= 1 BY <1>1, <1>4 DEF EventsTrue, EventTrue
  <2> QED BY <1>1, <1>4, <2>1
<1>8. e.call \in Calls => (e.type = "ended" =>
         \A i \in DOMAIN queue' : queue'[i].call # e.call)
  <2> SUFFICES ASSUME e.call \in Calls, e.type = "ended", NEW i \in DOMAIN queue',
                      queue'[i].call = e.call
               PROVE  FALSE
    OBVIOUS
  <2>1. i + 1 \in DOMAIN queue /\ queue[i + 1].call = queue[1].call BY <1>1, <1>2
  <2>2. i + 1 <= 1 BY <1>1, <1>4, <2>1 DEF EventsTrue, EventTrue
  <2> QED BY <1>2, <2>2
<1> QED BY <1>5, <1>6, <1>7, <1>8 DEF e

\* A step that leaves a call and what waits of it as they are.
LEMMA StillFits ==
  ASSUME NEW d \in Calls, Fits(d), session'[d] = session[d], UNCHANGED scope,
         d \in board' <=> d \in board, d \in pending' <=> d \in pending,
         \A t : Told(d, t) => Told(d, t)',
         (\A i \in DOMAIN queue : queue[i].call # d) =>
            (\A i \in DOMAIN queue' : queue'[i].call # d)
  PROVE  Fits(d)'
  BY DEF Fits

\* What a session does to its row, it tells.
LEMMA BoardSpeaks ==
  ASSUME BoardInv, NEW c \in Calls, Live!Speaks(c)
  PROVE  BoardInv'
<1>0. LiveTyped /\ OneCentre /\ EventsTrue /\ InScope BY DEF BoardInv, LiveInv
<1>a. UNCHANGED <<scope, stream, pending, board>>
  BY DEF Live!Speaks, Live!Creates, Live!CannotCreate, Live!TellsStart, Live!Attaches,
     Live!TellsWho, Live!TellsTurn, Live!Finalises, Live!TellsEnd, Live!tab
<1>b. LiveInv' BY LiveSpeaks DEF BoardInv
<1> SUFFICES ASSUME stream # "away", NEW d \in whole' PROVE Fits(d)'
  BY <1>a, <1>b DEF BoardInv
<1>1. CASE Live!Creates(c) \/ Live!CannotCreate(c) \/ Live!Finalises(c) \/
              \E centre \in {Own, Other, None} : Live!Attaches(c, centre)
  <2>1. UNCHANGED <<queue, whole>>
    BY <1>1 DEF Live!Creates, Live!CannotCreate, Live!Finalises, Live!Attaches
  <2>2. d \in Calls /\ Fits(d) BY <1>0, <2>1 DEF BoardInv, LiveTyped
  <2>3. \A x \in Calls : x # c => session'[x] = session[x]
    BY <1>0, <1>1 DEF Live!Creates, Live!CannotCreate, Live!Finalises, Live!Attaches,
       Live!Moves, LiveTyped
  <2>4. \A x, t : Told(x, t)' <=> Told(x, t) BY <2>1 DEF Told
  <2>5. CASE d # c BY <1>a, <2>1, <2>2, <2>3, <2>4, <2>5, StillFits
  <2>6. CASE d = c
    <3>1. \/ session'[c].pc \in {"created", "closing"}
          \/ session[c].pc = "started" /\ session'[c].pc = "attached"
      <4>1. c \in DOMAIN session /\ session[c] \in LiveSession BY <1>0 DEF LiveTyped
      <4> QED
        BY <1>1, <4>1 DEF Live!Creates, Live!CannotCreate, Live!Finalises,
           Live!Attaches, Live!Moves, LiveSession
    <3>2. CASE session'[c].pc \in {"created", "closing"} BY <2>6, <3>2 DEF Fits
    <3>3. CASE session[c].pc = "started" /\ session'[c].pc = "attached"
      <4>1. /\ (scope = "all" => c \in board \/ Told(c, "started"))
            /\ (scope = "own" => c \in pending \/ Told(c, "started"))
        BY <2>2, <2>6, <3>3 DEF Fits
      <4> QED BY <1>a, <2>4, <2>6, <3>3, <4>1 DEF Fits
    <3> QED BY <3>1, <3>2, <3>3
  <2> QED BY <2>5, <2>6
<1>2. CASE Live!TellsStart(c) \/ Live!TellsWho(c) \/ Live!TellsTurn(c) \/ Live!TellsEnd(c)
  <2>1. PICK type \in {"started", "identified", "turn", "ended"},
             centre \in {Own, Other, None} :
          /\ session'[c].centre = session[c].centre
          /\ \A x \in Calls : x # c => session'[x] = session[x]
          /\ Live!Publishes(c, type, centre)
          /\ \/ session'[c].pc = "started" /\ type = "started"
             \/ session[c].pc = "attached" /\ session'[c].pc = "talking" /\
                   type = "identified"
             \/ session[c].pc = "talking" /\ session'[c].pc = "talking" /\ type = "turn"
             \/ session'[c].pc = "over" /\ type = "ended"
    <3>1. CASE Live!TellsStart(c) BY <1>0, <3>1, SessionMoves DEF Live!TellsStart
    <3>2. CASE Live!TellsWho(c)
      <4>1. session[c].centre \in {Own, Other, None} BY <1>0 DEF LiveTyped, LiveSession
      <4> QED BY <1>0, <3>2, <4>1, SessionMoves DEF Live!TellsWho
    <3>3. CASE Live!TellsEnd(c)
      <4>1. session[c].centre \in {Own, Other, None} BY <1>0 DEF LiveTyped, LiveSession
      <4> QED BY <1>0, <3>3, <4>1, SessionMoves DEF Live!TellsEnd
    <3>4. CASE Live!TellsTurn(c)
      <4>1. session[c].centre \in {Own, Other, None} BY <1>0 DEF LiveTyped, LiveSession
      <4>2. session'[c].pc = "talking" /\ session'[c].centre = session[c].centre
            /\ \A x \in Calls : x # c => session'[x] = session[x]
        BY <1>0, <3>4, <4>1 DEF Live!TellsTurn, LiveTyped, LiveSession
      <4> QED BY <3>4, <4>1, <4>2 DEF Live!TellsTurn
    <3> QED BY <1>2, <3>1, <3>2, <3>3, <3>4
  <2>2. /\ whole' \subseteq whole
        /\ \/ UNCHANGED queue /\ whole' = whole \ {c}
           \/ /\ queue' \in Seq(Event) /\ DOMAIN queue' = 1..(Len(queue) + 1) /\
                    DOMAIN queue = 1..Len(queue)
              /\ queue'[Len(queue) + 1] = [call |-> c, type |-> type, centre |-> centre]
              /\ \A i \in DOMAIN queue : queue'[i] = queue[i]
              /\ UNCHANGED whole
        /\ Len(queue) \in Nat
    BY <1>0, <2>1, Telling
  <2>3. d \in Calls /\ Fits(d) BY <1>0, <2>2 DEF BoardInv, LiveTyped
  <2>4. CASE UNCHANGED queue /\ whole' = whole \ {c}
    <3>1. d # c BY <2>4
    <3>2. \A x, t : Told(x, t)' <=> Told(x, t) BY <2>4 DEF Told
    <3> QED BY <1>a, <2>1, <2>3, <2>4, <3>1, <3>2, StillFits
  <2>5. CASE /\ queue' \in Seq(Event) /\ DOMAIN queue' = 1..(Len(queue) + 1) /\
                   DOMAIN queue = 1..Len(queue)
             /\ queue'[Len(queue) + 1] = [call |-> c, type |-> type, centre |-> centre]
             /\ \A i \in DOMAIN queue : queue'[i] = queue[i]
    <3> DEFINE e == [call |-> c, type |-> type, centre |-> centre]
    <3>1. e \in Event /\ e.call = c /\ e.type = type BY DEF Event
    <3>2. /\ \A x, t : Told(x, t)' <=> Told(x, t) \/ (x = c /\ t = type)
          /\ \A x : x # c => ((\A i \in DOMAIN queue : queue[i].call # x) =>
                (\A i \in DOMAIN queue' : queue'[i].call # x))
      <4> HIDE DEF e
      <4>1. queue'[Len(queue) + 1] = e BY <2>5 DEF e
      <4> QED BY <1>0, <2>2, <2>5, <3>1, <4>1, QueueLonger
    <3>3. CASE d # c BY <1>a, <2>1, <2>3, <3>2, <3>3, StillFits
    <3>4. CASE d = c BY <1>a, <2>1, <2>3, <3>2, <3>4 DEF Fits
    <3> QED BY <3>3, <3>4
  <2> QED BY <2>2, <2>4, <2>5
<1> QED BY <1>1, <1>2 DEF Live!Speaks

\* A snapshot has all of a call, or the call is not whole.
LEMMA BoardOpens ==
  ASSUME BoardInv, Live!Opens
  PROVE  BoardInv'
<1>0. LiveTyped /\ OneCentre /\ EventsTrue /\ InScope BY DEF BoardInv, LiveInv
<1>1. LiveInv' BY LiveOpens DEF BoardInv
<1>2. /\ UNCHANGED <<scope, session, callRows, queue>> /\ pending' = {}
      /\ board' = {c \in Calls :
            callRows[c].status = "in_progress" /\ Live!Visible(callRows[c].centre)}
      /\ whole' = {c \in Calls :
            ~Live!Headless(c) /\ (Live!Begun(c) => (c \in board' <=> Live!GoingOn(c)))}
  BY DEF Live!Opens
<1> SUFFICES ASSUME NEW c \in whole' PROVE Fits(c)'
  BY <1>1 DEF BoardInv
<1>3. /\ c \in Calls /\ ~Live!Headless(c)
      /\ (Live!Begun(c) => (c \in board' <=> Live!GoingOn(c)))
  BY <1>2
<1>4. \A t : Told(c, t)' <=> Told(c, t) BY <1>2 DEF Told
<1>5. CASE session[c].pc = "none"
  <2>1. callRows[c].status = "none" BY <1>0, <1>3, <1>5 DEF OneCentre
  <2> QED BY <1>2, <1>3, <1>5, <2>1 DEF Fits
<1>6. CASE session[c].pc = "over"
  <2>1. c \notin board' BY <1>3, <1>6 DEF Live!Begun, Live!GoingOn
  <2>2. Told(c, "ended") \/ \A i \in DOMAIN queue : queue[i].call # c
    BY <1>3, <1>6 DEF Live!Headless, Told
  <2> QED BY <1>2, <1>4, <1>6, <2>1, <2>2 DEF Fits
<1>7. CASE session[c].pc \in {"created", "closing"} BY <1>2, <1>7 DEF Fits
<1>8. CASE session[c].pc \in {"started", "attached", "talking"}
  <2>1. c \in board' BY <1>3, <1>8 DEF Live!Begun, Live!GoingOn
  <2>2. scope = "own" => session[c].pc # "started"
    BY <1>0, <1>2, <1>3, <2>1, PanelAssumption DEF OneCentre, Live!Visible
  <2> QED BY <1>2, <1>8, <2>1, <2>2 DEF Fits
<1>9. session[c].pc \in
         {"none", "created", "started", "attached", "talking", "closing", "over"}
  BY <1>0, <1>3 DEF LiveTyped, LiveSession
<1> QED BY <1>5, <1>6, <1>7, <1>8, <1>9

\* What an event tells is on the board once it is sent.
LEMMA BoardSends ==
  ASSUME BoardInv, Live!Sends \/ Live!CannotSend
  PROVE  BoardInv'
<1>0. LiveTyped /\ OneCentre /\ EventsTrue /\ InScope BY DEF BoardInv, LiveInv
<1> DEFINE e == Head(queue)
<1>1. UNCHANGED <<scope, session, callRows, stream>> /\ queue # <<>> /\ queue' = Tail(queue)
  BY DEF Live!Sends, Live!CannotSend, Live!tab
<1>2. e \in Event /\ e = queue[1] /\ 1 \in DOMAIN queue
  BY <1>0, <1>1, Taking DEF LiveTyped
<1>3. LiveInv' 
  <2>1. [Live!Next]_(Live!vars) BY DEF Live!Next
  <2> QED BY <2>1, LiveStep DEF BoardInv
<1>4. /\ \A d, t : Told(d, t) <=> Told(d, t)' \/ (d = e.call /\ t = e.type)
      /\ \A d : d # e.call => ((\A i \in DOMAIN queue : queue[i].call # d) =>
            (\A i \in DOMAIN queue' : queue'[i].call # d))
      /\ e.call \in Calls => (e.type # "started" => ~Told(e.call, "started"))
      /\ e.call \in Calls => (e.type = "ended" =>
            \A i \in DOMAIN queue' : queue'[i].call # e.call)
  BY <1>0, <1>1, QueueShorter
<1>5. \/ UNCHANGED <<board, pending>> /\ whole' = whole \ {e.call}
      \/ board' = Live!Applied(board, e.call, Live!Accepted(e)) /\
            pending' = Live!StillPending(e) /\ UNCHANGED whole
  BY DEF Live!Sends, Live!CannotSend, Live!tab
<1>6. e.call \in Calls =>
            /\ e.centre = IF e.type = "started" THEN None ELSE session[e.call].centre
            /\ session[e.call].pc \notin {"none", "created"}
            /\ session[e.call].pc \in {"started", "attached"} => e.type = "started"
            /\ e.type = "ended" => session[e.call].pc = "over"
  BY <1>0, <1>2 DEF EventsTrue, EventTrue
<1>7. e.type \in {"started", "identified", "turn", "ended"} BY <1>2 DEF Event
<1> SUFFICES ASSUME stream # "away", NEW c \in whole' PROVE Fits(c)'
  BY <1>1, <1>3 DEF BoardInv
<1>8. c \in Calls /\ c \in whole /\ Fits(c)
  BY <1>0, <1>1, <1>5 DEF BoardInv, LiveTyped
<1>9. CASE c # e.call
  <2>1. \A t : Told(c, t)' <=> Told(c, t) BY <1>4, <1>9
  <2>2. (c \in board' <=> c \in board) /\ (c \in pending' <=> c \in pending)
    <3>1. CASE UNCHANGED <<board, pending>> BY <3>1
    <3>2. CASE /\ board' = Live!Applied(board, e.call, Live!Accepted(e))
               /\ pending' = Live!StillPending(e)
      <4> HIDE DEF e
      <4>0. board' = IF Live!Withheld(e) \/ ~Live!Visible(e.centre) THEN board
                     ELSE IF e.type = "ended" THEN board \ {e.call}
                     ELSE IF e.type = "started" \/
                        e.call \in pending THEN board \cup {e.call}
                     ELSE board
        BY <1>2, <3>2, Showing
      <4>1. c \in board' <=> c \in board BY <1>9, <4>0
      <4>2. c \in pending' <=> c \in pending BY <1>9, <3>2 DEF Live!StillPending
      <4> QED BY <4>1, <4>2
    <3> QED BY <1>5, <3>1, <3>2
  <2> HIDE DEF e
  <2> QED BY <1>1, <1>4, <1>8, <1>9, <2>1, <2>2, StillFits
<1>10. CASE c = e.call
  <2>0. /\ board' = Live!Applied(board, e.call, Live!Accepted(e))
        /\ pending' = Live!StillPending(e)
    BY <1>5, <1>10
  <2> HIDE DEF e
  <2>1. board' = IF Live!Withheld(e) \/ ~Live!Visible(e.centre) THEN board
                 ELSE IF e.type = "ended" THEN board \ {e.call}
                 ELSE IF e.type = "started" \/ e.call \in pending THEN board \cup {e.call}
                 ELSE board
    BY <1>2, <2>0, Showing
  <2>2. scope \in {"all", "own"} BY <1>0 DEF LiveTyped
  <2>3. CASE e.type = "started"
    <3>1. scope = "all" => c \in board'
      BY <1>10, <2>1, <2>3 DEF Live!Withheld, Live!Visible
    <3>2. scope = "own" => c \in pending' /\ UNCHANGED board
      BY <1>10, <2>0, <2>1, <2>3 DEF Live!Withheld, Live!StillPending
    <3>3. Told(c, "ended")' <=> Told(c, "ended") BY <1>4, <2>3
    <3>4. Told(c, "identified")' <=> Told(c, "identified") BY <1>4, <2>3
    <3>5. \E i \in DOMAIN queue : queue[i].call = c BY <1>2, <1>10
    <3>6. session[c].pc = "over" => Told(c, "ended")' BY <1>8, <3>3, <3>5 DEF Fits
    <3>7. session[c].pc # "none" BY <1>6, <1>8, <1>10
    <3>8. scope = "own" /\ session[c].pc = "talking" /\ session[c].centre = Own =>
             c \in board' \/ (c \in pending' /\ Told(c, "identified")')
      BY <1>8, <3>2, <3>4 DEF Fits
    <3> QED BY <1>1, <2>2, <3>1, <3>2, <3>6, <3>7, <3>8 DEF Fits
  <2>4. CASE e.type \in {"identified", "turn"}
    <3>1. session[c].pc \notin {"none", "created", "started", "attached"}
      BY <1>6, <1>8, <1>10, <2>4
    <3>2. ~Told(c, "started") /\ ~Live!Withheld(e) /\ e.centre = session[c].centre
      BY <1>4, <1>6, <1>8, <1>10, <2>4 DEF Live!Withheld
    <3>3. session[c].pc = "over" => Told(c, "ended")'
      <4>1. \E i \in DOMAIN queue : queue[i].call = c BY <1>2, <1>10
      <4> QED BY <1>4, <1>8, <2>4, <4>1 DEF Fits
    <3>4. scope = "all" /\ session[c].pc = "talking" => c \in board'
      BY <1>8, <2>1, <2>4, <3>2 DEF Fits
    <3>5. scope = "own" /\ session[c].pc = "talking" /\ session[c].centre = Own =>
             c \in board'
      BY <1>8, <1>10, <2>1, <2>4, <3>2 DEF Fits, Live!Visible
    <3> QED BY <1>1, <3>1, <3>3, <3>4, <3>5 DEF Fits
  <2>5. CASE e.type = "ended"
    <3>1. session[c].pc = "over" /\ e.centre = session[c].centre
      BY <1>6, <1>8, <1>10, <2>5
    <3>2. \A i \in DOMAIN queue' : queue'[i].call # c BY <1>4, <1>8, <1>10, <2>5
    <3>3. c \notin board'
      BY <1>0, <1>10, <2>1, <2>2, <2>5, <3>1 DEF Live!Withheld, Live!Visible, InScope
    <3> QED BY <1>1, <3>1, <3>2, <3>3 DEF Fits
  <2> QED BY <1>7, <2>3, <2>4, <2>5
<1> QED BY <1>9, <1>10

\* Every step keeps it.
LEMMA BoardStep ==
  ASSUME BoardInv, [Live!Next]_(Live!vars)
  PROVE  BoardInv'
<1>0. LiveInv' BY LiveStep DEF BoardInv
<1>1. CASE Live!Subscribes \/ Live!Ends \/ UNCHANGED Live!vars
  <2>1. /\ UNCHANGED <<scope, session, queue, pending, board, whole>>
        /\ (stream' # "away" => stream # "away")
    BY <1>1 DEF Live!Subscribes, Live!Ends, Live!vars, Live!tab
  <2> QED BY <1>0, <2>1 DEF BoardInv, Fits, Told
<1>2. CASE Live!WorkerDies
  <2>1. /\ UNCHANGED <<scope, stream, pending, board>>
        /\ whole' = {c \in whole : session[c].pc = "none"}
    BY <1>2 DEF Live!WorkerDies, Live!tab
  <2>2. \A c \in Calls : session[c].pc = "none" => session'[c] = session[c]
    BY <1>2 DEF Live!WorkerDies
  <2>3. whole \subseteq Calls BY DEF BoardInv, LiveInv, LiveTyped
  <2> SUFFICES ASSUME stream # "away", NEW c \in whole' PROVE Fits(c)'
    BY <1>0, <2>1 DEF BoardInv
  <2>4. Fits(c) /\ session'[c].pc = "none" /\ session[c].pc = "none"
    BY <2>1, <2>2, <2>3 DEF BoardInv
  <2> QED BY <2>1, <2>4 DEF Fits
<1>3. CASE Live!OthersTell
  <2>1. UNCHANGED <<scope, session, stream, board, pending, whole>>
    BY <1>3 DEF Live!OthersTell, Live!tab
  <2> DEFINE e == [call |-> None, type |-> "turn", centre |-> Other]
  <2>2. e \in Event /\ queue \in Seq(Event) /\ e.call \notin Calls
    BY PanelAssumption DEF Event, LiveTyped, BoardInv, LiveInv
  <2>3. queue' = Append(queue, e) BY <1>3 DEF Live!OthersTell
  <2> HIDE DEF e
  <2>4. /\ queue' \in Seq(Event) /\ Len(queue) \in Nat
        /\ DOMAIN queue = 1..Len(queue) /\ DOMAIN queue' = 1..(Len(queue) + 1)
        /\ queue'[Len(queue) + 1] = e
        /\ \A i \in DOMAIN queue : queue'[i] = queue[i]
    BY <2>2, <2>3, Appending
  <2>5. /\ \A d, t : Told(d, t)' <=> Told(d, t) \/ (d = e.call /\ t = e.type)
        /\ \A d : d # e.call => ((\A i \in DOMAIN queue : queue[i].call # d) =>
              (\A i \in DOMAIN queue' : queue'[i].call # d))
    <3>1. LiveTyped BY DEF BoardInv, LiveInv
    <3> QED BY <2>2, <2>4, <3>1, QueueLonger
  <2> SUFFICES ASSUME stream # "away", NEW c \in whole' PROVE Fits(c)'
    BY <1>0, <2>1 DEF BoardInv
  <2>6. c \in Calls /\ Fits(c) BY <2>1 DEF BoardInv, LiveInv, LiveTyped
  <2> QED BY <2>1, <2>2, <2>5, <2>6, StillFits
<1> QED BY <1>1, <1>2, <1>3, BoardSpeaks, BoardOpens, BoardSends DEF Live!Next

\* With nothing waiting, the board agrees.
LEMMA BoardQuiet ==
  ASSUME BoardInv
  PROVE  Live!BoardAgreesWhenQuiet
<1>0. LiveTyped /\ OneCentre /\ EventsTrue /\ InScope BY DEF BoardInv, LiveInv
<1> SUFFICES ASSUME stream = "live", queue = <<>>, NEW c \in whole, Live!Settled(c)
             PROVE  c \in board <=> Live!GoingOn(c) /\ Live!Visible(session[c].centre)
  BY DEF Live!BoardAgreesWhenQuiet
<1>1. c \in Calls /\ Fits(c) BY <1>0 DEF BoardInv, LiveTyped
<1>2. \A t : ~Told(c, t) BY DEF Told
<1>3. scope \in {"all", "own"} BY <1>0 DEF LiveTyped
<1>4. CASE session[c].pc \in {"none", "over"} BY <1>1, <1>2, <1>4 DEF Fits, Live!GoingOn
<1>5. CASE session[c].pc = "started"
  <2>1. session[c].centre = None BY <1>0, <1>1, <1>5 DEF OneCentre
  <2> QED
    BY <1>0, <1>1, <1>2, <1>3, <1>5, <2>1, PanelAssumption
       DEF Fits, Live!GoingOn, Live!Visible, InScope
<1>6. CASE session[c].pc = "talking"
  BY <1>0, <1>1, <1>2, <1>3, <1>6 DEF Fits, Live!GoingOn, Live!Visible, InScope
<1> QED BY <1>4, <1>5, <1>6 DEF Live!Settled

\* A step of the run is a step of the Live page, or leaves it alone.
LEMMA PanelLive ==
    /\ PanelInit => Live!Init
    /\ [PanelNext]_allVars => [Live!Next]_(Live!vars)
BY DEF PanelInit, PanelNext, allVars, live, Live!vars, Live!tab, InKnowledge, InChunks,
       InScripts, InLive, InAudit

\* A viewer of one centre is shown no call of another, nor of none: neither by
\* a snapshot, nor an event, nor a start that was withheld and is released.
THEOREM PanelNothingOutOfScope == PanelSpec => []NothingOutOfScope
<1>1. LiveInv => NothingOutOfScope
  BY DEF LiveInv, InScope, NothingOutOfScope, Live!NothingOutOfScope
<1> QED BY <1>1, PanelLive, LiveInitially, LiveStep, PTL DEF PanelSpec

\* Whatever was dropped, refused or lost of other calls, and however often the
\* stream was opened again, the board is right about the calls it was told of.
THEOREM PanelBoardAgrees == PanelSpec => []BoardAgreesWhenQuiet
<1>1. Live!Init => BoardInv BY LiveInitially DEF Live!Init, BoardInv
<1>2. BoardInv => BoardAgreesWhenQuiet BY BoardQuiet DEF BoardAgreesWhenQuiet
<1> QED BY <1>1, <1>2, PanelLive, BoardStep, PTL DEF PanelSpec
=============================================================================
