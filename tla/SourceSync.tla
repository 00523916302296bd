----------------------------- MODULE SourceSync -----------------------------
(***************************************************************************)
(* The pulls of one data source into the catalogue: the panel's requests   *)
(* and their background tasks in the API process (services/sources/        *)
(* sync.py, routers/panel_sources.py), the scheduled pulls of the worker   *)
(* process (worker/sync.py), and the rows of data_source_runs by which the *)
(* two keep out of each other's way.                                       *)
(*                                                                         *)
(* A request is a transaction: what it inserts is seen by others when it   *)
(* commits.  The rows pulled are one version of the client's tables, fixed *)
(* when the pull starts.                                                   *)
(***************************************************************************)
EXTENDS Integers, FiniteSets

CONSTANTS
    Requests,   \* panel requests that may be open at once
    MaxRuns,    \* runs of the source (bound)
    MaxFaults,  \* crashes, failed pulls and cancelled jobs (bound)
    None

Runs == 1..MaxRuns
Openers == Requests \cup {"cron"}

VARIABLES
    rows,       \* data_source_runs: status, error, and whether two hours old
    present,    \* the source has not been deleted
    lastRun,    \* data_sources.last_run_id
    call,       \* per caller: pc, the run it begins, the stale runs it closes
    task,       \* _tasks of the API process: the run in flight, or None
    pull,       \* per run: where execute_run is
    process,    \* per run: the process that executes it
    written,    \* runs whose catalogue writes are committed (history)
    used,       \* runs begun so far, committed or not
    faults      \* counter of the bound

books == <<rows, present, lastRun>>
vars == <<books, call, task, pull, process, written, used, faults>>

NoRow == [status |-> "none", error |-> FALSE, stale |-> FALSE]
NewRow == [status |-> "running", error |-> FALSE, stale |-> FALSE]
NoCall == [pc |-> "idle", run |-> None, closes |-> {}]

Init ==
    /\ rows = [k \in Runs |-> NoRow]
    /\ present = TRUE /\ lastRun = None
    /\ call = [c \in Openers |-> NoCall]
    /\ task = None
    /\ pull = [k \in Runs |-> "off"]
    /\ process = [k \in Runs |-> "none"]
    /\ written = {} /\ used = 0 /\ faults = 0

Fault == faults < MaxFaults /\ faults' = faults + 1
NextRun == used + 1

-----------------------------------------------------------------------------
(* The rows                                                                *)

Running == {k \in Runs : rows[k].status = "running"}

\* Mutant: nobody closes a run that a dead process left behind.
NoneAbandoned == {}

\* active_run: a running row older than RUN_STALE_AFTER is closed as failed.
Abandoned == {k \in Running : rows[k].stale}

\* _finish: of a run read while it was running, only what differs from that
\* reading is written -- an error of None is not.
Failed(row) == [status |-> "failed", error |-> TRUE, stale |-> row.stale]
Good(row) == [row EXCEPT !.status = "ok"]

Closing(f, closes) == [k \in Runs |-> IF k \in closes THEN Failed(f[k]) ELSE f[k]]

-----------------------------------------------------------------------------
(* Beginning a run: start_sync in the API, run_now in the worker           *)

\* Both look for a live run first, and insert a running row if there is none;
\* nobody else sees either until the commit.
Checks(c) ==
    /\ call[c].pc = "idle" /\ present
    /\ IF Running \ Abandoned # {}
       THEN /\ Abandoned # {}
            /\ call' = [call EXCEPT ![c] = [pc |-> "closing", run |-> None,
                                            closes |-> Abandoned]]
            /\ UNCHANGED used
       ELSE /\ used < MaxRuns
            /\ used' = NextRun
            /\ call' = [call EXCEPT ![c] = [pc |-> "beginning", run |-> NextRun,
                                            closes |-> Abandoned]]
    /\ UNCHANGED <<books, task, pull, process, written, faults>>

\* list_runs: the panel's poll closes abandoned runs too.
Polls(r) ==
    /\ r \in Requests /\ call[r].pc = "idle" /\ present /\ Abandoned # {}
    /\ call' = [call EXCEPT ![r] = [pc |-> "closing", run |-> None, closes |-> Abandoned]]
    /\ UNCHANGED <<books, task, pull, process, written, used, faults>>

\* The commit of a source that was deleted meanwhile fails on its foreign key.
Commits(c) ==
    /\ call[c].pc \in {"closing", "beginning"}
    /\ LET k == call[c].run
           closed == Closing(rows, call[c].closes)
       IN  IF ~present \/ k = None
           THEN /\ rows' = IF present THEN closed ELSE rows
                /\ call' = [call EXCEPT ![c] = NoCall]
                /\ UNCHANGED lastRun
           ELSE /\ rows' = [closed EXCEPT ![k] = NewRow]
                /\ lastRun' = k
                /\ call' = [call EXCEPT ![c] = [pc |-> "begun", run |-> k, closes |-> {}]]
    /\ UNCHANGED <<present, task, pull, process, written, used, faults>>

\* Mutant: the process does not look at its own tasks.
NothingInFlight == TRUE

\* in_flight: the API keeps one task per source.
Idle == task = None

\* sync.start, when the request comes back from its commit: a task still in
\* flight refuses it, and the committed row stays running with nobody behind it.
Starts(r) ==
    /\ r \in Requests /\ call[r].pc = "begun"
    /\ call' = [call EXCEPT ![r] = NoCall]
    /\ IF Idle
       THEN /\ task' = call[r].run
            /\ pull' = [pull EXCEPT ![call[r].run] = "made"]
            /\ process' = [process EXCEPT ![call[r].run] = "api"]
       ELSE UNCHANGED <<task, pull, process>>
    /\ UNCHANGED <<books, written, used, faults>>

\* The worker executes the run in the calling task.
CronStarts ==
    /\ call["cron"].pc = "begun"
    /\ call' = [call EXCEPT !["cron"].pc = "pulling"]
    /\ pull' = [pull EXCEPT ![call["cron"].run] = "made"]
    /\ process' = [process EXCEPT ![call["cron"].run] = "worker"]
    /\ UNCHANGED <<books, task, written, used, faults>>

-----------------------------------------------------------------------------
(* execute_run                                                             *)

Moves(k, from, to) == pull[k] = from /\ pull' = [pull EXCEPT ![k] = to]

\* Its own session: the run and the source are loaded, the client connected.
Loads(k) ==
    /\ Moves(k, "made", IF rows[k].status = "none" THEN "over" ELSE "pulling")
    /\ UNCHANGED <<books, call, task, process, written, used, faults>>

\* Mutant: the catalogue is committed before the run is finished.
PulledInTwo(k) ==
    /\ Moves(k, "pulling", "failing")
    /\ written' = written \cup {k}
    /\ UNCHANGED <<books, call, task, process, used, faults>>

\* The catalogue, the finished run and its audit row commit together; an
\* update of a run that was deleted fails, and nothing is written.
Pulled(k) ==
    /\ Moves(k, "pulling", IF rows[k].status = "none" THEN "failing" ELSE "closing")
    /\ IF rows[k].status = "none" THEN UNCHANGED <<rows, written>>
       ELSE /\ rows' = [rows EXCEPT ![k] = Good(@)]
            /\ written' = written \cup {k}
    /\ UNCHANGED <<present, lastRun, call, task, process, used, faults>>

\* The pull fails, or its task is cancelled: the catalogue rolls back.
PullFails(k) ==
    /\ Moves(k, "pulling", "failing") /\ Fault
    /\ UNCHANGED <<books, call, task, process, written, used>>

\* _finish_detached: in a transaction of its own, if the run is still running.
\* A cancelled task has five seconds for it.
FinishedDetached(k) ==
    /\ Moves(k, "failing", "closing")
    /\ \/ /\ rows' = IF rows[k].status = "running" THEN [rows EXCEPT ![k] = Failed(@)]
                     ELSE rows
          /\ UNCHANGED faults
       \/ Fault /\ UNCHANGED rows
    /\ UNCHANGED <<present, lastRun, call, task, process, written, used>>

\* The task is done a little after its last commit.
Ends(k) ==
    /\ Moves(k, "closing", "over")
    /\ task' = IF task = k THEN None ELSE task
    /\ call' = IF call["cron"].run = k THEN [call EXCEPT !["cron"] = NoCall] ELSE call
    /\ UNCHANGED <<books, process, written, used, faults>>

-----------------------------------------------------------------------------
(* What may happen to them                                                 *)

\* delete_source cancels this process's task and deletes the rows.
Deletes ==
    /\ present
    /\ present' = FALSE /\ lastRun' = None
    /\ rows' = [k \in Runs |-> NoRow]
    /\ pull' = IF task # None /\ pull[task] \in {"made", "pulling"}
               THEN [pull EXCEPT ![task] = "failing"] ELSE pull
    /\ UNCHANGED <<call, task, process, written, used, faults>>

\* A process dies with its requests, its transactions and its pulls.
Dies(p) ==
    /\ Fault
    /\ pull' = [k \in Runs |-> IF process[k] = p THEN "over" ELSE pull[k]]
    /\ IF p = "api"
       THEN /\ task' = None
            /\ call' = [c \in Openers |-> IF c = "cron" THEN call[c] ELSE NoCall]
       ELSE /\ UNCHANGED task
            /\ call' = [call EXCEPT !["cron"] = NoCall]
    /\ UNCHANGED <<books, process, written, used>>

\* RUN_STALE_AFTER passes -- over a run that nobody executes, or over one that
\* is still pulling, or was committed long before its task could be made.
GrowsStale(k) ==
    /\ rows[k].status = "running" /\ ~rows[k].stale
    /\ rows' = [rows EXCEPT ![k].stale = TRUE]
    /\ UNCHANGED <<present, lastRun, call, task, pull, process, written, used, faults>>

-----------------------------------------------------------------------------
Executing ==
    \/ \E k \in Runs : Loads(k) \/ Pulled(k) \/ FinishedDetached(k) \/ Ends(k)
    \/ \E c \in Openers : Commits(c)
    \/ \E r \in Requests : Starts(r)
    \/ CronStarts

Next ==
    \/ Executing \/ Deletes
    \/ \E c \in Openers : Checks(c)
    \/ \E r \in Requests : Polls(r)
    \/ \E k \in Runs : PullFails(k) \/ GrowsStale(k)
    \/ \E p \in {"api", "worker"} : Dies(p)

Spec == Init /\ [][Next]_vars

\* Tasks run, hours pass, and the panel that shows a running run polls it.
FairSpec ==
    /\ Spec
    /\ WF_vars(Executing)
    /\ WF_vars(\E k \in Runs : GrowsStale(k))
    /\ WF_vars(\E r \in Requests : Polls(r))
-----------------------------------------------------------------------------
Pulling(k) == pull[k] = "pulling"

\* Type invariant.
TypeOK ==
    /\ rows \in [Runs -> [status : {"none", "running", "ok", "failed"},
                          error : BOOLEAN, stale : BOOLEAN]]
    /\ present \in BOOLEAN /\ lastRun \in Runs \cup {None}
    /\ call \in [Openers -> [pc : {"idle", "closing", "beginning", "begun", "pulling"},
                             run : Runs \cup {None}, closes : SUBSET Runs]]
    /\ task \in Runs \cup {None}
    /\ pull \in [Runs -> {"off", "made", "pulling", "failing", "closing", "over"}]
    /\ process \in [Runs -> {"none", "api", "worker"}]
    /\ written \subseteq Runs /\ used \in 0..MaxRuns /\ faults \in 0..MaxFaults

\* What a run's row says of the catalogue is so, whatever crashed, was cancelled
\* or interleaved: a good run's rows are in the catalogue, and a failed run's are
\* not -- unless it pulled for two hours, was taken for abandoned by a reader, and
\* had its row closed over by that reader after it was done.
RowsTellTheTruth ==
    \A k \in Runs :
        /\ rows[k].status = "ok" => k \in written
        /\ rows[k].status = "failed" /\ k \in written => rows[k].stale

\* In one process the pulls of a source never overlap, however the requests,
\* the stale rows and the ends of the tasks interleave.
OnePullPerProcess ==
    \A j, k \in Runs : Pulling(j) /\ Pulling(k) /\ process[j] = process[k] => j = k

\* No run is shown as running for ever: not after a crash, and not when its
\* task was refused.
RunsEnd == \A k \in Runs : rows[k].status = "running" ~> rows[k].status # "running"

\* (violated) Two pulls of a source are never under way at once.
RunsDoNotOverlap == Cardinality({k \in Runs : Pulling(k)}) <= 1

\* (violated) A good run carries no error.
GoodRunsAreClean == \A k \in Runs : rows[k].status = "ok" => ~rows[k].error
=============================================================================
