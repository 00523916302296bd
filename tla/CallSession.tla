---------------------------- MODULE CallSession ----------------------------
(***************************************************************************)
(* One call on the voice worker and what is left of it afterwards:         *)
(* CallSession (runtime/session.py) with its socket loop, the answers that *)
(* hand over or hang up, the queue that keeps the database off the audio   *)
(* path and the order of _close; then the post-call job (worker/tasks.py,  *)
(* worker/postcall.py), whose stages share one transaction.                *)
(*                                                                         *)
(* TurnLoop says what is spoken; here an answer is only its ends.  The     *)
(* campaign's card is ContactLifecycle's.                                  *)
(***************************************************************************)
EXTENDS Naturals, Sequences, FiniteSets

CONSTANTS
    MaxTurns,    \* turns of the call (bound)
    QueueMax,    \* PERSIST_QUEUE_MAX
    MaxFaults,   \* faults of the database, the queue and the processes (bound)
    None

Statuses == {"IN_PROGRESS", "COMPLETED", "ABANDONED", "FAILED"}
Outcomes == {"CALLER_HUNG_UP", "SYSTEM_FAILURE", "TRANSFERRED", "ABANDONED_SILENCE",
             "NOT_REACHED", "RESOLVED"}
Stages == <<"transcript", "outcome", "campaign", "tickets", "recording", "cost",
            "summary", "farmer", "notify">>
\* The stages that issue a statement of their own.
Statements == {"transcript", "campaign", "tickets", "summary", "farmer"}

VARIABLES
    loop,      \* run: receiving, and then the steps of _close
    line,      \* what the provider sends next: nothing, a stop frame, a close
    status, outcome, transferred, hangup,     \* the session's fields
    answer,    \* the answer task
    ladder,    \* the silence ladder: quiet, or in _on_call_over, or done
    silenced,  \* the pipeline's call_outcome: the ladder ran out
    queue, drain, inHand,  \* _persist_queue, _drain and the item it writes
    turns, kept, lost,    \* turns finished; written; dropped or failed, as logged
    row,       \* the call row
    told,      \* the caller was promised a callback (history)
    job,       \* process_call: pc, next stage, what it saw and did so far
    tickets,   \* callback tickets of this call
    faults     \* the faults so far

session == <<status, outcome, transferred, hangup>>
talk == <<answer, ladder, silenced>>
persist == <<queue, drain, inHand, turns, kept, lost>>
vars == <<loop, line, session, talk, persist, row, told, job, tickets, faults>>

NoJob == [pc |-> "none", stage |-> 0, ok |-> {}, failed |-> {}, outcome |-> None,
          ticket |-> FALSE, poisoned |-> FALSE, saved |-> FALSE]

Init ==
    /\ loop = "connected" /\ line = "open"
    /\ status = "IN_PROGRESS" /\ outcome = None
    /\ transferred = FALSE /\ hangup = FALSE
    /\ answer = "none" /\ ladder = "quiet" /\ silenced = FALSE
    /\ queue = <<>> /\ drain = "idle" /\ inHand = 0
    /\ turns = 0 /\ kept = {} /\ lost = {}
    /\ row = None /\ told = FALSE
    /\ job = NoJob /\ tickets = 0 /\ faults = {}

Fault(f) == Cardinality(faults) < MaxFaults /\ f \notin faults /\ faults' = faults \cup {f}
Alive == loop # "dead"
Receiving == loop = "serving"

-----------------------------------------------------------------------------
(* The call row and the persistence queue                                  *)

\* _enqueue of a finished turn: a full queue drops it, and says so.
EnqueueTurn ==
    /\ turns' = turns + 1
    /\ IF Len(queue) < QueueMax
       THEN queue' = Append(queue, turns + 1) /\ UNCHANGED lost
       ELSE lost' = lost \cup {turns + 1} /\ UNCHANGED queue
    /\ UNCHANGED <<kept, drain, inHand>>

\* _drain takes the next item; the marker ends it.
DrainTakes ==
    /\ Alive /\ drain = "idle" /\ queue # <<>>
    /\ drain' = IF Head(queue) = 0 THEN "done" ELSE "writing"
    /\ inHand' = Head(queue)
    /\ queue' = Tail(queue)
    /\ UNCHANGED <<loop, line, session, talk, turns, kept, lost, row, told, job, tickets,
                   faults>>

DrainWrites ==
    /\ Alive /\ drain = "writing"
    /\ drain' = "idle" /\ kept' = kept \cup {inHand}
    /\ UNCHANGED <<loop, line, session, talk, queue, inHand, turns, lost, row, told, job, tickets,
                   faults>>

\* Mutant: an exception ends the drain task.
DrainFailsForGood ==
    /\ Alive /\ drain = "writing" /\ Fault("write")
    /\ drain' = "broken" /\ lost' = lost \cup {inHand}
    /\ UNCHANGED <<loop, line, session, talk, queue, inHand, turns, kept, row, told, job, tickets>>

\* A write that fails is logged, and the next one is tried.
DrainFails ==
    /\ Alive /\ drain = "writing" /\ Fault("write")
    /\ drain' = "idle" /\ lost' = lost \cup {inHand}
    /\ UNCHANGED <<loop, line, session, talk, queue, inHand, turns, kept, row, told, job, tickets>>

-----------------------------------------------------------------------------
(* The start frame                                                         *)

\* create_call, then the pipeline: the context it found is written to the row
\* (answered_at), and the greeting begins.
Start ==
    /\ loop = "connected" /\ line = "open"
    /\ loop' = "serving"
    /\ row' = [status |-> "IN_PROGRESS", outcome |-> None, was_transferred |-> FALSE,
               completed |-> FALSE, answered |-> TRUE, recording |-> FALSE]
    /\ answer' = "speaking"
    /\ UNCHANGED <<line, session, ladder, silenced, persist, told, job, tickets, faults>>

\* The pipeline cannot be built: there is nobody to talk to, and the outcome
\* says why.
StartUnbuilt ==
    /\ loop = "connected" /\ line = "open" /\ Fault("pipeline")
    /\ loop' = "serving"
    /\ row' = [status |-> "IN_PROGRESS", outcome |-> None, was_transferred |-> FALSE,
               completed |-> FALSE, answered |-> FALSE, recording |-> FALSE]
    /\ answer' = "unbuilt" /\ outcome' = "SYSTEM_FAILURE"
    /\ UNCHANGED <<line, status, transferred, hangup, ladder, silenced, persist, told, job,
                   tickets>>

\* The row could not be created: the exception ends the call.
StartFails ==
    /\ loop = "connected" /\ line = "open" /\ Fault("create")
    /\ loop' = "stopping"
    /\ status' = "FAILED" /\ outcome' = "SYSTEM_FAILURE"
    /\ UNCHANGED <<line, transferred, hangup, talk, persist, row, told, job, tickets>>

-----------------------------------------------------------------------------
(* The conversation                                                        *)

Talking == Receiving /\ row # None

BeginTurn ==
    /\ Talking /\ answer = "idle" /\ turns < MaxTurns
    /\ answer' = "speaking"
    /\ UNCHANGED <<loop, line, session, ladder, silenced, persist, row, told, job, tickets,
                   faults>>

\* _finish_turn, and what the responder asked for after it.
FinishTurn ==
    /\ Talking /\ answer = "speaking" /\ turns < MaxTurns
    /\ EnqueueTurn
    /\ answer' \in {"idle", "transferring", "leaving"}
    /\ UNCHANGED <<loop, line, session, ladder, silenced, row, told, job, tickets, faults>>

\* _on_transfer: once transferred, or once the hang-up is decided, not again.
TransferRefused ==
    /\ Talking /\ answer = "transferring" /\ (transferred \/ hangup)
    /\ answer' = "idle"
    /\ UNCHANGED <<loop, line, session, ladder, silenced, persist, row, told, job, tickets,
                   faults>>

\* The provider took the call.  The row is written after the fields are.
TransferAccepted ==
    /\ Talking /\ answer = "transferring" /\ ~transferred /\ ~hangup
    /\ transferred' = TRUE /\ outcome' = "TRANSFERRED"
    /\ answer' = "recording transfer"
    /\ UNCHANGED <<loop, line, status, hangup, ladder, silenced, persist, row, told, job,
                   tickets, faults>>

TransferRecorded ==
    /\ Talking /\ answer = "recording transfer"
    /\ \/ row' = [row EXCEPT !.was_transferred = TRUE, !.completed = TRUE]
          /\ UNCHANGED faults
       \/ Fault("transfer row") /\ UNCHANGED row
    /\ answer' = "idle"
    /\ UNCHANGED <<loop, line, session, ladder, silenced, persist, told, job, tickets>>

\* No call control, or the provider said no: the record, and only then the
\* promise of a callback.
TransferRefusedByProvider ==
    /\ Talking /\ answer = "transferring" /\ ~transferred /\ ~hangup
    /\ \/ row' = [row EXCEPT !.was_transferred = TRUE, !.completed = FALSE]
          /\ UNCHANGED faults
       \/ Fault("transfer row") /\ UNCHANGED row
    /\ answer' = "apologising" /\ told' = TRUE
    /\ UNCHANGED <<loop, line, session, ladder, silenced, persist, job, tickets>>

Apologised ==
    /\ Talking /\ answer = "apologising" /\ turns < MaxTurns
    /\ EnqueueTurn
    /\ answer' \in {"idle", "leaving"}
    /\ UNCHANGED <<loop, line, session, ladder, silenced, row, told, job, tickets, faults>>

\* The ladder runs out while nobody speaks; the outcome is the pipeline's.
LadderRunsOut ==
    /\ Talking /\ answer = "idle" /\ ladder = "quiet"
    /\ ladder' = "leaving" /\ silenced' = TRUE
    /\ UNCHANGED <<loop, line, session, answer, persist, row, told, job, tickets, faults>>

\* _on_call_over up to its first wait: the pipeline's verdict, or the
\* responder's, if it has one.
Decided == IF silenced THEN {"ABANDONED_SILENCE"} ELSE {outcome, "RESOLVED"}

LeavesByAnswer ==
    /\ Talking /\ answer = "leaving"
    /\ IF hangup THEN answer' = "idle" /\ UNCHANGED outcome
       ELSE answer' = "grace" /\ outcome' \in Decided
    /\ UNCHANGED <<loop, line, status, transferred, hangup, ladder, silenced, persist, row,
                   told, job, tickets, faults>>

LeavesByLadder ==
    /\ Talking /\ ladder = "leaving"
    /\ IF hangup THEN ladder' = "done" /\ UNCHANGED outcome
       ELSE ladder' = "grace" /\ outcome' \in Decided
    /\ UNCHANGED <<loop, line, status, transferred, hangup, answer, silenced, persist, row,
                   told, job, tickets, faults>>

\* The grace is over and the provider was asked to end the line.
HangsUp ==
    /\ Talking
    /\ \/ answer = "grace" /\ answer' = "idle" /\ UNCHANGED ladder
       \/ ladder = "grace" /\ ladder' = "done" /\ UNCHANGED answer
    /\ hangup' = TRUE
    /\ UNCHANGED <<loop, line, status, outcome, transferred, silenced, persist, row, told,
                   job, tickets, faults>>

-----------------------------------------------------------------------------
(* How the loop ends                                                       *)

\* The provider ends the stream, properly or not.
LineEnds ==
    /\ loop \in {"connected", "serving"} /\ line = "open"
    /\ line' \in {"stop", "dropped"}
    /\ UNCHANGED <<loop, session, talk, persist, row, told, job, tickets, faults>>

\* The hang-up event is looked at before the frame that arrived with it.
SeesHangup ==
    /\ Receiving /\ hangup
    /\ loop' = "stopping" /\ status' = "COMPLETED"
    /\ UNCHANGED <<line, outcome, transferred, hangup, talk, persist, row, told, job, tickets,
                   faults>>

SeesStop ==
    /\ loop \in {"connected", "serving"} /\ ~hangup /\ line = "stop"
    /\ loop' = "stopping" /\ status' = "COMPLETED"
    /\ outcome' = IF outcome = None THEN "CALLER_HUNG_UP" ELSE outcome
    /\ UNCHANGED <<line, transferred, hangup, talk, persist, row, told, job, tickets, faults>>

\* TransportClosed: whatever the call had come to, the caller hung up.
SeesDrop ==
    /\ loop \in {"connected", "serving"} /\ ~hangup /\ line = "dropped"
    /\ loop' = "stopping" /\ status' = "ABANDONED" /\ outcome' = "CALLER_HUNG_UP"
    /\ UNCHANGED <<line, transferred, hangup, talk, persist, row, told, job, tickets, faults>>

\* A frame that cannot be handled, and a worker that is shut down.
SeesFault ==
    /\ Receiving /\ Fault("frame")
    /\ loop' = "stopping" /\ status' = "FAILED"
    /\ outcome' \in {outcome, "SYSTEM_FAILURE"}
    /\ UNCHANGED <<line, transferred, hangup, talk, persist, row, told, job, tickets>>

WorkerDies ==
    /\ loop \notin {"ended", "dead"} /\ Fault("worker")
    /\ loop' = "dead"
    /\ UNCHANGED <<line, session, talk, persist, row, told, job, tickets>>

-----------------------------------------------------------------------------
(* _close                                                                  *)

\* Mutant: the queue is closed before the answer is stopped.
CloseDrainFirst ==
    /\ loop = "stopping"
    /\ loop' = "draining"
    /\ queue' = queue \o IF answer = "speaking" THEN <<0, turns + 1>> ELSE <<0>>
    /\ turns' = IF answer = "speaking" THEN turns + 1 ELSE turns
    /\ UNCHANGED <<line, session, talk, drain, inHand, kept, lost, row, told, job, tickets,
                   faults>>

\* _stop_pipeline: the answer is cancelled and its turn recorded as far as it
\* got; a hand-over or an apology that was being made is simply gone.
StopPipeline ==
    /\ loop = "stopping"
    /\ loop' = "marking"
    /\ answer' = "none" /\ ladder' = "done"
    /\ IF answer = "speaking" THEN EnqueueTurn ELSE UNCHANGED persist
    /\ UNCHANGED <<line, session, silenced, row, told, job, tickets, faults>>

\* The marker waits for room, unlike every other item.
PutMarker ==
    /\ loop = "marking" /\ Len(queue) < QueueMax
    /\ loop' = "draining" /\ queue' = Append(queue, 0)
    /\ UNCHANGED <<line, session, talk, drain, inHand, turns, kept, lost, row, told, job, tickets,
                   faults>>

\* The drain is over, or is given up after DRAIN_TIMEOUT_S.
Drained ==
    /\ loop = "draining"
    /\ \/ drain = "done" /\ UNCHANGED <<drain, faults>>
       \/ drain # "done" /\ Fault("drain") /\ drain' = "cancelled"
    /\ loop' = "finalising"
    /\ UNCHANGED <<line, session, talk, queue, inHand, turns, kept, lost, row, told, job, tickets>>

Finalise ==
    /\ loop = "finalising"
    /\ \/ /\ row' = IF row = None THEN row
                    ELSE [row EXCEPT !.status = status, !.outcome = outcome]
          /\ UNCHANGED faults
       \/ Fault("finalise") /\ UNCHANGED row
    /\ loop' = "storing"
    /\ UNCHANGED <<line, session, talk, persist, told, job, tickets>>

\* _store_recording, after CALL_ENDED: a store that is down costs the recording.
StoreRecording ==
    /\ loop = "storing"
    /\ \/ /\ row' = IF row = None THEN row ELSE [row EXCEPT !.recording = TRUE]
          /\ UNCHANGED faults
       \/ Fault("store") /\ UNCHANGED row
    /\ loop' = "handing on"
    /\ UNCHANGED <<line, session, talk, persist, told, job, tickets>>

EnqueuePostcall ==
    /\ loop = "handing on"
    /\ \/ job' = [job EXCEPT !.pc = "queued"] /\ UNCHANGED faults
       \/ Fault("redis") /\ UNCHANGED job
    /\ loop' = "ended"
    /\ UNCHANGED <<line, session, talk, persist, row, told, tickets>>

-----------------------------------------------------------------------------
(* The post-call job                                                       *)

\* The row is selected first; a call that has none fails the job.
JobStarts ==
    /\ job.pc = "queued"
    /\ job' = IF row = None THEN [job EXCEPT !.pc = "raised", !.failed = {"load"}]
              ELSE [NoJob EXCEPT !.pc = "running", !.stage = 1, !.outcome = row.outcome]
    /\ UNCHANGED <<loop, line, session, talk, persist, row, told, tickets, faults>>

\* _set_outcome: the conservative guess, for a call that ended without one.
Guess ==
    IF row.was_transferred THEN "TRANSFERRED"
    ELSE IF ~row.answered THEN "NOT_REACHED" ELSE "CALLER_HUNG_UP"

\* Mutant: only the outcome is looked at.
FollowsUpOutcomes == job.outcome \in {"ABANDONED_SILENCE", "SYSTEM_FAILURE"}

\* _ensure_ticket: a call that ended mid-resolution.
NeedsFollowUp ==
    \/ job.outcome \in {"ABANDONED_SILENCE", "SYSTEM_FAILURE"}
    \/ row.was_transferred /\ ~row.completed

\* Mutant: the ticket is not looked up first.
TicketEveryTime == TRUE

\* A retry finds the ticket of the first run.
NoTicketYet == tickets = 0

\* What a stage did to the session's objects, in memory until the commit.
StageDone(name) ==
    [job EXCEPT !.stage = @ + 1,
                !.ok = @ \cup {name},
                !.outcome = IF name = "outcome" /\ @ = None THEN Guess ELSE @,
                !.ticket = @ \/ (name = "tickets" /\ NoTicketYet /\ NeedsFollowUp)]

StageFailed(name, poisons) ==
    [job EXCEPT !.stage = @ + 1, !.failed = @ \cup {name}, !.poisoned = @ \/ poisons]

\* Each stage is wrapped.  A statement that fails aborts the transaction, and
\* every later statement of the job with it.
JobStage ==
    /\ job.pc = "running" /\ job.stage <= Len(Stages)
    /\ LET name == Stages[job.stage]
       IN  \/ /\ ~(job.poisoned /\ name \in Statements)
              /\ job' = StageDone(name)
              /\ UNCHANGED faults
           \/ /\ job.poisoned /\ name \in Statements
              /\ job' = StageFailed(name, FALSE)
              /\ UNCHANGED faults
           \/ /\ ~job.poisoned /\ name \in Statements
              /\ Fault("statement")
              /\ job' = StageFailed(name, TRUE)
           \/ /\ name \in {"summary", "notify"}
              /\ Fault("vendor")
              /\ job' = StageFailed(name, FALSE)
    /\ UNCHANGED <<loop, line, session, talk, persist, row, told, tickets>>

\* system_session commits everything or, of an aborted transaction, nothing;
\* a failed stage then makes the job raise, which ARQ does not retry.
JobCommits ==
    /\ job.pc = "running" /\ job.stage > Len(Stages)
    /\ IF job.poisoned THEN UNCHANGED <<row, tickets>>
       ELSE /\ row' = [row EXCEPT !.outcome = job.outcome]
            /\ tickets' = IF job.ticket THEN tickets + 1 ELSE tickets
    /\ job' = [job EXCEPT !.pc = "committed", !.saved = ~job.poisoned]
    /\ UNCHANGED <<loop, line, session, talk, persist, told, faults>>

JobEnds ==
    /\ job.pc = "committed"
    /\ job' = [job EXCEPT !.pc = IF job.failed = {} THEN "done" ELSE "raised"]
    /\ UNCHANGED <<loop, line, session, talk, persist, row, told, tickets, faults>>

\* The worker that ran the job goes away, before its commit or after it: the
\* job is still in the queue and runs again.
JobInterrupted ==
    /\ job.pc \in {"running", "committed"} /\ Fault("job worker")
    /\ job' = [NoJob EXCEPT !.pc = "queued"]
    /\ UNCHANGED <<loop, line, session, talk, persist, row, told, tickets>>

-----------------------------------------------------------------------------
Talk ==
    \/ BeginTurn \/ FinishTurn \/ TransferRefused \/ TransferAccepted
    \/ TransferRecorded \/ TransferRefusedByProvider \/ Apologised
    \/ LadderRunsOut \/ LeavesByAnswer \/ LeavesByLadder \/ HangsUp

Persisting == DrainTakes \/ DrainWrites \/ DrainFails

Closing ==
    \/ SeesHangup \/ SeesStop \/ SeesDrop
    \/ StopPipeline \/ PutMarker \/ Drained \/ Finalise \/ StoreRecording \/ EnqueuePostcall

Job == JobStarts \/ JobStage \/ JobCommits \/ JobEnds \/ JobInterrupted

Next ==
    \/ Start \/ StartUnbuilt \/ StartFails \/ LineEnds \/ SeesFault \/ WorkerDies
    \/ Talk \/ Persisting \/ Closing \/ Job

Spec == Init /\ [][Next]_vars

\* The event loop runs the session and the drain task, whose statements end:
\* the in-call engine has a statement time-out.
FairSpec == Spec /\ WF_vars(Closing) /\ WF_vars(Persisting)
-----------------------------------------------------------------------------
\* Type invariant.
TypeOK ==
    /\ loop \in {"connected", "serving", "stopping", "marking", "draining", "finalising",
                 "storing", "handing on", "ended", "dead"}
    /\ line \in {"open", "stop", "dropped"}
    /\ status \in Statuses /\ outcome \in Outcomes \cup {None}
    /\ {transferred, hangup, silenced, told} \subseteq BOOLEAN
    /\ answer \in {"none", "unbuilt", "idle", "speaking", "transferring",
                   "recording transfer", "apologising", "leaving", "grace"}
    /\ ladder \in {"quiet", "leaving", "grace", "done"}
    /\ inHand \in 0..MaxTurns + 1
    /\ queue \in Seq(0..MaxTurns + 1) /\ Len(queue) <= QueueMax
    /\ turns \in 0..MaxTurns + 1
    /\ kept \cup lost \subseteq 1..turns
    /\ job.outcome \in Outcomes \cup {None} /\ job.ok \cup job.failed \subseteq
           {Stages[i] : i \in DOMAIN Stages} \cup {"load"}

\* Every turn of a call whose queue was drained to its end is written, or its
\* loss was logged: none is queued behind the marker, none forgotten.
EveryTurnAccounted ==
    drain = "done" => kept \cup lost = 1..turns

\* A caller who was promised a callback, and was not joined to a person after
\* all, has a ticket when the post-call job is done -- if no database, queue or
\* process failed meanwhile.
PromiseKept ==
    job.pc = "done" /\ told /\ faults = {} => row.completed \/ tickets = 1

\* However often the job runs, the farmer is called back once.
OneTicket == tickets <= 1

\* A call whose line ended, or that the agent ended, is closed.
CallCloses == (Receiving /\ (line # "open" \/ hangup)) ~> loop \in {"ended", "dead"}

\* (violated) What a stage reports as done is on the row when the job is over.
StagesCommitted == job.pc = "raised" /\ job.ok # {} => job.saved
=============================================================================
