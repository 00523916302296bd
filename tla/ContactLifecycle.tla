-------------------------- MODULE ContactLifecycle --------------------------
(***************************************************************************)
(* One contact of a campaign from the dial to its settled card.  Three     *)
(* processes write the contact's row with no lock between them: the dialer *)
(* and the post-call and reconciliation jobs (apps/worker), and the call   *)
(* session of the voice worker.  A call is numbered by the dial it answers.*)
(* Every transaction of theirs is one action, or a read and a commit when  *)
(* it writes what it computed from what it read.                           *)
(*                                                                         *)
(* A call session is at one of:                                            *)
(*   none      no media stream has opened                                  *)
(*   linking   the call row exists, link_contact is next                   *)
(*   building  the pipeline is being assembled                             *)
(*   talking   the script is on; deaf: the line is open, no pipeline runs  *)
(*   leaving   the last line is spoken, the agent is about to hang up      *)
(*   finish, finalise, enqueue    the three writes of _close               *)
(*   over      closed; dead: the voice worker died under it                *)
(***************************************************************************)
EXTENDS Naturals

CONSTANTS
    MaxAttempts,            \* MAX_ATTEMPTS_PER_CONTACT
    MaxFaults, MaxCrashes   \* bounds of the model; a crash is a fault too

ASSUME LifecycleAssumption ==
    MaxAttempts \in Nat \ {0} /\ MaxFaults \in Nat /\ MaxCrashes \in Nat

VARIABLES
    card,      \* campaign_contacts: status, outcome, call_id (0 is NULL)
    dials,     \* attempts recorded; the last one is the current dial
    stale,     \* last_attempt_at is older than DIAL_STALE_AFTER
    dialer,    \* the dial task of the current dial
    line,      \* per dial: what the telephone network does
    sess,      \* per call: where its session is
    numbered,  \* per call: its start frame carried the farmer's number
    served,    \* per call: its contact was found and _contact_finisher is set
    script,    \* per call: responder.result, and the CallOutcome it decided
    ended,     \* per call: the session's status and outcome
    row,       \* per call: the calls row
    job,       \* per call: its post-call job
    read,      \* per call: the contact and outcome its job has read
    sweep,     \* reconcile_contacts: the change it has not committed yet
    dnc,       \* dnd_status.internal_dnc of the farmer
    linked, written,  \* per call: link_contact, finish_contact committed
    faults, crashes   \* counters of the bounds

vars == <<card, dials, stale, dialer, line, sess, numbered, served, script, ended,
          row, job, read, sweep, dnc, linked, written, faults, crashes>>

Calls == 1..MaxAttempts
Live == {"linking", "building", "talking", "deaf", "leaving", "finish",
         "finalise", "enqueue"}

NoResult == [outcome |-> "none", decided |-> "none"]
NoRow == [status |-> "absent", outcome |-> "none", answered |-> FALSE, campaign |-> FALSE]
NoRead == [status |-> "none", outcome |-> "none", call |-> "none"]
NoSweep == [status |-> "none", outcome |-> "none", saw |-> "none"]

\* A session emits a column only when it assigned a value other than the loaded.
Emit(new, saw, current) == IF new # saw THEN new ELSE current

\* Every step that may go wrong costs a fault.
Fault == faults < MaxFaults /\ faults' = faults + 1

(***************************************************************************)
(* What a call says about its contact.                                     *)
(***************************************************************************)

\* Mutant: a call without a decision leaves the contact where it was.
UndecidedStaysDialing(outcome) ==
    CASE outcome \in {"none", "not_reached", "abandoned_silence"} -> "no_answer"
      [] outcome = "system_failure" -> "failed"
      [] outcome = "opted_out" -> "opted_out"
      [] outcome \in {"offer_accepted", "offer_declined"} -> "completed"
      [] OTHER -> "dialing"

\* contact_result_from_call, the status half.
StatusFromCall(outcome) ==
    CASE outcome \in {"none", "not_reached", "abandoned_silence"} -> "no_answer"
      [] outcome = "system_failure" -> "failed"
      [] outcome = "opted_out" -> "opted_out"
      [] OTHER -> "completed"

\* ... and the panel's outcome.
OutcomeFromCall(outcome) ==
    CASE outcome = "offer_accepted" -> "pressed_1"
      [] StatusFromCall(outcome) = "completed" -> "talked"
      [] OTHER -> StatusFromCall(outcome)

\* The finisher: ContactResult.status, or no answer if the farmer said nothing.
FinishStatus(c) == CASE script[c].outcome = "none" -> "no_answer"
                     [] script[c].outcome = "opted_out" -> "opted_out"
                     [] OTHER -> "completed"
FinishOutcome(c) == IF script[c].outcome = "none" THEN "no_answer" ELSE script[c].outcome

(***************************************************************************)
(* The dialer and the network.                                             *)
(***************************************************************************)

\* Mutant: the last attempt's call stays on the row.
CallOfLastDial == card.call

\* _record_attempt: a fresh dial belongs to no call.
CallOfNewDial == 0

\* dial: the attempt is recorded, then originate is called.  The gate keeps
\* attempts hours apart, so nothing of the last dial is still in flight unless
\* it never will be again, and it does not dial the suppressed.
RecordAttempt ==
    /\ dials < MaxAttempts
    /\ ~dnc
    /\ dialer = "idle" /\ sweep = NoSweep
    /\ \A c \in Calls : /\ sess[c] \in {"none", "over", "dead"} /\ job[c] = "none"
                        /\ c <= dials => line[c] = "down"
    /\ dials' = dials + 1
    /\ card' = [status |-> "dialing", outcome |-> "none", call |-> CallOfNewDial]
    /\ stale' = FALSE
    /\ dialer' = "originating"
    /\ UNCHANGED <<line, sess, numbered, served, script, ended, row, job, read,
                   sweep, dnc, linked, written, faults, crashes>>

\* The provider accepts the request: the phone rings.
Rings ==
    /\ dialer = "originating" /\ line[dials] = "idle"
    /\ line' = [line EXCEPT ![dials] = "ringing"]
    /\ UNCHANGED <<card, dials, stale, dialer, sess, numbered, served, script,
                   ended, row, job, read, sweep, dnc, linked, written, faults,
                   crashes>>

OriginateReturns ==
    /\ dialer = "originating" /\ line[dials] # "idle"
    /\ dialer' = "idle"
    /\ UNCHANGED <<card, dials, stale, line, sess, numbered, served, script,
                   ended, row, job, read, sweep, dnc, linked, written, faults,
                   crashes>>

\* originate raises: refused, or its answer was lost while the phone rings.  An
\* exception reaches _attempt_failed; the death of the dialer reaches nothing.
OriginateFails ==
    /\ Fault
    /\ dialer = "originating"
    /\ dialer' = "idle"
    /\ line' = [line EXCEPT ![dials] = IF @ = "idle" THEN "down" ELSE @]
    /\ \/ card' = [card EXCEPT !.status = "failed", !.outcome = "failed"]
       \/ UNCHANGED card
    /\ UNCHANGED <<dials, stale, sess, numbered, served, script, ended, row,
                   job, read, sweep, dnc, linked, written, crashes>>

\* Nobody answers before RING_TIMEOUT_S: no media stream ever opens.
Unanswered ==
    /\ dials > 0 /\ line[dials] = "ringing"
    /\ line' = [line EXCEPT ![dials] = "down"]
    /\ UNCHANGED <<card, dials, stale, dialer, sess, numbered, served, script,
                   ended, row, job, read, sweep, dnc, linked, written, faults,
                   crashes>>

(***************************************************************************)
(* The call session: _on_start, the script, _close.                        *)
(***************************************************************************)

\* The farmer picks up and the start frame arrives.  create_call writes the
\* row; if it raises the call is lost with nothing written.  The frame names
\* the contact unless the provider dropped the custom field.  It may carry no
\* number that can be hashed: withheld, malformed, or a browser page that
\* answers a simulated dial; the call proceeds all the same.
PickUp(c) ==
    /\ c = dials /\ line[c] = "ringing"
    /\ \/ /\ line' = [line EXCEPT ![c] = "answered"]
          /\ row' = [row EXCEPT ![c].status = "in_progress"]
          /\ \E hashed \in BOOLEAN : numbered' = [numbered EXCEPT ![c] = hashed]
          /\ \/ /\ sess' = [sess EXCEPT ![c] = "linking"]
                /\ served' = [served EXCEPT ![c] = TRUE]
                /\ UNCHANGED faults
             \/ /\ Fault
                /\ sess' = [sess EXCEPT ![c] = "building"]
                /\ UNCHANGED served
       \/ /\ Fault
          /\ line' = [line EXCEPT ![c] = "down"]
          /\ sess' = [sess EXCEPT ![c] = "over"]
          /\ UNCHANGED <<row, numbered, served>>
    /\ UNCHANGED <<card, dials, stale, dialer, script, ended, job, read,
                   sweep, dnc, linked, written, crashes>>

\* link_contact; its failure is suppressed.
Link(c) ==
    /\ sess[c] = "linking"
    /\ \/ /\ card' = [card EXCEPT !.call = c, !.status = "dialing"]
          /\ linked' = [linked EXCEPT ![c] = TRUE]
          /\ UNCHANGED faults
       \/ Fault /\ UNCHANGED <<card, linked>>
    /\ sess' = [sess EXCEPT ![c] = "building"]
    /\ UNCHANGED <<dials, stale, dialer, line, numbered, served, script, ended,
                   row, job, read, sweep, dnc, written, crashes>>

\* find_outbound_contact, by the named id or by phone hash among the contacts
\* being dialled.  The hash finds only those of RUNNING campaigns, so it may
\* fail all the same; without a number nothing is looked up.
Finds(c) == IF served[c] THEN {TRUE}
            ELSE {FALSE, numbered[c] /\ card.status = "dialing"}

\* _start_pipeline: the finisher is set for the contact found and the caller
\* attached to the call row (a failure there is suppressed); or nothing can be
\* assembled and the line stays open without a conversation.
Build(c) ==
    /\ sess[c] = "building"
    /\ \/ /\ \E found \in Finds(c) :
                /\ served' = [served EXCEPT ![c] = found]
                /\ \/ /\ row' = [row EXCEPT ![c].answered = TRUE, ![c].campaign = found]
                      /\ UNCHANGED faults
                   \/ Fault /\ UNCHANGED row
          /\ sess' = [sess EXCEPT ![c] = "talking"]
          /\ UNCHANGED ended
       \/ /\ Fault
          /\ served' = [served EXCEPT ![c] = FALSE]
          /\ ended' = [ended EXCEPT ![c].outcome = "system_failure"]
          /\ sess' = [sess EXCEPT ![c] = "deaf"]
          /\ UNCHANGED row
    /\ UNCHANGED <<card, dials, stale, dialer, line, numbered, script, job,
                   read, sweep, dnc, linked, written, crashes>>

\* What a turn of the script may decide: a panel outcome and, when the turn
\* ends the script, the call's outcome.
Turns == { [outcome |-> "pressed_2", decided |-> "none"],
           [outcome |-> "pressed_1", decided |-> "offer_accepted"],
           [outcome |-> "talked", decided |-> "offer_declined"],
           [outcome |-> "wrong_person", decided |-> "not_reached"] }

\* An exchange with the farmer outlasts originate's ten-second time-out and the
\* round trip between a sweep's read and its commit.
ConversationOutlasts == dialer = "idle" /\ sweep = NoSweep

\* A turn of the script, until it is closed.  The wrong person is found out
\* before the offer; a no after a press of two keeps the press on the card.
Turn(c, t) ==
    /\ sess[c] = "talking"
    /\ ConversationOutlasts
    /\ script[c].decided = "none"
    /\ t.outcome = "wrong_person" => script[c].outcome = "none"
    /\ script' = [script EXCEPT ![c] =
                    IF t.outcome = "talked" /\ @.outcome = "pressed_2"
                    THEN [t EXCEPT !.outcome = "pressed_2"] ELSE t]
    /\ UNCHANGED <<card, dials, stale, dialer, line, sess, numbered, served,
                   ended, row, job, read, sweep, dnc, linked, written, faults,
                   crashes>>

\* Mutant: the script goes on when the suppression could not be written.
OptedOutAnyway(c) == [outcome |-> "opted_out", decided |-> "opted_out"]

\* _opt_out when suppress raises: the turn fails with nothing decided.
AfterFailedSuppression(c) == script[c]

\* _opt_out: suppress is awaited before anything is decided or spoken.  With no
\* phone hash it returns at once, having written nothing.
OptOut(c) ==
    /\ sess[c] = "talking"
    /\ ConversationOutlasts
    /\ script[c].decided = "none"
    /\ \/ /\ dnc' = (dnc \/ numbered[c])
          /\ script' = [script EXCEPT ![c] = [outcome |-> "opted_out", decided |-> "opted_out"]]
          /\ UNCHANGED faults
       \/ /\ numbered[c]
          /\ Fault
          /\ script' = [script EXCEPT ![c] = AfterFailedSuppression(c)]
          /\ UNCHANGED dnc
    /\ UNCHANGED <<card, dials, stale, dialer, line, sess, numbered, served,
                   ended, row, job, read, sweep, linked, written, crashes>>

\* _on_call_over: the closing line is spoken, or the silence ladder ran out.
CallOver(c) ==
    /\ sess[c] = "talking"
    /\ \E decided \in {script[c].decided, "abandoned_silence"} \ {"none"} :
          ended' = [ended EXCEPT ![c].outcome = decided]
    /\ sess' = [sess EXCEPT ![c] = "leaving"]
    /\ UNCHANGED <<card, dials, stale, dialer, line, numbered, served, script,
                   row, job, read, sweep, dnc, linked, written, faults,
                   crashes>>

\* The turn loop raises; the line stays open.
PipelineFails(c) ==
    /\ Fault
    /\ sess[c] = "talking"
    /\ sess' = [sess EXCEPT ![c] = "deaf"]
    /\ ended' = [ended EXCEPT ![c].outcome = IF @ = "none" THEN "system_failure" ELSE @]
    /\ UNCHANGED <<card, dials, stale, dialer, line, numbered, served, script,
                   row, job, read, sweep, dnc, linked, written, crashes>>

\* Mutant: the post-call job is queued before the rows are written.
EnqueueFirst(step) == CASE step = "call ends" -> "enqueue"
                        [] step = "enqueue"   -> "finish"
                        [] step = "finish"    -> "finalise"
                        [] step = "finalise"  -> "over"

\* The order of _close.
CloseOrder(step) == CASE step = "call ends" -> "finish"
                      [] step = "finish"    -> "finalise"
                      [] step = "finalise"  -> "enqueue"
                      [] step = "enqueue"   -> "over"

Hangs(c, status, outcome) ==
    /\ ended' = [ended EXCEPT ![c] = [status |-> status, outcome |-> outcome]]
    /\ sess' = [sess EXCEPT ![c] = CloseOrder("call ends")]
    /\ line' = [line EXCEPT ![c] = "down"]
    /\ UNCHANGED <<card, dials, stale, dialer, numbered, served, script, row,
                   job, read, sweep, dnc, linked, written, crashes>>

\* The session's loop ends: our own hang-up, a stop frame, a dropped line, a
\* fault, or the cancellation of a worker that is shutting down.
CallEnds(c) ==
    \/ /\ sess[c] = "leaving"
       /\ Hangs(c, "completed", ended[c].outcome) /\ UNCHANGED faults
    \/ /\ sess[c] \in {"talking", "deaf", "leaving"}
       /\ Hangs(c, "completed",
                IF ended[c].outcome = "none" THEN "caller_hung_up" ELSE ended[c].outcome)
       /\ UNCHANGED faults
    \/ /\ sess[c] \in {"talking", "deaf", "leaving"}
       /\ Hangs(c, "abandoned", "caller_hung_up") /\ UNCHANGED faults
    \/ /\ sess[c] \in {"talking", "deaf", "leaving"}
       /\ Fault /\ Hangs(c, "failed", "system_failure")
    \/ /\ sess[c] \in {"linking", "building", "talking", "deaf", "leaving"}
       /\ Fault /\ Hangs(c, "failed", ended[c].outcome)

\* finish_contact: what the script decided, if the contact was found.
Finish(c) ==
    /\ sess[c] = "finish"
    /\ \/ /\ served[c]
          /\ card' = [card EXCEPT !.status = FinishStatus(c), !.outcome = FinishOutcome(c)]
          /\ written' = [written EXCEPT ![c] = TRUE]
          /\ UNCHANGED faults
       \/ ~served[c] /\ UNCHANGED <<card, written, faults>>
       \/ served[c] /\ Fault /\ UNCHANGED <<card, written>>
    /\ sess' = [sess EXCEPT ![c] = CloseOrder("finish")]
    /\ UNCHANGED <<dials, stale, dialer, line, numbered, served, script, ended,
                   row, job, read, sweep, dnc, linked, crashes>>

\* finalise_call; its failure is suppressed.
Finalise(c) ==
    /\ sess[c] = "finalise"
    /\ \/ /\ row' = [row EXCEPT ![c].status = ended[c].status, ![c].outcome = ended[c].outcome]
          /\ UNCHANGED faults
       \/ Fault /\ UNCHANGED row
    /\ sess' = [sess EXCEPT ![c] = CloseOrder("finalise")]
    /\ UNCHANGED <<card, dials, stale, dialer, line, numbered, served, script,
                   ended, job, read, sweep, dnc, linked, written, crashes>>

\* on_finished queues process_call; a queue that is down loses it.
EnqueuePostCall(c) ==
    /\ sess[c] = "enqueue"
    /\ \/ job' = [job EXCEPT ![c] = "queued"] /\ UNCHANGED faults
       \/ Fault /\ UNCHANGED job
    /\ sess' = [sess EXCEPT ![c] = CloseOrder("enqueue")]
    /\ UNCHANGED <<card, dials, stale, dialer, line, numbered, served, script,
                   ended, row, read, sweep, dnc, linked, written, crashes>>

\* The voice worker is killed.  Nothing else ever closes the call.
VoiceWorkerDies(c) ==
    /\ Fault
    /\ sess[c] \in Live
    /\ crashes < MaxCrashes /\ crashes' = crashes + 1
    /\ sess' = [sess EXCEPT ![c] = "dead"]
    /\ line' = [line EXCEPT ![c] = "down"]
    /\ UNCHANGED <<card, dials, stale, dialer, numbered, served, script, ended,
                   row, job, read, sweep, dnc, linked, written>>

(***************************************************************************)
(* The background worker: process_call and reconcile_contacts.             *)
(***************************************************************************)

\* _set_outcome: a call that ended without an outcome gets a cautious one.
RowOutcome(c) ==
    IF row[c].outcome # "none" THEN row[c].outcome
    ELSE IF row[c].answered THEN "caller_hung_up" ELSE "not_reached"

\* The contact of a call: the one that names it, or the one with its number.
ContactFound(c) == card.call = c \/ numbered[c]

\* The job loads the call and its contact, if it finds one.
PostCallReads(c) ==
    /\ job[c] = "queued"
    /\ job' = [job EXCEPT ![c] = "loaded"]
    /\ read' = [read EXCEPT ![c] =
                  IF ContactFound(c)
                  THEN [status |-> card.status, outcome |-> card.outcome, call |-> RowOutcome(c)]
                  ELSE [NoRead EXCEPT !.call = RowOutcome(c)]]
    /\ UNCHANGED <<card, dials, stale, dialer, line, sess, numbered, served,
                   script, ended, row, sweep, dnc, linked, written, faults,
                   crashes>>

\* _finish_campaign_contact decides from what was read, and the job commits.
PostCallCommits(c) ==
    LET saw == read[c]
        open == saw.status = "dialing" \/ saw.outcome = "none"
    IN
    /\ job[c] = "loaded"
    /\ row' = [row EXCEPT ![c].outcome = saw.call]
    /\ card' = IF ~row[c].campaign \/ saw.status = "none" THEN card
               ELSE IF ~open THEN [card EXCEPT !.call = c]
               ELSE [ status  |-> Emit(StatusFromCall(saw.call), saw.status, card.status),
                      outcome |-> Emit(OutcomeFromCall(saw.call), saw.outcome, card.outcome),
                      call    |-> c ]
    /\ job' = [job EXCEPT ![c] = "none"]
    /\ read' = [read EXCEPT ![c] = NoRead]
    /\ UNCHANGED <<dials, stale, dialer, line, sess, numbered, served, script,
                   ended, sweep, dnc, linked, written, faults, crashes>>

\* The job fails.  process_call raises "so ARQ retries"; ARQ retries only a job
\* that asks for it or is interrupted.
PostCallFails(c) ==
    /\ job[c] # "none"
    /\ Fault
    /\ job' = [job EXCEPT ![c] = "none"]
    /\ read' = [read EXCEPT ![c] = NoRead]
    /\ UNCHANGED <<card, dials, stale, dialer, line, sess, numbered, served,
                   script, ended, row, sweep, dnc, linked, written, crashes>>

\* DIAL_STALE_AFTER passes.
Ages ==
    /\ card.status = "dialing" /\ ~stale
    /\ stale' = TRUE
    /\ UNCHANGED <<card, dials, dialer, line, sess, numbered, served, script,
                   ended, row, job, read, sweep, dnc, linked, written, faults,
                   crashes>>

\* reconcile_contacts reads the stale dials, each with the call it names.
SweepReads ==
    LET status == IF card.call = 0 THEN "absent" ELSE row[card.call].status
        settle(new, outcome) == [status |-> new, outcome |-> outcome, saw |-> card.outcome]
    IN
    /\ sweep = NoSweep
    /\ card.status = "dialing" /\ stale
    /\ status # "in_progress"
    /\ sweep' = IF status = "absent" THEN settle("no_answer", "no_answer")
                ELSE settle(StatusFromCall(row[card.call].outcome),
                            OutcomeFromCall(row[card.call].outcome))
    /\ UNCHANGED <<card, dials, stale, dialer, line, sess, numbered, served,
                   script, ended, row, job, read, dnc, linked, written, faults,
                   crashes>>

\* ... and commits, by primary key and whatever the row holds by now.
SweepCommits ==
    /\ sweep # NoSweep
    /\ card' = [card EXCEPT !.status = sweep.status,
                            !.outcome = Emit(sweep.outcome, sweep.saw, @)]
    /\ sweep' = NoSweep
    /\ UNCHANGED <<dials, stale, dialer, line, sess, numbered, served, script,
                   ended, row, job, read, dnc, linked, written, faults,
                   crashes>>

-----------------------------------------------------------------------------

Init ==
    /\ card = [status |-> "pending", outcome |-> "none", call |-> 0]
    /\ dials = 0
    /\ stale = FALSE
    /\ dialer = "idle"
    /\ line = [c \in Calls |-> "idle"]
    /\ sess = [c \in Calls |-> "none"]
    /\ numbered = [c \in Calls |-> FALSE]
    /\ served = [c \in Calls |-> FALSE]
    /\ script = [c \in Calls |-> NoResult]
    /\ ended = [c \in Calls |-> [status |-> "in_progress", outcome |-> "none"]]
    /\ row = [c \in Calls |-> NoRow]
    /\ job = [c \in Calls |-> "none"]
    /\ read = [c \in Calls |-> NoRead]
    /\ sweep = NoSweep
    /\ dnc = FALSE
    /\ linked = [c \in Calls |-> FALSE]
    /\ written = [c \in Calls |-> FALSE]
    /\ faults = 0
    /\ crashes = 0

Dialer == RecordAttempt \/ OriginateReturns \/ OriginateFails

Network == Rings \/ Unanswered

Session(c) == Link(c) \/ Build(c) \/ Finish(c) \/ Finalise(c) \/ EnqueuePostCall(c)

Farmer(c) ==
    \/ PickUp(c)
    \/ \E t \in Turns : Turn(c, t)
    \/ OptOut(c)
    \/ CallOver(c)
    \/ PipelineFails(c)
    \/ CallEnds(c)

PostCall(c) == PostCallReads(c) \/ PostCallCommits(c)

Sweep == SweepReads \/ SweepCommits

Next ==
    \/ Dialer \/ Network \/ Sweep \/ Ages
    \/ \E c \in Calls :
          \/ Session(c) \/ Farmer(c) \/ VoiceWorkerDies(c)
          \/ PostCall(c) \/ PostCallFails(c)

\* Each process resumes after its awaits, the cron job runs every two minutes,
\* the network rings out, and every call ends: the farmer, the script's closing
\* line or the silence ladder sees to it.  Nobody has to pick up or to decide.
Fairness ==
    /\ WF_vars(OriginateReturns)
    /\ WF_vars(Network)
    /\ WF_vars(Ages)
    /\ WF_vars(Sweep)
    /\ \A c \in Calls :
          WF_vars(Session(c)) /\ WF_vars(CallEnds(c)) /\ WF_vars(PostCall(c))

Spec == Init /\ [][Next]_vars /\ Fairness

-----------------------------------------------------------------------------
(***************************************************************************)
(* Properties.                                                             *)
(***************************************************************************)

Statuses == {"pending", "dialing", "completed", "no_answer", "failed", "opted_out"}
CardOutcomes == {"none", "pressed_1", "pressed_2", "talked", "wrong_person",
                 "opted_out", "no_answer", "failed"}
CallOutcomes == {"none", "offer_accepted", "offer_declined", "opted_out", "not_reached",
                 "system_failure", "abandoned_silence", "caller_hung_up"}
CallStatuses == {"in_progress", "completed", "abandoned", "failed"}

Sessions == Live \cup {"none", "over", "dead"}

TypeContact ==
    /\ card \in [status : Statuses, outcome : CardOutcomes, call : 0..MaxAttempts]
    /\ dials \in 0..MaxAttempts
    /\ stale \in BOOLEAN
    /\ dnc \in BOOLEAN

TypeLine ==
    /\ dialer \in {"idle", "originating"}
    /\ line \in [Calls -> {"idle", "ringing", "answered", "down"}]

TypeSession ==
    /\ sess \in [Calls -> Sessions]
    /\ numbered \in [Calls -> BOOLEAN]
    /\ served \in [Calls -> BOOLEAN]
    /\ linked \in [Calls -> BOOLEAN]
    /\ written \in [Calls -> BOOLEAN]

TypeScript ==
    /\ script \in [Calls -> [outcome : CardOutcomes, decided : CallOutcomes]]
    /\ ended \in [Calls -> [status : CallStatuses, outcome : CallOutcomes]]

TypeRow ==
    row \in [Calls -> [status : CallStatuses \cup {"absent"}, outcome : CallOutcomes,
                      answered : BOOLEAN, campaign : BOOLEAN]]

TypeJobs ==
    /\ job \in [Calls -> {"none", "queued", "loaded"}]
    /\ read \in [Calls -> [status : Statuses \cup {"none"}, outcome : CardOutcomes,
                           call : CallOutcomes]]
    /\ sweep \in [status : Statuses \cup {"none"}, outcome : CardOutcomes, saw : CardOutcomes]

TypeBounds == faults \in 0..MaxFaults /\ crashes \in 0..MaxCrashes

\* The type invariant.
TypeOK ==
    /\ TypeContact /\ TypeLine /\ TypeSession /\ TypeScript /\ TypeRow /\ TypeJobs
    /\ TypeBounds

\* What the farmer decided stays on the card: once the session has written the
\* script's result to the contact it is linked to, neither the post-call job's
\* guess nor a sweep that read the row before replaces it, until the next dial.
ScriptResultKept ==
    \A c \in Calls :
        c = dials /\ linked[c] /\ written[c] /\ script[c].outcome # "none" =>
            /\ card.status = FinishStatus(c)
            /\ card.outcome = FinishOutcome(c)

\* A dial nobody has answered never shows the last conversation: its card is
\* amber, or says that nobody was reached or that the dial failed.
UnansweredDialIsNotACall ==
    dials > 0 /\ sess[dials] = "none" =>
        card.status \in {"dialing", "no_answer", "failed"}

\* A call on which the farmer opted out and which carried no number to suppress.
OptedOutUnnumbered(c) == script[c].decided = "opted_out" /\ ~numbered[c]

\* A card that says "opted out" is backed by the suppression: whichever process
\* wrote it, and from whatever it had read, the farmer is in dnd_status; unless
\* he said so on a call that carried no number, of which nothing is recorded.
OptOutOnRecord ==
    card.status = "opted_out" => dnc \/ \E c \in Calls : OptedOutUnnumbered(c)

\* Not so: "Opt-out is written before it is confirmed" (outbound/responder.py).
\* _suppressor returns without a write when the call has no phone hash, and the
\* farmer is told that he will not be called again.
OptOutWritten == \A c \in Calls : script[c].decided = "opted_out" => dnc

\* Every dial is settled in the end, whichever step fails (a lost field, link,
\* result, call row, queue or job): what the session does not write, the
\* post-call job or the sweep does.  Only the death of the voice worker is out.
DialResolved == card.status = "dialing" ~> card.status # "dialing" \/ crashes > 0

\* "If cards stay amber for longer, the background worker is down" (RUNBOOK.md):
\* while the background worker runs, no card stays amber.  A killed voice worker
\* leaves its call IN_PROGRESS, which the sweep takes for a long conversation.
NoCardStaysAmber == card.status = "dialing" ~> card.status # "dialing"
=============================================================================
