----------------------- MODULE ContactLifecycle_proofs -----------------------
(***************************************************************************)
(* Proofs about ContactLifecycle: a card that says "opted out" is backed   *)
(* by the suppression, or by a call that carried no number to suppress,    *)
(* whichever of the four processes wrote it and from whatever it had read. *)
(* The word travels from the script to the session, the call row, the      *)
(* post-call job and the sweep, and each of them may act long after it     *)
(* read: none may hold the word before the suppression is on record.  And  *)
(* what the farmer decided on the last dial stays on the card (the second  *)
(* part).                                                                  *)
(***************************************************************************)
EXTENDS ContactLifecycle, TLAPS

\* What the sweep is about to commit is a status.
SweepSound == sweep = NoSweep \/ sweep.status \in Statuses

\* What an opted-out card needs: the suppression, or a call without a number.
Backed == dnc \/ \E c \in Calls : OptedOutUnnumbered(c)

\* Nothing has been said on a line that nobody has picked up.
Untouched ==
    \A c \in Calls :
        line[c] \in {"idle", "ringing"} => sess[c] = "none" /\ script[c] = NoResult

\* Everything that may become an opted-out card: the card, what the jobs are
\* about to commit, and what they will read.
CardBacked == card.status = "opted_out" => Backed
SweepBacked == sweep.status = "opted_out" => Backed
ScriptBacked ==
    \A c \in Calls :
        script[c].outcome = "opted_out" \/ script[c].decided = "opted_out" => Backed
EndedBacked == \A c \in Calls : ended[c].outcome = "opted_out" => Backed
RowBacked == \A c \in Calls : row[c].outcome = "opted_out" => Backed
ReadBacked ==
    \A c \in Calls : read[c].status = "opted_out" \/ read[c].call = "opted_out" => Backed

OptOutBacked ==
    CardBacked /\ SweepBacked /\ ScriptBacked /\ EndedBacked /\ RowBacked /\ ReadBacked

IInv == TypeOK /\ SweepSound /\ Untouched /\ OptOutBacked

-----------------------------------------------------------------------------

\* What a call says about its contact is a status and an outcome of the panel.
LEMMA ResultOfCall ==
  ASSUME NEW o \in CallOutcomes
  PROVE  /\ StatusFromCall(o) \in Statuses
         /\ OutcomeFromCall(o) \in CardOutcomes
         /\ StatusFromCall(o) = "opted_out" => o = "opted_out"
  BY DEF StatusFromCall, OutcomeFromCall, Statuses, CardOutcomes, CallOutcomes

\* ... and so is what the finisher writes.
LEMMA ResultOfScript ==
  ASSUME TypeScript, NEW c \in Calls
  PROVE  /\ FinishStatus(c) \in Statuses
         /\ FinishOutcome(c) \in CardOutcomes
         /\ FinishStatus(c) = "opted_out" => script[c].outcome = "opted_out"
  BY DEF TypeScript, FinishStatus, FinishOutcome, Statuses, CardOutcomes

LEMMA EmitOneOfTwo ==
  ASSUME NEW new, NEW saw, NEW current
  PROVE  Emit(new, saw, current) = new \/ Emit(new, saw, current) = current
  BY DEF Emit

\* The words the steps write.
LEMMA Words ==
  /\ {"pending", "dialing", "completed", "no_answer", "failed", "opted_out"} \subseteq Statuses
  /\ {"none", "talked", "no_answer", "failed", "opted_out"} \subseteq CardOutcomes
  /\ {"none", "opted_out", "system_failure", "abandoned_silence", "caller_hung_up",
      "not_reached"} \subseteq CallOutcomes
  /\ {"in_progress", "completed", "abandoned", "failed"} \subseteq CallStatuses
  /\ {"none", "linking", "building", "talking", "deaf", "leaving", "finish", "finalise",
      "enqueue", "over", "dead"} \subseteq Sessions
  /\ \A t \in Turns : /\ t \in [outcome : CardOutcomes, decided : CallOutcomes]
                      /\ t.outcome # "opted_out" /\ t.decided # "opted_out"
                      /\ [t EXCEPT !.outcome = "pressed_2"] \in [outcome : CardOutcomes, decided : CallOutcomes]
                      /\ [t EXCEPT !.outcome = "pressed_2"].outcome # "opted_out"
                      /\ [t EXCEPT !.outcome = "pressed_2"].decided # "opted_out"
  BY DEF Statuses, CardOutcomes, CallOutcomes, CallStatuses, Sessions, Live, Turns

LEMMA InitIInv == Init => IInv
  <1> SUFFICES ASSUME Init PROVE IInv
    OBVIOUS
  <1>1. TypeOK
    <2>1. 0 \in 0..MaxAttempts /\ 0 \in 0..MaxFaults /\ 0 \in 0..MaxCrashes
      BY LifecycleAssumption
    <2>6. TypeContact
      BY <2>1, Words DEF Init, TypeContact
    <2>7. TypeBounds /\ TypeLine
      BY <2>1 DEF Init, TypeBounds, TypeLine
    <2>2. TypeSession
      BY Words DEF Init, TypeSession
    <2>3. TypeScript
      BY Words DEF Init, TypeScript, NoResult
    <2>4. TypeRow
      BY Words DEF Init, TypeRow, NoRow
    <2>5. TypeJobs
      BY Words DEF Init, TypeJobs, NoRead, NoSweep
    <2> QED
      BY <2>2, <2>3, <2>4, <2>5, <2>6, <2>7 DEF TypeOK
  <1>2. SweepSound
    BY DEF Init, SweepSound
  <1>3. OptOutBacked
    BY DEF Init, OptOutBacked, CardBacked, SweepBacked, ScriptBacked, EndedBacked, RowBacked,
       ReadBacked, NoResult, NoRow, NoRead, NoSweep
  <1>4. Untouched
    BY DEF Init, Untouched
  <1> QED
    BY <1>1, <1>2, <1>3, <1>4 DEF IInv

\* Who writes what.
LEMMA Writers ==
  ASSUME Next
  PROVE  /\ \/ UNCHANGED card \/ RecordAttempt \/ OriginateFails \/ SweepCommits
            \/ \E c \in Calls : Link(c) \/ Finish(c) \/ PostCallCommits(c)
         /\ \/ UNCHANGED dials \/ RecordAttempt
         /\ \/ UNCHANGED stale \/ RecordAttempt \/ Ages
         /\ \/ UNCHANGED dnc \/ \E c \in Calls : OptOut(c)
         /\ \/ UNCHANGED job
            \/ \E c \in Calls : EnqueuePostCall(c) \/ PostCallReads(c) \/ PostCallCommits(c) \/ PostCallFails(c)
         /\ \/ UNCHANGED script \/ \E c \in Calls : (\E t \in Turns : Turn(c, t)) \/ OptOut(c)
         /\ \/ UNCHANGED ended
            \/ \E c \in Calls : Build(c) \/ CallOver(c) \/ PipelineFails(c) \/ CallEnds(c)
         /\ \/ UNCHANGED row
            \/ \E c \in Calls : PickUp(c) \/ Build(c) \/ Finalise(c) \/ PostCallCommits(c)
         /\ \/ UNCHANGED read
            \/ \E c \in Calls : PostCallReads(c) \/ PostCallCommits(c) \/ PostCallFails(c)
         /\ \/ UNCHANGED sweep \/ SweepReads \/ SweepCommits
  <1>1. ASSUME RecordAttempt PROVE UNCHANGED <<dnc, job, script, ended, row, read, sweep>>
    BY <1>1 DEF RecordAttempt
  <1>2. ASSUME Rings
        PROVE  UNCHANGED <<card, dials, stale, dnc, job, script, ended, row, read, sweep>>
    BY <1>2 DEF Rings
  <1>3. ASSUME OriginateReturns
        PROVE  UNCHANGED <<card, dials, stale, dnc, job, script, ended, row, read, sweep>>
    BY <1>3 DEF OriginateReturns
  <1>4. ASSUME OriginateFails
        PROVE  UNCHANGED <<dials, stale, dnc, job, script, ended, row, read, sweep>>
    BY <1>4 DEF OriginateFails
  <1>5. ASSUME Unanswered
        PROVE  UNCHANGED <<card, dials, stale, dnc, job, script, ended, row, read, sweep>>
    BY <1>5 DEF Unanswered
  <1>6. ASSUME Ages PROVE UNCHANGED <<card, dials, dnc, job, script, ended, row, read, sweep>>
    BY <1>6 DEF Ages
  <1>7. ASSUME SweepReads PROVE UNCHANGED <<card, dials, stale, dnc, job, script, ended, row, read>>
    BY <1>7 DEF SweepReads
  <1>8. ASSUME SweepCommits PROVE UNCHANGED <<dials, stale, dnc, job, script, ended, row, read>>
    BY <1>8 DEF SweepCommits
  <1>9. ASSUME NEW c \in Calls, PickUp(c)
        PROVE  UNCHANGED <<card, dials, stale, dnc, job, script, ended, read, sweep>>
    BY <1>9 DEF PickUp
  <1>10. ASSUME NEW c \in Calls, Link(c)
         PROVE  UNCHANGED <<dials, stale, dnc, job, script, ended, row, read, sweep>>
    BY <1>10 DEF Link
  <1>11. ASSUME NEW c \in Calls, Build(c)
         PROVE  UNCHANGED <<card, dials, stale, dnc, job, script, read, sweep>>
    BY <1>11 DEF Build
  <1>12. ASSUME NEW c \in Calls, NEW t \in Turns, Turn(c, t)
         PROVE  UNCHANGED <<card, dials, stale, dnc, job, ended, row, read, sweep>>
    BY <1>12 DEF Turn
  <1>13. ASSUME NEW c \in Calls, OptOut(c)
         PROVE  UNCHANGED <<card, dials, stale, job, ended, row, read, sweep>>
    BY <1>13 DEF OptOut
  <1>14. ASSUME NEW c \in Calls, CallOver(c)
         PROVE  UNCHANGED <<card, dials, stale, dnc, job, script, row, read, sweep>>
    BY <1>14 DEF CallOver
  <1>15. ASSUME NEW c \in Calls, PipelineFails(c)
         PROVE  UNCHANGED <<card, dials, stale, dnc, job, script, row, read, sweep>>
    BY <1>15 DEF PipelineFails
  <1>16. ASSUME NEW c \in Calls, CallEnds(c)
         PROVE  UNCHANGED <<card, dials, stale, dnc, job, script, row, read, sweep>>
    BY <1>16 DEF CallEnds, Hangs
  <1>17. ASSUME NEW c \in Calls, Finish(c)
         PROVE  UNCHANGED <<dials, stale, dnc, job, script, ended, row, read, sweep>>
    BY <1>17 DEF Finish
  <1>18. ASSUME NEW c \in Calls, Finalise(c)
         PROVE  UNCHANGED <<card, dials, stale, dnc, job, script, ended, read, sweep>>
    BY <1>18 DEF Finalise
  <1>19. ASSUME NEW c \in Calls, EnqueuePostCall(c)
         PROVE  UNCHANGED <<card, dials, stale, dnc, script, ended, row, read, sweep>>
    BY <1>19 DEF EnqueuePostCall
  <1>20. ASSUME NEW c \in Calls, VoiceWorkerDies(c)
         PROVE  UNCHANGED <<card, dials, stale, dnc, job, script, ended, row, read, sweep>>
    BY <1>20 DEF VoiceWorkerDies
  <1>21. ASSUME NEW c \in Calls, PostCallReads(c)
         PROVE  UNCHANGED <<card, dials, stale, dnc, script, ended, row, sweep>>
    BY <1>21 DEF PostCallReads
  <1>22. ASSUME NEW c \in Calls, PostCallCommits(c)
         PROVE  UNCHANGED <<dials, stale, dnc, script, ended, sweep>>
    BY <1>22 DEF PostCallCommits
  <1>23. ASSUME NEW c \in Calls, PostCallFails(c)
         PROVE  UNCHANGED <<card, dials, stale, dnc, script, ended, row, sweep>>
    BY <1>23 DEF PostCallFails
  <1> QED
    BY <1>1, <1>2, <1>3, <1>4, <1>5, <1>6, <1>7, <1>8, <1>9, <1>10, <1>11, <1>12, <1>13, <1>14,
       <1>15, <1>16, <1>17, <1>18, <1>19, <1>20, <1>21, <1>22, <1>23
       DEF Next, Dialer, Network, Sweep, Session, Farmer, PostCall

\* A commit of the post-call job leaves a result of the call, or what was there.
LEMMA PostCallWrites ==
  ASSUME TypeOK, NEW c \in Calls, PostCallCommits(c)
  PROVE  /\ card'.status \in {StatusFromCall(read[c].call), card.status}
         /\ card'.outcome \in {OutcomeFromCall(read[c].call), card.outcome}
         /\ card'.call \in {c, card.call}
         /\ card' = [status |-> card'.status, outcome |-> card'.outcome, call |-> card'.call]
  BY EmitOneOfTwo DEF PostCallCommits, TypeOK, TypeContact

LEMMA TypeContactNext ==
  ASSUME IInv, Next
  PROVE  TypeContact'
  <1> USE DEF TypeContact
  <1>1. card \in [status : Statuses, outcome : CardOutcomes, call : 0..MaxAttempts]
    BY DEF IInv, TypeOK
  <1>2. card' \in [status : Statuses, outcome : CardOutcomes, call : 0..MaxAttempts]
    <2>1. CASE UNCHANGED card
      BY <1>1, <2>1
    <2>2. CASE RecordAttempt
      BY <1>1, <2>2, Words, LifecycleAssumption DEF RecordAttempt, CallOfNewDial
    <2>3. CASE OriginateFails
      BY <1>1, <2>3, Words DEF OriginateFails
    <2>4. CASE SweepCommits
      <3>1. sweep.status \in Statuses /\ sweep.outcome \in CardOutcomes
        BY <2>4 DEF SweepCommits, IInv, SweepSound, TypeOK, TypeJobs
      <3>2. Emit(sweep.outcome, sweep.saw, card.outcome) \in CardOutcomes
        BY <1>1, <3>1, EmitOneOfTwo
      <3> QED
        BY <1>1, <2>4, <3>1, <3>2 DEF SweepCommits
    <2>5. ASSUME NEW c \in Calls, Link(c)
          PROVE  card' \in [status : Statuses, outcome : CardOutcomes, call : 0..MaxAttempts]
      <3>1. c \in 0..MaxAttempts
        BY LifecycleAssumption DEF Calls
      <3>2. card' = [card EXCEPT !.call = c, !.status = "dialing"] \/ UNCHANGED card
        BY <2>5 DEF Link
      <3> QED
        BY <1>1, <3>1, <3>2, Words
    <2>6. ASSUME NEW c \in Calls, Finish(c)
          PROVE  card' \in [status : Statuses, outcome : CardOutcomes, call : 0..MaxAttempts]
      <3>1. FinishStatus(c) \in Statuses /\ FinishOutcome(c) \in CardOutcomes
        BY ResultOfScript DEF IInv, TypeOK
      <3> QED
        BY <1>1, <2>6, <3>1 DEF Finish
    <2>7. ASSUME NEW c \in Calls, PostCallCommits(c)
          PROVE  card' \in [status : Statuses, outcome : CardOutcomes, call : 0..MaxAttempts]
      <3>1. read[c].call \in CallOutcomes
        BY DEF IInv, TypeOK, TypeJobs
      <3>2. StatusFromCall(read[c].call) \in Statuses /\ OutcomeFromCall(read[c].call) \in CardOutcomes
        BY <3>1, ResultOfCall
      <3>3. TypeOK /\ c \in 0..MaxAttempts
        BY LifecycleAssumption DEF IInv, Calls
      <3> QED
        BY <1>1, <2>7, <3>2, <3>3, PostCallWrites
    <2> QED
      BY <2>1, <2>2, <2>3, <2>4, <2>5, <2>6, <2>7, Writers
  <1>3. dials' \in 0..MaxAttempts /\ stale' \in BOOLEAN /\ dnc' \in BOOLEAN
    <2>1. dials \in 0..MaxAttempts /\ stale \in BOOLEAN /\ dnc \in BOOLEAN
      BY DEF IInv, TypeOK
    <2>2. dials' \in 0..MaxAttempts
      <3>1. CASE UNCHANGED dials
        BY <2>1, <3>1
      <3>2. CASE RecordAttempt
        BY <2>1, <3>2, LifecycleAssumption DEF RecordAttempt
      <3> QED
        BY <3>1, <3>2, Writers
    <2>3. stale' \in BOOLEAN
      BY <2>1, Writers DEF RecordAttempt, Ages
    <2>4. dnc' \in BOOLEAN
      BY <2>1, Writers DEF OptOut
    <2> QED
      BY <2>2, <2>3, <2>4
  <1> QED
    BY <1>2, <1>3

LEMMA TypeScriptNext ==
  ASSUME IInv, Next
  PROVE  TypeScript'
  <1>1. TypeScript
    BY DEF IInv, TypeOK
  <1>2. script' \in [Calls -> [outcome : CardOutcomes, decided : CallOutcomes]]
    <2>1. CASE UNCHANGED script
      BY <1>1, <2>1 DEF TypeScript
    <2>2. ASSUME NEW c \in Calls, NEW t \in Turns, Turn(c, t)
          PROVE  script' \in [Calls -> [outcome : CardOutcomes, decided : CallOutcomes]]
      BY <1>1, <2>2, Words DEF Turn, TypeScript
    <2>3. ASSUME NEW c \in Calls, OptOut(c)
          PROVE  script' \in [Calls -> [outcome : CardOutcomes, decided : CallOutcomes]]
      BY <1>1, <2>3, Words DEF OptOut, AfterFailedSuppression, TypeScript
    <2> QED
      BY <2>1, <2>2, <2>3, Writers
  <1>3. ended' \in [Calls -> [status : CallStatuses, outcome : CallOutcomes]]
    <2> DEFINE Goal == ended' \in [Calls -> [status : CallStatuses, outcome : CallOutcomes]]
    <2>1. CASE UNCHANGED ended
      BY <1>1, <2>1 DEF TypeScript
    <2>2. ASSUME NEW c \in Calls, Build(c) PROVE Goal
      BY <1>1, <2>2, Words DEF Build, TypeScript
    <2>3. ASSUME NEW c \in Calls, CallOver(c) PROVE Goal
      BY <1>1, <2>3, Words DEF CallOver, TypeScript
    <2>4. ASSUME NEW c \in Calls, PipelineFails(c) PROVE Goal
      BY <1>1, <2>4, Words DEF PipelineFails, TypeScript
    <2>5. ASSUME NEW c \in Calls, CallEnds(c) PROVE Goal
      <3>1. PICK s \in CallStatuses, o \in CallOutcomes :
              ended' = [ended EXCEPT ![c] = [status |-> s, outcome |-> o]]
        <4>1. ended[c].outcome \in CallOutcomes
          BY <1>1 DEF TypeScript
        <4> QED
          BY <2>5, <4>1, Words DEF CallEnds, Hangs
      <3> QED
        BY <1>1, <3>1 DEF TypeScript
    <2> QED
      BY <2>1, <2>2, <2>3, <2>4, <2>5, Writers
  <1> QED
    BY <1>2, <1>3 DEF TypeScript

LEMMA TypeRowNext ==
  ASSUME IInv, Next
  PROVE  TypeRow'
  <1>1. TypeRow
    BY DEF IInv, TypeOK
  <1>2. CASE UNCHANGED row
    BY <1>1, <1>2 DEF TypeRow
  <1>3. ASSUME NEW c \in Calls, PickUp(c) PROVE TypeRow'
    BY <1>1, <1>3, Words DEF PickUp, TypeRow
  <1>4. ASSUME NEW c \in Calls, Build(c) PROVE TypeRow'
    <2>1. PICK found \in Finds(c) :
            row' = [row EXCEPT ![c].answered = TRUE, ![c].campaign = found] \/ UNCHANGED row
      BY <1>4 DEF Build, Finds
    <2>2. found \in BOOLEAN
      BY DEF Finds
    <2> QED
      BY <1>1, <2>1, <2>2, ZenonT(30) DEF TypeRow
  <1>5. ASSUME NEW c \in Calls, Finalise(c) PROVE TypeRow'
    <2>1. ended[c].status \in CallStatuses /\ ended[c].outcome \in CallOutcomes
      BY DEF IInv, TypeOK, TypeScript
    <2> QED
      BY <1>1, <1>5, <2>1 DEF Finalise, TypeRow
  <1>6. ASSUME NEW c \in Calls, PostCallCommits(c) PROVE TypeRow'
    <2>1. read[c].call \in CallOutcomes
      BY DEF IInv, TypeOK, TypeJobs
    <2> QED
      BY <1>1, <1>6, <2>1 DEF PostCallCommits, TypeRow
  <1> QED
    BY <1>2, <1>3, <1>4, <1>5, <1>6, Writers

LEMMA TypeJobsNext ==
  ASSUME IInv, Next
  PROVE  TypeJobs' /\ SweepSound'
  <1>1. TypeJobs /\ TypeContact /\ TypeRow /\ SweepSound
    BY DEF IInv, TypeOK
  <1>2. job' \in [Calls -> {"none", "queued", "loaded"}]
    <2>1. \A c \in Calls : EnqueuePostCall(c) => job' = [job EXCEPT ![c] = "queued"] \/ UNCHANGED job
      BY DEF EnqueuePostCall
    <2>2. \A c \in Calls : PostCallReads(c) => job' = [job EXCEPT ![c] = "loaded"]
      BY DEF PostCallReads
    <2>3. \A c \in Calls : PostCallCommits(c) \/ PostCallFails(c) => job' = [job EXCEPT ![c] = "none"]
      BY DEF PostCallCommits, PostCallFails
    <2> QED
      BY <1>1, <2>1, <2>2, <2>3, Writers DEF TypeJobs
  <1>3. read' \in [Calls -> [status : Statuses \cup {"none"}, outcome : CardOutcomes, call : CallOutcomes]]
    <2> DEFINE Goal == read' \in [Calls -> [status : Statuses \cup {"none"}, outcome : CardOutcomes, call : CallOutcomes]]
    <2>1. CASE UNCHANGED read
      BY <1>1, <2>1 DEF TypeJobs
    <2>2. ASSUME NEW c \in Calls, PostCallReads(c) PROVE Goal
      <3>1. RowOutcome(c) \in CallOutcomes
        BY <1>1, Words DEF RowOutcome, TypeRow
      <3> QED
        BY <1>1, <2>2, <3>1, Words DEF PostCallReads, NoRead, TypeJobs, TypeContact
    <2>3. NoRead \in [status : Statuses \cup {"none"}, outcome : CardOutcomes, call : CallOutcomes]
      BY Words DEF NoRead
    <2>4. ASSUME NEW c \in Calls, PostCallCommits(c) PROVE Goal
      BY <1>1, <2>3, <2>4 DEF PostCallCommits, TypeJobs
    <2>5. ASSUME NEW c \in Calls, PostCallFails(c) PROVE Goal
      BY <1>1, <2>3, <2>5 DEF PostCallFails, TypeJobs
    <2> QED
      BY <2>1, <2>2, <2>4, <2>5, Writers
  <1>4. sweep' \in [status : Statuses \cup {"none"}, outcome : CardOutcomes, saw : CardOutcomes] /\ SweepSound'
    <2>1. CASE UNCHANGED sweep
      BY <1>1, <2>1 DEF TypeJobs, SweepSound
    <2>2. CASE SweepCommits
      BY <2>2, Words DEF SweepCommits, NoSweep, SweepSound
    <2>3. CASE SweepReads
      <3>1. PICK s \in Statuses, o \in CardOutcomes : sweep' = [status |-> s, outcome |-> o, saw |-> card.outcome]
        <4>1. CASE sweep' = [status |-> "no_answer", outcome |-> "no_answer", saw |-> card.outcome]
          BY <4>1, Words
        <4>2. CASE /\ card.call # 0
                   /\ sweep' = [status |-> StatusFromCall(row[card.call].outcome),
                                outcome |-> OutcomeFromCall(row[card.call].outcome),
                                saw |-> card.outcome]
          <5>1. card.call \in Calls
            BY <1>1, <4>2, LifecycleAssumption DEF TypeContact, Calls
          <5>2. row[card.call].outcome \in CallOutcomes
            BY <1>1, <5>1 DEF TypeRow
          <5> QED
            BY <4>2, <5>2, ResultOfCall
        <4> QED
          BY <2>3, <4>1, <4>2 DEF SweepReads
      <3>2. card.outcome \in CardOutcomes
        BY <1>1 DEF TypeContact
      <3> QED
        BY <3>1, <3>2 DEF SweepSound
    <2> QED
      BY <2>1, <2>2, <2>3, Writers
  <1> QED
    BY <1>2, <1>3, <1>4 DEF TypeJobs

LEMMA TypeRestNext ==
  ASSUME IInv, Next
  PROVE  TypeLine' /\ TypeSession' /\ TypeBounds'
  <1> USE DEF TypeLine, TypeSession, TypeBounds
  <1>1. TypeLine /\ TypeSession /\ TypeBounds
    BY DEF IInv, TypeOK
  <1>2. CASE RecordAttempt \/ Rings \/ OriginateReturns \/ OriginateFails \/ Unanswered \/ Ages \/ SweepReads \/ SweepCommits
    BY <1>1, <1>2, LifecycleAssumption
       DEF RecordAttempt, Rings, OriginateReturns, OriginateFails, Fault, Unanswered, Ages,
           SweepReads, SweepCommits
  <1>3. ASSUME NEW c \in Calls, PickUp(c) PROVE TypeLine' /\ TypeSession' /\ TypeBounds'
    <2>1. TypeLine'
      BY <1>1, <1>3 DEF PickUp
    <2>2. TypeSession'
      <3>1. /\ served' = [served EXCEPT ![c] = TRUE] \/ UNCHANGED served
            /\ (\E hashed \in BOOLEAN : numbered' = [numbered EXCEPT ![c] = hashed])
               \/ UNCHANGED numbered
        BY <1>3 DEF PickUp
      <3>2. PICK s \in Sessions : sess' = [sess EXCEPT ![c] = s]
        BY <1>3, Words DEF PickUp
      <3> QED
        BY <1>1, <1>3, <3>1, <3>2 DEF PickUp
    <2>3. TypeBounds'
      BY <1>1, <1>3, LifecycleAssumption DEF PickUp, Fault
    <2> QED
      BY <2>1, <2>2, <2>3
  <1>4. ASSUME NEW c \in Calls, Link(c) PROVE TypeLine' /\ TypeSession' /\ TypeBounds'
    <2>1. TypeLine'
      BY <1>1, <1>4 DEF Link
    <2>2. TypeSession'
      BY <1>1, <1>4, Words DEF Link
    <2>3. TypeBounds'
      BY <1>1, <1>4, LifecycleAssumption DEF Link, Fault
    <2> QED
      BY <2>1, <2>2, <2>3
  <1>5. ASSUME NEW c \in Calls, Build(c) PROVE TypeLine' /\ TypeSession' /\ TypeBounds'
    <2>1. TypeLine'
      BY <1>1, <1>5 DEF Build
    <2>2. TypeSession'
      <3>1. PICK b \in BOOLEAN : served' = [served EXCEPT ![c] = b]
        BY <1>5 DEF Build, Finds
      <3>2. PICK s \in Sessions : sess' = [sess EXCEPT ![c] = s]
        BY <1>5, Words DEF Build
      <3> QED
        BY <1>1, <1>5, <3>1, <3>2 DEF Build
    <2>3. TypeBounds'
      BY <1>1, <1>5, LifecycleAssumption DEF Build, Fault
    <2> QED
      BY <2>1, <2>2, <2>3
  <1>6. ASSUME NEW c \in Calls, (\E t \in Turns : Turn(c, t)) \/ OptOut(c)
        PROVE  TypeLine' /\ TypeSession' /\ TypeBounds'
    BY <1>1, <1>6, LifecycleAssumption DEF Turn, OptOut, Fault
  <1>7. ASSUME NEW c \in Calls, CallOver(c) \/ PipelineFails(c)
        PROVE  TypeLine' /\ TypeSession' /\ TypeBounds'
    BY <1>1, <1>7, Words, LifecycleAssumption DEF CallOver, PipelineFails, Fault
  <1>8. ASSUME NEW c \in Calls, CallEnds(c) PROVE TypeLine' /\ TypeSession' /\ TypeBounds'
    BY <1>1, <1>8, Words, LifecycleAssumption DEF CallEnds, Hangs, CloseOrder, Fault
  <1>9. ASSUME NEW c \in Calls, Finish(c) PROVE TypeLine' /\ TypeSession' /\ TypeBounds'
    <2>1. TypeLine'
      BY <1>1, <1>9 DEF Finish
    <2>2. TypeSession'
      BY <1>1, <1>9, Words DEF Finish, CloseOrder
    <2>3. TypeBounds'
      BY <1>1, <1>9, LifecycleAssumption DEF Finish, Fault
    <2> QED
      BY <2>1, <2>2, <2>3
  <1>10. ASSUME NEW c \in Calls, Finalise(c) \/ EnqueuePostCall(c)
         PROVE  TypeLine' /\ TypeSession' /\ TypeBounds'
    BY <1>1, <1>10, Words, LifecycleAssumption DEF Finalise, EnqueuePostCall, CloseOrder, Fault
  <1>11. ASSUME NEW c \in Calls, VoiceWorkerDies(c) PROVE TypeLine' /\ TypeSession' /\ TypeBounds'
    BY <1>1, <1>11, Words, LifecycleAssumption DEF VoiceWorkerDies, Fault
  <1>12. ASSUME NEW c \in Calls, PostCallReads(c) \/ PostCallCommits(c) \/ PostCallFails(c)
         PROVE  TypeLine' /\ TypeSession' /\ TypeBounds'
    BY <1>1, <1>12, LifecycleAssumption DEF PostCallReads, PostCallCommits, PostCallFails, Fault
  <1> QED
    BY <1>2, <1>3, <1>4, <1>5, <1>6, <1>7, <1>8, <1>9, <1>10, <1>11, <1>12
       DEF Next, Dialer, Network, Sweep, Session, Farmer, PostCall

-----------------------------------------------------------------------------

\* A line that has left the ringing does not come back to it.
LEMMA LineMoves ==
  ASSUME IInv, Next, NEW c \in Calls, line'[c] \in {"idle", "ringing"}
  PROVE  line[c] \in {"idle", "ringing"}
  <1>1. line \in [Calls -> {"idle", "ringing", "answered", "down"}]
    BY DEF IInv, TypeOK, TypeLine
  <1>2. CASE UNCHANGED line
    BY <1>1, <1>2
  <1>3. CASE Dialer \/ Network \/ Sweep \/ Ages
    BY <1>1, <1>3
       DEF Dialer, Network, Sweep, RecordAttempt, Rings, OriginateReturns, OriginateFails,
           Unanswered, Ages, SweepReads, SweepCommits
  <1>4. ASSUME NEW d \in Calls, PickUp(d) \/ CallEnds(d) \/ VoiceWorkerDies(d)
        PROVE  line[c] \in {"idle", "ringing"}
    BY <1>1, <1>4 DEF PickUp, CallEnds, Hangs, VoiceWorkerDies
  <1>5. ASSUME NEW d \in Calls,
               \/ Session(d) \/ (\E t \in Turns : Turn(d, t)) \/ OptOut(d) \/ CallOver(d)
               \/ PipelineFails(d) \/ PostCall(d) \/ PostCallFails(d)
        PROVE  UNCHANGED line
    BY <1>5 DEF Session, Link, Build, Finish, Finalise, EnqueuePostCall, Turn, OptOut, CallOver,
                PipelineFails, PostCall, PostCallReads, PostCallCommits, PostCallFails
  <1> QED
    BY <1>2, <1>3, <1>4, <1>5 DEF Next, Farmer

LEMMA UntouchedNext ==
  ASSUME IInv, Next
  PROVE  Untouched'
  <1>1. Untouched /\ TypeSession /\ TypeScript /\ TypeLine
    BY DEF IInv, TypeOK
  <1> SUFFICES ASSUME NEW c \in Calls, line'[c] \in {"idle", "ringing"}
               PROVE  sess'[c] = "none" /\ script'[c] = NoResult
    BY DEF Untouched
  <1>2. sess[c] = "none" /\ script[c] = NoResult
    BY <1>1, LineMoves DEF Untouched
  <1>3. CASE Dialer \/ Network \/ Sweep \/ Ages
    BY <1>2, <1>3
       DEF Dialer, Network, Sweep, RecordAttempt, Rings, OriginateReturns, OriginateFails,
           Unanswered, Ages, SweepReads, SweepCommits
  <1>4. ASSUME NEW d \in Calls, PickUp(d) PROVE sess'[c] = "none" /\ script'[c] = NoResult
    <2>1. d # c
      BY <1>1, <1>4 DEF PickUp, TypeLine
    <2> QED
      BY <1>1, <1>2, <1>4, <2>1 DEF PickUp, TypeSession
  <1>5. ASSUME NEW d \in Calls,
               Session(d) \/ CallOver(d) \/ PipelineFails(d) \/ CallEnds(d) \/ VoiceWorkerDies(d)
        PROVE  sess'[c] = "none" /\ script'[c] = NoResult
    <2>1. d # c /\ UNCHANGED script
      BY <1>2, <1>5 DEF Session, Link, Build, Finish, Finalise, EnqueuePostCall, CallOver,
         PipelineFails, CallEnds, Hangs, VoiceWorkerDies, Live
    <2>2. \E new : sess' = [sess EXCEPT ![d] = new]
      BY <1>5 DEF Session, Link, Build, Finish, Finalise, EnqueuePostCall, CallOver,
         PipelineFails, CallEnds, Hangs, VoiceWorkerDies
    <2> QED
      BY <1>1, <1>2, <2>1, <2>2 DEF TypeSession
  <1>6. ASSUME NEW d \in Calls, (\E t \in Turns : Turn(d, t)) \/ OptOut(d)
        PROVE  sess'[c] = "none" /\ script'[c] = NoResult
    <2>1. d # c /\ UNCHANGED sess
      BY <1>2, <1>6 DEF Turn, OptOut
    <2>2. \E new : script' = [script EXCEPT ![d] = new]
      BY <1>6 DEF Turn, OptOut
    <2> QED
      BY <1>1, <1>2, <2>1, <2>2 DEF TypeScript
  <1>7. ASSUME NEW d \in Calls, PostCall(d) \/ PostCallFails(d)
        PROVE  sess'[c] = "none" /\ script'[c] = NoResult
    BY <1>2, <1>7 DEF PostCall, PostCallReads, PostCallCommits, PostCallFails
  <1> QED
    BY <1>3, <1>4, <1>5, <1>6, <1>7 DEF Next, Farmer

\* Who writes what a frame says of its number.
LEMMA NumberWriters ==
  ASSUME Next
  PROVE  UNCHANGED numbered \/ \E c \in Calls : PickUp(c)
  <1>1. CASE Dialer \/ Network \/ Sweep \/ Ages
    BY <1>1 DEF Dialer, Network, Sweep, RecordAttempt, Rings, OriginateReturns, OriginateFails,
                Unanswered, Ages, SweepReads, SweepCommits
  <1>2. ASSUME NEW c \in Calls, Session(c) \/ VoiceWorkerDies(c) \/ PostCall(c) \/ PostCallFails(c)
        PROVE  UNCHANGED numbered
    BY <1>2 DEF Session, Link, Build, Finish, Finalise, EnqueuePostCall, VoiceWorkerDies,
                PostCall, PostCallReads, PostCallCommits, PostCallFails
  <1>3. ASSUME NEW c \in Calls, Farmer(c) PROVE UNCHANGED numbered \/ PickUp(c)
    BY <1>3 DEF Farmer, Turn, OptOut, CallOver, PipelineFails, CallEnds, Hangs
  <1> QED
    BY <1>1, <1>2, <1>3 DEF Next

\* Neither the suppression nor the word of a call is ever taken back.
LEMMA BackingStays ==
  ASSUME IInv, Next, Backed
  PROVE  Backed'
  <1>1. TypeScript /\ TypeSession /\ Untouched
    BY DEF IInv, TypeOK
  <1>2. CASE dnc
    BY <1>2, Writers DEF OptOut, Backed
  <1>3. ASSUME NEW c \in Calls, OptedOutUnnumbered(c) PROVE OptedOutUnnumbered(c)'
    <2>1. script[c].decided = "opted_out" /\ ~numbered[c]
      BY <1>3 DEF OptedOutUnnumbered
    <2>2. script'[c] = script[c]
      <3>1. ASSUME NEW d \in Calls, (\E t \in Turns : Turn(d, t)) \/ OptOut(d)
            PROVE  script'[c] = script[c]
        <4>1. d # c
          BY <2>1, <3>1 DEF Turn, OptOut
        <4>2. \E new : script' = [script EXCEPT ![d] = new]
          BY <3>1 DEF Turn, OptOut
        <4> QED
          BY <1>1, <4>1, <4>2 DEF TypeScript
      <3> QED
        BY <3>1, Writers
    <2>3. ASSUME NEW d \in Calls, PickUp(d) PROVE ~numbered'[c]
      <3>1. d # c
        BY <1>1, <2>1, <2>3 DEF PickUp, Untouched, NoResult
      <3> QED
        BY <1>1, <2>1, <2>3, <3>1 DEF PickUp, TypeSession
    <2> QED
      BY <2>1, <2>2, <2>3, NumberWriters DEF OptedOutUnnumbered
  <1> QED
    BY <1>2, <1>3 DEF Backed

LEMMA OptOutBackedNext ==
  ASSUME IInv, Next
  PROVE  OptOutBacked'
  <1>1. /\ TypeContact /\ TypeScript /\ TypeRow /\ TypeJobs
        /\ CardBacked /\ SweepBacked /\ ScriptBacked /\ EndedBacked /\ RowBacked /\ ReadBacked
    BY DEF IInv, TypeOK, OptOutBacked
  <1>2. Backed => Backed'
    BY BackingStays
  <1>3. CardBacked'
    <2>1. CASE UNCHANGED card
      BY <1>1, <1>2, <2>1 DEF CardBacked
    <2>2. CASE RecordAttempt \/ OriginateFails
      <3>1. card'.status \in {"dialing", "failed", card.status}
        <4>1. CASE RecordAttempt
          BY <4>1 DEF RecordAttempt
        <4>2. CASE OriginateFails
          BY <1>1, <4>2 DEF OriginateFails, TypeContact
        <4> QED
          BY <2>2, <4>1, <4>2
      <3> QED
        BY <1>1, <1>2, <3>1 DEF CardBacked
    <2>3. CASE SweepCommits
      BY <1>1, <1>2, <2>3 DEF SweepCommits, CardBacked, SweepBacked, TypeContact
    <2>4. ASSUME NEW c \in Calls, Link(c) PROVE CardBacked'
      BY <1>1, <1>2, <2>4 DEF Link, CardBacked, TypeContact
    <2>5. ASSUME NEW c \in Calls, Finish(c) PROVE CardBacked'
      <3>1. card'.status = card.status \/ card'.status = FinishStatus(c)
        BY <1>1, <2>5 DEF Finish, TypeContact
      <3> QED
        BY <1>1, <1>2, <3>1, ResultOfScript DEF CardBacked, ScriptBacked
    <2>6. ASSUME NEW c \in Calls, PostCallCommits(c) PROVE CardBacked'
      <3>1. read[c].call \in CallOutcomes
        BY <1>1 DEF TypeJobs
      <3>2. card'.status \in {StatusFromCall(read[c].call), card.status}
        BY <2>6, PostCallWrites DEF IInv
      <3> QED
        BY <1>1, <1>2, <3>1, <3>2, ResultOfCall DEF CardBacked, ReadBacked
    <2> QED
      BY <2>1, <2>2, <2>3, <2>4, <2>5, <2>6, Writers
  <1>4. SweepBacked'
    <2>1. CASE UNCHANGED sweep
      BY <1>1, <1>2, <2>1 DEF SweepBacked
    <2>2. CASE SweepCommits
      BY <2>2 DEF SweepCommits, NoSweep, SweepBacked
    <2>3. CASE SweepReads
      <3>1. CASE sweep'.status = "no_answer"
        BY <3>1 DEF SweepBacked
      <3>2. CASE card.call # 0 /\ sweep'.status = StatusFromCall(row[card.call].outcome)
        <4>1. card.call \in Calls
          BY <1>1, <3>2, LifecycleAssumption DEF TypeContact, Calls
        <4>2. row[card.call].outcome \in CallOutcomes
          BY <1>1, <4>1 DEF TypeRow
        <4> QED
          BY <1>1, <1>2, <3>2, <4>1, <4>2, ResultOfCall DEF RowBacked, SweepBacked
      <3> QED
        BY <2>3, <3>1, <3>2 DEF SweepReads
    <2> QED
      BY <2>1, <2>2, <2>3, Writers
  <1>5. ScriptBacked'
    <2>1. CASE UNCHANGED script
      BY <1>1, <1>2, <2>1 DEF ScriptBacked
    <2>2. ASSUME NEW c \in Calls, NEW t \in Turns, Turn(c, t) PROVE ScriptBacked'
      <3>1. /\ \A d \in Calls : d # c => script'[d] = script[d]
            /\ script'[c] = t \/ script'[c] = [t EXCEPT !.outcome = "pressed_2"]
        BY <1>1, <2>2 DEF Turn, TypeScript
      <3> QED
        BY <1>1, <1>2, <3>1, Words DEF ScriptBacked
    <2>3. ASSUME NEW c \in Calls, OptOut(c) PROVE ScriptBacked'
      <3>1. CASE script'[c] = script[c]
        BY <1>1, <1>2, <2>3, <3>1 DEF OptOut, TypeScript, ScriptBacked
      <3>2. CASE /\ dnc' = (dnc \/ numbered[c])
                 /\ script' = [script EXCEPT ![c] = [outcome |-> "opted_out", decided |-> "opted_out"]]
        <4>1. numbered' = numbered /\ script'[c].decided = "opted_out"
          BY <1>1, <2>3, <3>2 DEF OptOut, TypeScript
        <4>2. dnc' \/ OptedOutUnnumbered(c)'
          BY <3>2, <4>1 DEF OptedOutUnnumbered
        <4>3. Backed'
          BY <4>2 DEF Backed
        <4> QED
          BY <4>3 DEF ScriptBacked
      <3> QED
        BY <1>1, <2>3, <3>1, <3>2 DEF OptOut, AfterFailedSuppression, TypeScript
    <2> QED
      BY <2>1, <2>2, <2>3, Writers
  <1>6. EndedBacked'
    <2>1. CASE UNCHANGED ended
      BY <1>1, <1>2, <2>1 DEF EndedBacked
    <2>2. ASSUME NEW c \in Calls, Build(c) PROVE EndedBacked'
      BY <1>1, <1>2, <2>2 DEF Build, TypeScript, EndedBacked
    <2>3. ASSUME NEW c \in Calls, CallOver(c) PROVE EndedBacked'
      BY <1>1, <1>2, <2>3 DEF CallOver, TypeScript, EndedBacked, ScriptBacked
    <2>4. ASSUME NEW c \in Calls, PipelineFails(c) PROVE EndedBacked'
      BY <1>1, <1>2, <2>4 DEF PipelineFails, TypeScript, EndedBacked
    <2>5. ASSUME NEW c \in Calls, CallEnds(c) PROVE EndedBacked'
      <3>1. PICK s \in CallStatuses, o \in {"caller_hung_up", "system_failure", ended[c].outcome} :
              ended' = [ended EXCEPT ![c] = [status |-> s, outcome |-> o]]
        BY <2>5, Words DEF CallEnds, Hangs
      <3> QED
        BY <1>1, <1>2, <3>1 DEF TypeScript, EndedBacked
    <2> QED
      BY <2>1, <2>2, <2>3, <2>4, <2>5, Writers
  <1>7. RowBacked'
    <2>1. CASE UNCHANGED row
      BY <1>1, <1>2, <2>1 DEF RowBacked
    <2>2. ASSUME NEW c \in Calls, PickUp(c) PROVE RowBacked'
      BY <1>1, <1>2, <2>2 DEF PickUp, TypeRow, RowBacked
    <2>3. ASSUME NEW c \in Calls, Build(c) PROVE RowBacked'
      BY <1>1, <1>2, <2>3 DEF Build, TypeRow, RowBacked
    <2>4. ASSUME NEW c \in Calls, Finalise(c) PROVE RowBacked'
      BY <1>1, <1>2, <2>4 DEF Finalise, TypeRow, RowBacked, EndedBacked
    <2>5. ASSUME NEW c \in Calls, PostCallCommits(c) PROVE RowBacked'
      BY <1>1, <1>2, <2>5 DEF PostCallCommits, TypeRow, RowBacked, ReadBacked
    <2> QED
      BY <2>1, <2>2, <2>3, <2>4, <2>5, Writers
  <1>8. ReadBacked'
    <2>1. CASE UNCHANGED read
      BY <1>1, <1>2, <2>1 DEF ReadBacked
    <2>2. ASSUME NEW c \in Calls, PostCallReads(c) PROVE ReadBacked'
      <3>1. RowOutcome(c) = "opted_out" => Backed
        BY <1>1 DEF RowOutcome, RowBacked
      <3> QED
        BY <1>1, <1>2, <2>2, <3>1 DEF PostCallReads, NoRead, TypeJobs, ReadBacked, CardBacked
    <2>3. ASSUME NEW c \in Calls, PostCallCommits(c) \/ PostCallFails(c) PROVE ReadBacked'
      BY <1>1, <1>2, <2>3 DEF PostCallCommits, PostCallFails, NoRead, TypeJobs, ReadBacked
    <2> QED
      BY <2>1, <2>2, <2>3, Writers
  <1> QED
    BY <1>3, <1>4, <1>5, <1>6, <1>7, <1>8 DEF OptOutBacked

-----------------------------------------------------------------------------

\* The invariant holds in every reachable state.
THEOREM Invariance == Spec => []IInv
  <1>1. IInv /\ [Next]_vars => IInv'
    <2> SUFFICES ASSUME IInv, [Next]_vars PROVE IInv'
      OBVIOUS
    <2>1. CASE Next
      BY <2>1, TypeContactNext, TypeScriptNext, TypeRowNext, TypeJobsNext, TypeRestNext,
         UntouchedNext, OptOutBackedNext
         DEF IInv, TypeOK
    <2>2. CASE UNCHANGED vars
      BY <2>2
         DEF vars, IInv, TypeOK, TypeContact, TypeLine, TypeSession, TypeScript, TypeRow, TypeJobs,
         TypeBounds, SweepSound, Untouched, Backed, OptedOutUnnumbered, OptOutBacked, CardBacked, SweepBacked, ScriptBacked, EndedBacked,
         RowBacked, ReadBacked
    <2> QED
      BY <2>1, <2>2
  <1> QED
    BY InitIInv, <1>1, PTL DEF Spec

\* Every variable keeps its type: no process writes a word into the contact or
\* the call row that the column does not know.
THEOREM TypeCorrect == Spec => []TypeOK
  <1>1. IInv => TypeOK
    BY DEF IInv
  <1> QED
    BY Invariance, <1>1, PTL

\* A card that says "opted out" is backed by the suppression, or the farmer said
\* so on a call without a number, for any number of dials, faults and crashes
\* (_opt_out awaits suppress before it decides).
THEOREM OptedOutIsSuppressed == Spec => []OptOutOnRecord
  <1>1. IInv => OptOutOnRecord
    BY DEF IInv, OptOutBacked, CardBacked, Backed, OptOutOnRecord
  <1> QED
    BY Invariance, <1>1, PTL

-----------------------------------------------------------------------------
(* What the farmer decided stays on the card, and a dial nobody has        *)
(* answered never shows the last conversation.  The session, the post-call *)
(* job and the sweep write one row from what each read before; the         *)
(* argument is about when each may have read it.                           *)

\* Only the last dial has a session or a job.
LastDialOnly ==
    \A c \in Calls : c # dials => sess[c] \in {"none", "over", "dead"} /\ job[c] = "none"
NotDialledYet == \A c \in Calls : c > dials => sess[c] = "none"

\* No session has begun on a line nobody has picked up.
NotPickedUp == \A c \in Calls : line[c] \in {"idle", "ringing"} => sess[c] = "none"

\* Nothing is decided, linked or written before its place in the call.
InOrder ==
    \A c \in Calls :
        /\ sess[c] \in {"none", "linking", "building"} => script[c].outcome = "none"
        /\ sess[c] \in {"none", "linking"} => ~linked[c]
        /\ written[c] => sess[c] \in {"finalise", "enqueue", "over", "dead"}
        /\ job[c] # "none" => sess[c] = "over"

\* The call row says in progress until finalise_call.
Underway == {"linking", "building", "talking", "deaf", "leaving", "finish", "finalise"}
RowOpen == \A c \in Calls : sess[c] \in Underway => row[c].status = "in_progress"

\* Before its session begins the last dial belongs to no call, and a sweep that
\* has read it has read just that.
NoCallYet ==
    \A c \in Calls :
        c = dials /\ sess[c] = "none" =>
            /\ card.call = 0
            /\ card.status \in {"dialing", "no_answer", "failed"}
            /\ sweep = NoSweep \/ sweep.status = "no_answer"

NamesItsCall == \A c \in Calls : c = dials /\ linked[c] => card.call = c

\* While the farmer talks, originate has returned.
DialerDone == \A c \in Calls : c = dials /\ script[c].outcome # "none" => dialer = "idle"

\* A linked dial on which something is decided: the sweep stays away from it until
\* the result is written, and from then on; the job reads the result.
Decided(c) == c = dials /\ linked[c] /\ script[c].outcome # "none"
SweepStaysAway ==
    \A c \in Calls :
        Decided(c) /\ (written[c] \/ sess[c] \in {"talking", "deaf", "leaving", "finish"})
            => sweep = NoSweep
ReadAfter ==
    \A c \in Calls :
        Decided(c) /\ written[c] /\ job[c] = "loaded" =>
            read[c].status = FinishStatus(c) /\ read[c].outcome = FinishOutcome(c)

ResultInv ==
    /\ LastDialOnly /\ NotDialledYet /\ NotPickedUp /\ InOrder /\ RowOpen
    /\ NoCallYet /\ NamesItsCall /\ DialerDone
    /\ SweepStaysAway /\ ReadAfter /\ ScriptResultKept

-----------------------------------------------------------------------------
(* What a step does to a session.                                          *)

\* From where to where a session moves, once it has begun.
Moves ==
    {"linking"} \X {"building", "finish", "dead"}
    \cup {"building"} \X {"talking", "deaf", "finish", "dead"}
    \cup {"talking"} \X {"leaving", "deaf", "finish", "dead"}
    \cup {"deaf", "leaving"} \X {"finish", "dead"}
    \cup {"finish"} \X {"finalise", "dead"}
    \cup {"finalise"} \X {"enqueue", "dead"}
    \cup {"enqueue"} \X {"over", "dead"}

LEMMA SessionWriters ==
  ASSUME Next
  PROVE  /\ UNCHANGED dialer \/ RecordAttempt \/ OriginateReturns \/ OriginateFails
         /\ UNCHANGED linked \/ \E c \in Calls : Link(c)
         /\ UNCHANGED written \/ \E c \in Calls : Finish(c)
         /\ \/ UNCHANGED sess
            \/ \E c \in Calls : \/ PickUp(c) \/ Link(c) \/ Build(c) \/ CallOver(c)
                                \/ PipelineFails(c) \/ CallEnds(c) \/ Finish(c)
                                \/ Finalise(c) \/ EnqueuePostCall(c) \/ VoiceWorkerDies(c)
  <1>1. CASE Dialer \/ Network \/ Sweep \/ Ages
    BY <1>1 DEF Dialer, Network, Sweep, RecordAttempt, Rings, OriginateReturns, OriginateFails,
                Unanswered, Ages, SweepReads, SweepCommits
  <1>2. ASSUME NEW c \in Calls, Session(c) \/ Farmer(c) \/ VoiceWorkerDies(c)
        PROVE  /\ UNCHANGED dialer
               /\ UNCHANGED linked \/ Link(c)
               /\ UNCHANGED written \/ Finish(c)
               /\ \/ UNCHANGED sess \/ PickUp(c) \/ Link(c) \/ Build(c) \/ CallOver(c)
                  \/ PipelineFails(c) \/ CallEnds(c) \/ Finish(c)
                  \/ Finalise(c) \/ EnqueuePostCall(c) \/ VoiceWorkerDies(c)
    <2>1. CASE PickUp(c)
      BY <2>1 DEF PickUp
    <2>2. CASE Link(c)
      BY <2>2 DEF Link
    <2>3. CASE Build(c)
      BY <2>3 DEF Build
    <2>4. CASE \E t \in Turns : Turn(c, t)
      BY <2>4 DEF Turn
    <2>5. CASE OptOut(c)
      BY <2>5 DEF OptOut
    <2>6. CASE CallOver(c)
      BY <2>6 DEF CallOver
    <2>7. CASE PipelineFails(c)
      BY <2>7 DEF PipelineFails
    <2>8. CASE CallEnds(c)
      BY <2>8 DEF CallEnds, Hangs
    <2>9. CASE Finish(c)
      BY <2>9 DEF Finish
    <2>10. CASE Finalise(c)
      BY <2>10 DEF Finalise
    <2>11. CASE EnqueuePostCall(c)
      BY <2>11 DEF EnqueuePostCall
    <2>12. CASE VoiceWorkerDies(c)
      BY <2>12 DEF VoiceWorkerDies
    <2> QED
      BY <1>2, <2>1, <2>2, <2>3, <2>4, <2>5, <2>6, <2>7, <2>8, <2>9, <2>10, <2>11, <2>12
         DEF Session, Farmer
  <1>3. ASSUME NEW c \in Calls, PostCall(c) \/ PostCallFails(c)
        PROVE  UNCHANGED <<dialer, linked, written, sess>>
    BY <1>3 DEF PostCall, PostCallReads, PostCallCommits, PostCallFails
  <1> QED
    BY <1>1, <1>2, <1>3 DEF Next

LEMMA SessionMoves ==
  ASSUME IInv, NotPickedUp, Next, NEW c \in Calls
  PROVE  \/ sess'[c] = sess[c]
         \/ /\ sess[c] = "none" /\ c = dials /\ UNCHANGED dials
            /\ sess'[c] \in {"linking", "building", "over"}
            /\ line'[c] \in {"answered", "down"} /\ PickUp(c)
         \/ <<sess[c], sess'[c]>> \in Moves /\ UNCHANGED dials
  <1> DEFINE Goal == \/ sess'[c] = sess[c]
                     \/ /\ sess[c] = "none" /\ c = dials /\ UNCHANGED dials
                        /\ sess'[c] \in {"linking", "building", "over"}
                        /\ line'[c] \in {"answered", "down"} /\ PickUp(c)
                     \/ <<sess[c], sess'[c]>> \in Moves /\ UNCHANGED dials
  <1>1. sess \in [Calls -> Sessions]
    BY DEF IInv, TypeOK, TypeSession
  <1>2. CASE UNCHANGED sess
    BY <1>2
  <1>3. ASSUME NEW d \in Calls, PickUp(d) PROVE Goal
    BY <1>1, <1>3 DEF PickUp, NotPickedUp, IInv, TypeOK, TypeLine
  <1>4. ASSUME NEW d \in Calls, Link(d) PROVE Goal
    BY <1>1, <1>4 DEF Link, Moves
  <1>5. ASSUME NEW d \in Calls, Build(d) PROVE Goal
    BY <1>1, <1>5 DEF Build, Moves
  <1>6. ASSUME NEW d \in Calls, CallOver(d) \/ PipelineFails(d) PROVE Goal
    BY <1>1, <1>6 DEF CallOver, PipelineFails, Moves
  <1>7. ASSUME NEW d \in Calls, CallEnds(d) PROVE Goal
    <2>1. /\ sess[d] \in {"linking", "building", "talking", "deaf", "leaving"}
          /\ sess' = [sess EXCEPT ![d] = "finish"] /\ UNCHANGED dials
      BY <1>7 DEF CallEnds, Hangs, CloseOrder
    <2> QED
      BY <1>1, <2>1 DEF Moves
  <1>8. ASSUME NEW d \in Calls, Finish(d) PROVE Goal
    BY <1>1, <1>8 DEF Finish, CloseOrder, Moves
  <1>9. ASSUME NEW d \in Calls, Finalise(d) PROVE Goal
    BY <1>1, <1>9 DEF Finalise, CloseOrder, Moves
  <1>10. ASSUME NEW d \in Calls, EnqueuePostCall(d) PROVE Goal
    BY <1>1, <1>10 DEF EnqueuePostCall, CloseOrder, Moves
  <1>11. ASSUME NEW d \in Calls, VoiceWorkerDies(d) PROVE Goal
    BY <1>1, <1>11 DEF VoiceWorkerDies, Live, Moves
  <1> QED
    BY <1>2, <1>3, <1>4, <1>5, <1>6, <1>7, <1>8, <1>9, <1>10, <1>11, SessionWriters

-----------------------------------------------------------------------------
(* The parts of the invariant, one after the other.                        *)

LEMMA InitResult == Init => ResultInv
  BY LifecycleAssumption
     DEF Init, ResultInv, LastDialOnly, NotDialledYet, NotPickedUp, InOrder, RowOpen, Underway,
         NoCallYet, NamesItsCall, DialerDone, SweepStaysAway, Decided, ReadAfter,
         ScriptResultKept, NoResult, Calls

LEMMA LastDialOnlyNext ==
  ASSUME IInv, ResultInv, Next
  PROVE  LastDialOnly' /\ NotDialledYet' /\ NotPickedUp'
  <1>1. /\ LastDialOnly /\ NotDialledYet /\ NotPickedUp /\ InOrder
        /\ TypeContact /\ TypeLine /\ TypeSession /\ TypeJobs
    BY DEF ResultInv, IInv, TypeOK
  <1>2. LastDialOnly'
    <2> SUFFICES ASSUME NEW c \in Calls, c # dials'
                 PROVE  sess'[c] \in {"none", "over", "dead"} /\ job'[c] = "none"
      BY DEF LastDialOnly
    <2>1. CASE RecordAttempt
      BY <2>1 DEF RecordAttempt
    <2>2. CASE UNCHANGED dials
      <3>1. c # dials /\ sess[c] \in {"none", "over", "dead"} /\ job[c] = "none"
        BY <1>1, <2>2 DEF LastDialOnly
      <3>2. sess'[c] = sess[c]
        BY <1>1, <3>1, SessionMoves DEF Moves
      <3>3. job'[c] = job[c]
        <4>1. CASE UNCHANGED job
          BY <4>1
        <4>2. ASSUME NEW d \in Calls, EnqueuePostCall(d) PROVE job'[c] = job[c]
          BY <1>1, <3>1, <4>2 DEF EnqueuePostCall, TypeJobs
        <4>3. ASSUME NEW d \in Calls, PostCallReads(d) \/ PostCallCommits(d) \/ PostCallFails(d)
              PROVE job'[c] = job[c]
          BY <1>1, <3>1, <4>3 DEF PostCallReads, PostCallCommits, PostCallFails, TypeJobs
        <4> QED
          BY <4>1, <4>2, <4>3, Writers
      <3> QED
        BY <3>1, <3>2, <3>3
    <2> QED
      BY <2>1, <2>2, Writers
  <1>3. NotDialledYet'
    <2> SUFFICES ASSUME NEW c \in Calls, c > dials' PROVE sess'[c] = "none"
      BY DEF NotDialledYet
    <2>1. c > dials /\ c # dials
      <3>1. dials' = dials \/ dials' = dials + 1
        BY Writers DEF RecordAttempt
      <3> QED
        BY <1>1, <3>1, LifecycleAssumption DEF TypeContact, Calls
    <2> QED
      BY <1>1, <2>1, SessionMoves DEF NotDialledYet, Moves
  <1>4. NotPickedUp'
    <2> SUFFICES ASSUME NEW c \in Calls, line'[c] \in {"idle", "ringing"} PROVE sess'[c] = "none"
      BY DEF NotPickedUp
    <2>1. sess[c] = "none"
      BY <1>1, LineMoves DEF NotPickedUp
    <2> QED
      BY <1>1, <2>1, SessionMoves DEF Moves
  <1> QED
    BY <1>2, <1>3, <1>4

\* The result of a script changes in a conversation only.
LEMMA ScriptStays ==
  ASSUME IInv, Next, NEW c \in Calls, script'[c] # script[c]
  PROVE  /\ sess[c] = "talking" /\ dialer = "idle" /\ sweep = NoSweep
         /\ UNCHANGED <<dials, sess, linked, written, dialer, sweep, card, job, read, row>>
  <1>1. TypeScript
    BY DEF IInv, TypeOK
  <1>2. ASSUME NEW d \in Calls, NEW t \in Turns, Turn(d, t)
        PROVE  /\ \A b \in Calls : b # d => script'[b] = script[b]
               /\ sess[d] = "talking" /\ dialer = "idle" /\ sweep = NoSweep
               /\ UNCHANGED <<dials, sess, linked, written, dialer, sweep, card, job, read, row>>
    BY <1>1, <1>2 DEF Turn, ConversationOutlasts, TypeScript
  <1>3. ASSUME NEW d \in Calls, OptOut(d)
        PROVE  /\ \A b \in Calls : b # d => script'[b] = script[b]
               /\ sess[d] = "talking" /\ dialer = "idle" /\ sweep = NoSweep
               /\ UNCHANGED <<dials, sess, linked, written, dialer, sweep, card, job, read, row>>
    BY <1>1, <1>3 DEF OptOut, ConversationOutlasts, AfterFailedSuppression, TypeScript
  <1> QED
    BY <1>2, <1>3, Writers

LEMMA InOrderNext ==
  ASSUME IInv, ResultInv, Next
  PROVE  InOrder'
  <1>1. /\ LastDialOnly /\ NotPickedUp /\ InOrder /\ TypeSession /\ TypeJobs
    BY DEF ResultInv, IInv, TypeOK
  <1> SUFFICES ASSUME NEW c \in Calls
               PROVE  /\ sess'[c] \in {"none", "linking", "building"} => script'[c].outcome = "none"
                      /\ sess'[c] \in {"none", "linking"} => ~linked'[c]
                      /\ written'[c] => sess'[c] \in {"finalise", "enqueue", "over", "dead"}
                      /\ job'[c] # "none" => sess'[c] = "over"
    BY DEF InOrder
  <1>2. ASSUME sess'[c] \in {"none", "linking", "building"} PROVE script'[c].outcome = "none"
    <2>1. sess[c] \in {"none", "linking", "building"}
      BY <1>1, <1>2, SessionMoves DEF Moves
    <2>2. script'[c] = script[c]
      BY <2>1, ScriptStays
    <2> QED
      BY <1>1, <2>1, <2>2 DEF InOrder
  <1>3. ASSUME sess'[c] \in {"none", "linking"} PROVE ~linked'[c]
    <2>1. sess[c] \in {"none", "linking"}
      BY <1>1, <1>3, SessionMoves DEF Moves
    <2>2. ASSUME NEW d \in Calls, Link(d) PROVE linked'[c] = linked[c]
      BY <1>1, <1>3, <2>2 DEF Link, TypeSession
    <2> QED
      BY <1>1, <2>1, <2>2, SessionWriters DEF InOrder
  <1>4. ASSUME written'[c] PROVE sess'[c] \in {"finalise", "enqueue", "over", "dead"}
    <2>1. CASE written[c]
      BY <1>1, <2>1, SessionMoves DEF InOrder, Moves
    <2>2. ASSUME NEW d \in Calls, Finish(d), ~written[c]
          PROVE sess'[c] \in {"finalise", "enqueue", "over", "dead"}
      BY <1>1, <1>4, <2>2 DEF Finish, CloseOrder, TypeSession
    <2> QED
      BY <1>4, <2>1, <2>2, SessionWriters
  <1>5. ASSUME job'[c] # "none" PROVE sess'[c] = "over"
    <2>1. CASE job[c] # "none"
      BY <1>1, <2>1, SessionMoves, ZenonT(30) DEF InOrder, Moves
    <2>2. ASSUME NEW d \in Calls, EnqueuePostCall(d), job[c] = "none" PROVE sess'[c] = "over"
      BY <1>1, <1>5, <2>2 DEF EnqueuePostCall, CloseOrder, TypeSession, TypeJobs
    <2>3. ASSUME NEW d \in Calls, PostCallReads(d) \/ PostCallCommits(d) \/ PostCallFails(d)
          PROVE job[c] # "none"
      BY <1>1, <1>5, <2>3 DEF PostCallReads, PostCallCommits, PostCallFails, TypeJobs
    <2> QED
      BY <1>5, <2>1, <2>2, <2>3, Writers
  <1> QED
    BY <1>2, <1>3, <1>4, <1>5

LEMMA RowOpenNext ==
  ASSUME IInv, ResultInv, Next
  PROVE  RowOpen'
  <1>1. LastDialOnly /\ NotPickedUp /\ RowOpen /\ TypeSession /\ TypeRow
    BY DEF ResultInv, IInv, TypeOK
  <1> SUFFICES ASSUME NEW c \in Calls, sess'[c] \in Underway
               PROVE  row'[c].status = "in_progress"
    BY DEF RowOpen
  <1>2. CASE PickUp(c)
    BY <1>1, <1>2 DEF PickUp, TypeSession, TypeRow, Underway
  <1>3. CASE ~PickUp(c)
    <2>1. row[c].status = "in_progress"
      BY <1>1, <1>3, SessionMoves DEF RowOpen, Moves, Underway
    <2>2. ASSUME NEW d \in Calls, PickUp(d) \/ Build(d) \/ PostCallCommits(d)
          PROVE  row'[c].status = row[c].status
      BY <1>1, <1>3, <2>2 DEF PickUp, Build, PostCallCommits, TypeRow
    <2>3. ASSUME NEW d \in Calls, Finalise(d) PROVE row'[c].status = row[c].status
      BY <1>1, <2>3 DEF Finalise, CloseOrder, TypeSession, TypeRow, Underway
    <2> QED
      BY <2>1, <2>2, <2>3, Writers
  <1> QED
    BY <1>2, <1>3

\* A new dial has nothing of a call.
LEMMA NewDial ==
  ASSUME IInv, ResultInv, RecordAttempt, NEW c \in Calls, c = dials'
  PROVE  /\ sess[c] = "none" /\ script[c].outcome = "none" /\ ~linked[c]
         /\ UNCHANGED <<sess, script, linked, written, job, read, sweep>>
  BY DEF RecordAttempt, ResultInv, NotDialledYet, InOrder, IInv, TypeOK, TypeContact

LEMMA NoCallYetNext ==
  ASSUME IInv, ResultInv, Next
  PROVE  NoCallYet'
  <1>1. /\ LastDialOnly /\ NotPickedUp /\ InOrder /\ NoCallYet
        /\ TypeContact /\ TypeSession /\ TypeJobs
    BY DEF ResultInv, IInv, TypeOK
  <1> DEFINE Goal == /\ card'.call = 0
                     /\ card'.status \in {"dialing", "no_answer", "failed"}
                     /\ sweep' = NoSweep \/ sweep'.status = "no_answer"
  <1> SUFFICES ASSUME NEW c \in Calls, c = dials', sess'[c] = "none" PROVE Goal
    BY DEF NoCallYet, NoSweep
  <1>2. CASE RecordAttempt
    BY <1>2 DEF RecordAttempt, CallOfNewDial
  <1>3. CASE ~RecordAttempt
    <2>1. c = dials /\ sess[c] = "none"
      BY <1>1, <1>3, SessionMoves, Writers DEF Moves
    <2>2. /\ card.call = 0 /\ card.status \in {"dialing", "no_answer", "failed"}
          /\ sweep = NoSweep \/ sweep.status = "no_answer"
      BY <1>1, <2>1 DEF NoCallYet
    <2>3. \A d \in Calls : ~Link(d) /\ ~Finish(d) /\ ~PostCallCommits(d)
      <3>1. \A d \in Calls : sess[d] \in {"none", "over", "dead"} /\ job[d] = "none"
        BY <1>1, <2>1 DEF LastDialOnly, InOrder
      <3> QED
        BY <3>1 DEF Link, Finish, PostCallCommits
    <2>4. card'.call = 0 /\ card'.status \in {"dialing", "no_answer", "failed"}
      <3>1. CASE UNCHANGED card
        BY <2>2, <3>1
      <3>2. CASE OriginateFails
        BY <1>1, <2>2, <3>2 DEF OriginateFails, TypeContact
      <3>3. CASE SweepCommits
        BY <1>1, <2>2, <3>3 DEF SweepCommits, TypeContact
      <3> QED
        BY <1>3, <2>3, <3>1, <3>2, <3>3, Writers
    <2>5. sweep' = NoSweep \/ sweep'.status = "no_answer"
      <3>1. CASE UNCHANGED sweep
        BY <2>2, <3>1
      <3>2. CASE SweepReads
        BY <2>2, <3>2 DEF SweepReads
      <3>3. CASE SweepCommits
        BY <3>3 DEF SweepCommits
      <3> QED
        BY <3>1, <3>2, <3>3, Writers
    <2> QED
      BY <2>4, <2>5
  <1> QED
    BY <1>2, <1>3

LEMMA NamesItsCallNext ==
  ASSUME IInv, ResultInv, Next
  PROVE  NamesItsCall'
  <1>1. LastDialOnly /\ NamesItsCall /\ TypeContact /\ TypeSession /\ TypeJobs
    BY DEF ResultInv, IInv, TypeOK
  <1> SUFFICES ASSUME NEW c \in Calls, c = dials', linked'[c] PROVE card'.call = c
    BY DEF NamesItsCall
  <1>2. CASE RecordAttempt
    BY <1>2, NewDial
  <1>3. ASSUME NEW d \in Calls, Link(d) PROVE card'.call = c
    <2>1. d = dials /\ UNCHANGED dials
      BY <1>1, <1>3 DEF Link, LastDialOnly
    <2>2. CASE UNCHANGED <<card, linked>>
      BY <1>1, <2>1, <2>2 DEF NamesItsCall
    <2>3. CASE card' = [card EXCEPT !.call = d, !.status = "dialing"]
      BY <1>1, <2>1, <2>3 DEF TypeContact
    <2> QED
      BY <1>3, <2>2, <2>3 DEF Link
  <1>4. ASSUME NEW d \in Calls, PostCallCommits(d), UNCHANGED dials, UNCHANGED linked
        PROVE  card'.call = c
    <2>1. d = c /\ card.call = c
      BY <1>1, <1>4 DEF PostCallCommits, LastDialOnly, NamesItsCall
    <2>2. card'.call \in {d, card.call}
      BY <1>4, PostCallWrites DEF IInv
    <2> QED
      BY <2>1, <2>2
  <1>5. ASSUME UNCHANGED card \/ OriginateFails \/ SweepCommits \/ \E d \in Calls : Finish(d),
               UNCHANGED dials, UNCHANGED linked
        PROVE  card'.call = c
    BY <1>1, <1>5 DEF OriginateFails, SweepCommits, Finish, TypeContact, NamesItsCall
  <1> QED
    BY <1>2, <1>3, <1>4, <1>5, Writers, SessionWriters

LEMMA DialerDoneNext ==
  ASSUME IInv, ResultInv, Next
  PROVE  DialerDone'
  <1>1. DialerDone
    BY DEF ResultInv
  <1> SUFFICES ASSUME NEW c \in Calls, c = dials', script'[c].outcome # "none"
               PROVE  dialer' = "idle"
    BY DEF DialerDone
  <1>2. CASE RecordAttempt
    BY <1>2, NewDial
  <1>3. CASE OriginateReturns \/ OriginateFails
    BY <1>3 DEF OriginateReturns, OriginateFails
  <1>4. CASE script'[c] # script[c]
    BY <1>4, ScriptStays
  <1>5. CASE script'[c] = script[c] /\ UNCHANGED dials /\ UNCHANGED dialer
    BY <1>1, <1>5 DEF DialerDone
  <1> QED
    BY <1>2, <1>3, <1>4, <1>5, Writers, SessionWriters

\* What makes a linked and decided dial stays as it is, but for the conversation
\* itself and the link, which comes before it.
LEMMA DecidedBefore ==
  ASSUME IInv, ResultInv, Next, NEW c \in Calls, Decided(c)', sess[c] # "talking"
  PROVE  Decided(c) /\ UNCHANGED dials /\ script'[c] = script[c]
  <1>1. LastDialOnly /\ InOrder /\ TypeSession
    BY DEF ResultInv, IInv, TypeOK
  <1>2. c = dials' /\ linked'[c] /\ script'[c].outcome # "none"
    BY DEF Decided
  <1>3. script'[c] = script[c]
    BY ScriptStays
  <1>4. UNCHANGED dials
    BY <1>2, NewDial, Writers
  <1>5. linked[c]
    <2>1. ASSUME NEW d \in Calls, Link(d) PROVE linked'[c] = linked[c]
      BY <1>1, <1>2, <1>3, <2>1 DEF Link, InOrder, TypeSession
    <2> QED
      BY <1>2, <2>1, SessionWriters
  <1> QED
    BY <1>2, <1>3, <1>4, <1>5 DEF Decided

LEMMA SweepStaysAwayNext ==
  ASSUME IInv, ResultInv, Next
  PROVE  SweepStaysAway'
  <1> DEFINE InCall == {"talking", "deaf", "leaving", "finish"}
  <1>1. /\ LastDialOnly /\ NotPickedUp /\ InOrder /\ RowOpen /\ NamesItsCall
        /\ SweepStaysAway /\ ScriptResultKept /\ TypeSession
    BY DEF ResultInv, IInv, TypeOK
  <1> SUFFICES ASSUME NEW c \in Calls, Decided(c)', written'[c] \/ sess'[c] \in InCall
               PROVE  sweep' = NoSweep
    BY DEF SweepStaysAway, NoSweep, Decided
  <1>2. CASE SweepCommits
    BY <1>2 DEF SweepCommits
  <1>3. CASE SweepReads
    <2>1. Decided(c) /\ (written[c] \/ sess[c] \in InCall)
      BY <1>3 DEF SweepReads, Decided
    <2>2. card.call = c /\ c # 0 /\ card.status = "dialing" /\ row[c].status # "in_progress"
      BY <1>1, <1>3, <2>1, LifecycleAssumption DEF SweepReads, NamesItsCall, Decided, Calls
    <2>3. ~written[c]
      <3>1. FinishStatus(c) # "dialing"
        BY <2>1 DEF FinishStatus, Decided
      <3>2. written[c] => card.status = FinishStatus(c)
        BY <1>1, <2>1 DEF ScriptResultKept, Decided
      <3> QED
        BY <2>2, <3>1, <3>2
    <2>4. sess[c] \notin InCall
      BY <1>1, <2>2 DEF RowOpen, Underway
    <2> QED
      BY <2>1, <2>3, <2>4
  <1>4. CASE UNCHANGED sweep
    <2>1. CASE script'[c] # script[c]
      BY <2>1, ScriptStays
    <2>2. CASE script'[c] = script[c]
      <3>1. sess[c] \notin {"none", "linking", "building"}
        BY <1>1, <2>2 DEF Decided, InOrder
      <3>2. Decided(c)
        <4>1. CASE sess[c] # "talking"
          BY <4>1, DecidedBefore
        <4>2. CASE sess[c] = "talking"
          <5>1. ASSUME NEW d \in Calls, Link(d) PROVE linked'[c] = linked[c]
            BY <1>1, <4>2, <5>1 DEF Link, TypeSession
          <5>2. UNCHANGED dials
            BY <4>2, Writers, NewDial DEF Decided
          <5> QED
            BY <2>2, <5>1, <5>2, SessionWriters DEF Decided
        <4> QED
          BY <4>1, <4>2
      <3>3. CASE written'[c] /\ ~written[c]
        <4>1. ASSUME NEW d \in Calls, Finish(d) PROVE sess[c] = "finish"
          BY <1>1, <3>3, <4>1 DEF Finish, TypeSession
        <4> QED
          BY <1>1, <1>4, <3>2, <3>3, <4>1, SessionWriters DEF SweepStaysAway
      <3>4. CASE written[c]
        BY <1>1, <1>4, <3>2, <3>4 DEF SweepStaysAway
      <3>5. CASE sess'[c] \in InCall
        <4>1. sess[c] \in InCall
          BY <1>1, <3>1, <3>5, SessionMoves DEF Moves
        <4> QED
          BY <1>1, <1>4, <3>2, <4>1 DEF SweepStaysAway
      <3> QED
        BY <3>3, <3>4, <3>5
    <2> QED
      BY <2>1, <2>2
  <1> QED
    BY <1>2, <1>3, <1>4, Writers

LEMMA ReadAfterNext ==
  ASSUME IInv, ResultInv, Next
  PROVE  ReadAfter'
  <1>1. InOrder /\ NamesItsCall /\ ReadAfter /\ ScriptResultKept /\ TypeSession /\ TypeJobs
    BY DEF ResultInv, IInv, TypeOK
  <1> SUFFICES ASSUME NEW c \in Calls, Decided(c)', written'[c], job'[c] = "loaded"
               PROVE  read'[c].status = FinishStatus(c)' /\ read'[c].outcome = FinishOutcome(c)'
    BY DEF ReadAfter
  <1>2. job[c] # "none"
    <2>1. CASE UNCHANGED job
      BY <2>1
    <2>2. ASSUME NEW d \in Calls, EnqueuePostCall(d) PROVE job[c] # "none"
      BY <1>1, <2>2 DEF EnqueuePostCall, TypeJobs
    <2>3. ASSUME NEW d \in Calls, PostCallReads(d) \/ PostCallCommits(d) \/ PostCallFails(d)
          PROVE job[c] # "none"
      BY <1>1, <2>3 DEF PostCallReads, PostCallCommits, PostCallFails, TypeJobs
    <2> QED
      BY <2>1, <2>2, <2>3, Writers
  <1>3. sess[c] = "over"
    BY <1>1, <1>2 DEF InOrder
  <1>4. Decided(c) /\ UNCHANGED dials /\ script'[c] = script[c]
    BY <1>3, DecidedBefore
  <1>5. written[c]
    <2>1. ASSUME NEW d \in Calls, Finish(d) PROVE written'[c] = written[c]
      BY <1>1, <1>3, <2>1 DEF Finish, TypeSession
    <2> QED
      BY <2>1, SessionWriters
  <1>6. FinishStatus(c)' = FinishStatus(c) /\ FinishOutcome(c)' = FinishOutcome(c)
    BY <1>4 DEF FinishStatus, FinishOutcome
  <1>7. CASE PostCallReads(c)
    <2>1. ContactFound(c)
      BY <1>1, <1>4 DEF NamesItsCall, Decided, ContactFound
    <2> QED
      BY <1>1, <1>4, <1>5, <1>6, <1>7, <2>1
         DEF PostCallReads, TypeJobs, ScriptResultKept, Decided
  <1>8. CASE ~PostCallReads(c)
    <2>1. job[c] = "loaded" /\ read'[c] = read[c]
      <3>1. ASSUME NEW d \in Calls, PostCallReads(d)
            PROVE  job'[c] = job[c] /\ read'[c] = read[c]
        BY <1>1, <1>8, <3>1 DEF PostCallReads, TypeJobs
      <3>2. ASSUME NEW d \in Calls, PostCallCommits(d) \/ PostCallFails(d)
            PROVE  job'[c] = job[c] /\ read'[c] = read[c]
        BY <1>1, <3>2 DEF PostCallCommits, PostCallFails, TypeJobs
      <3>3. ASSUME NEW d \in Calls, EnqueuePostCall(d)
            PROVE  job'[c] = job[c] /\ read'[c] = read[c]
        BY <1>1, <3>3 DEF EnqueuePostCall, TypeJobs
      <3>4. CASE UNCHANGED job
        BY <1>1, <1>2, <3>1, <3>2, <3>4, Writers
      <3> QED
        BY <3>1, <3>2, <3>3, <3>4, Writers
    <2> QED
      BY <1>1, <1>4, <1>5, <1>6, <2>1 DEF ReadAfter
  <1> QED
    BY <1>7, <1>8

LEMMA ScriptResultKeptNext ==
  ASSUME IInv, ResultInv, Next
  PROVE  ScriptResultKept'
  <1>1. /\ LastDialOnly /\ InOrder /\ DialerDone /\ SweepStaysAway /\ ReadAfter /\ ScriptResultKept
        /\ TypeContact /\ TypeSession /\ TypeScript /\ TypeJobs
    BY DEF ResultInv, IInv, TypeOK
  <1> SUFFICES ASSUME NEW c \in Calls, Decided(c)', written'[c]
               PROVE  card'.status = FinishStatus(c)' /\ card'.outcome = FinishOutcome(c)'
    BY DEF ScriptResultKept, Decided
  <1>2. sess[c] # "talking"
    <2>1. ASSUME NEW d \in Calls, Finish(d), ~written[c] PROVE sess[c] = "finish"
      BY <1>1, <2>1 DEF Finish, TypeSession
    <2> QED
      BY <1>1, <2>1, SessionWriters DEF InOrder
  <1>3. Decided(c) /\ UNCHANGED dials /\ script'[c] = script[c]
    BY <1>2, DecidedBefore
  <1>4. FinishStatus(c)' = FinishStatus(c) /\ FinishOutcome(c)' = FinishOutcome(c)
    BY <1>3 DEF FinishStatus, FinishOutcome
  <1>5. CASE ~written[c]
    <2>1. ASSUME NEW d \in Calls, Finish(d)
          PROVE  card'.status = FinishStatus(c) /\ card'.outcome = FinishOutcome(c)
      <3>1. d = c
        BY <1>1, <1>5, <2>1 DEF Finish, TypeSession
      <3>2. card' = [card EXCEPT !.status = FinishStatus(c), !.outcome = FinishOutcome(c)]
        BY <1>5, <2>1, <3>1 DEF Finish
      <3> QED
        BY <1>1, <3>2 DEF TypeContact
    <2> QED
      BY <1>4, <1>5, <2>1, SessionWriters
  <1>6. CASE written[c]
    <2>1. /\ card.status = FinishStatus(c) /\ card.outcome = FinishOutcome(c)
          /\ FinishStatus(c) # "dialing" /\ FinishOutcome(c) # "none"
          /\ sweep = NoSweep /\ dialer = "idle" /\ c = dials
          /\ sess[c] \in {"finalise", "enqueue", "over", "dead"}
      BY <1>1, <1>3, <1>6
         DEF ScriptResultKept, SweepStaysAway, DialerDone, InOrder, Decided, FinishStatus, FinishOutcome
    <2>2. ~RecordAttempt
      BY <1>1, <1>3 DEF RecordAttempt, TypeContact
    <2>3. ~OriginateFails /\ ~SweepCommits
      BY <2>1 DEF OriginateFails, SweepCommits
    <2>4. \A d \in Calls : ~Link(d) /\ ~Finish(d)
      BY <1>1, <2>1 DEF LastDialOnly, Link, Finish
    <2>5. ASSUME NEW d \in Calls, PostCallCommits(d)
          PROVE  card'.status = card.status /\ card'.outcome = card.outcome
      <3>1. d = c /\ job[c] = "loaded"
        BY <1>1, <2>1, <2>5 DEF PostCallCommits, LastDialOnly
      <3>2. read[c].status # "dialing" /\ read[c].outcome # "none"
        BY <1>1, <1>3, <1>6, <2>1, <3>1 DEF ReadAfter
      <3> QED
        BY <1>1, <2>5, <3>1, <3>2 DEF PostCallCommits, TypeContact
    <2> QED
      BY <1>4, <2>1, <2>2, <2>3, <2>4, <2>5, Writers
  <1> QED
    BY <1>5, <1>6

-----------------------------------------------------------------------------
LEMMA ResultInvNext ==
  ASSUME IInv, ResultInv, [Next]_vars
  PROVE  ResultInv'
  <1>1. CASE Next
    BY <1>1, LastDialOnlyNext, InOrderNext, RowOpenNext, NoCallYetNext, NamesItsCallNext,
       DialerDoneNext, SweepStaysAwayNext, ReadAfterNext, ScriptResultKeptNext
       DEF ResultInv
  <1>2. CASE UNCHANGED vars
    BY <1>2
       DEF vars, ResultInv, LastDialOnly, NotDialledYet, NotPickedUp, InOrder, RowOpen, NoCallYet,
           NamesItsCall, DialerDone, SweepStaysAway, ReadAfter, ScriptResultKept, Decided,
           FinishStatus, FinishOutcome
  <1> QED
    BY <1>1, <1>2

\* Who may have read the row, and when, holds of every reachable state.
THEOREM ResultInvariance == Spec => []ResultInv
  <1> QED
    BY InitResult, ResultInvNext, Invariance, PTL DEF Spec

\* What the farmer decided stays on the card until the next dial, for any number
\* of dials, faults and crashes: neither the job's guess nor a sweep that read
\* the row before replaces it.
THEOREM DecisionStays == Spec => []ScriptResultKept
  <1>1. ResultInv => ScriptResultKept
    BY DEF ResultInv
  <1> QED
    BY ResultInvariance, <1>1, PTL

\* A dial nobody has answered never shows the last conversation.
THEOREM NoAnswerNoCall == Spec => []UnansweredDialIsNotACall
  <1>1. IInv /\ ResultInv => UnansweredDialIsNotACall
    BY LifecycleAssumption
       DEF ResultInv, NoCallYet, UnansweredDialIsNotACall, IInv, TypeOK, TypeContact, Calls
  <1> QED
    BY Invariance, ResultInvariance, <1>1, PTL
=============================================================================
