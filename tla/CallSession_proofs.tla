------------------------- MODULE CallSession_proofs -------------------------
(***************************************************************************)
(* Proofs about one call, for any number of turns, any queue and any       *)
(* faults.  A drained call has accounted for every turn: each is in one of *)
(* four places, queued, in the drain's hand, written, or logged as lost,   *)
(* and nothing is queued behind the marker that ends the drain.  Its       *)
(* farmer is called back once: a run of the job that means to add a ticket *)
(* has seen none, and no other run adds one meanwhile.  And a promise of a *)
(* callback is kept: it is on the row before it is spoken, and the job     *)
(* finds it there.                                                         *)
(***************************************************************************)
EXTENDS CallSession, TLAPS

Items(q) == {q[i] : i \in DOMAIN q}

\* Until these are over turns may be queued, and the marker is not.
Early == {"connected", "serving", "stopping", "marking"}

\* The turn the drain is writing.
InDrain == IF drain = "writing" THEN {inHand} ELSE {}

QueueTypeOK == queue \in Seq(Nat) /\ turns \in Nat /\ inHand \in Nat

\* Every turn is in one of its places, until the drain is given up.
Accounted ==
    drain # "cancelled" => kept \cup lost \cup (Items(queue) \ {0}) \cup InDrain = 1..turns

\* The marker comes last, and a drain that has met it has emptied the queue.
MarkerIsLast ==
    /\ \A i \in DOMAIN queue : queue[i] = 0 => i = Len(queue) /\ loop \notin Early
    /\ drain = "done" => queue = <<>> /\ loop \notin Early
    /\ drain = "writing" => inHand # 0

IInv == QueueTypeOK /\ Accounted /\ MarkerIsLast

-----------------------------------------------------------------------------
(* The queue                                                               *)

LEMMA AppendedItems ==
  ASSUME NEW q \in Seq(Nat), NEW e \in Nat
  PROVE  /\ Append(q, e) \in Seq(Nat) /\ Len(Append(q, e)) = Len(q) + 1
         /\ Items(Append(q, e)) = Items(q) \cup {e}
         /\ Append(q, e)[Len(q) + 1] = e
         /\ \A i \in DOMAIN Append(q, e) : i # Len(q) + 1 =>
               i \in DOMAIN q /\ Append(q, e)[i] = q[i]
  <1> DEFINE p == Append(q, e)
  <1>1. /\ p \in Seq(Nat) /\ Len(p) = Len(q) + 1 /\ Len(q) \in Nat
        /\ DOMAIN q = 1..Len(q) /\ DOMAIN p = 1..(Len(q) + 1)
        /\ p[Len(q) + 1] = e /\ \A i \in 1..Len(q) : p[i] = q[i]
    OBVIOUS
  <1>2. Items(p) = Items(q) \cup {e}
    <2>1. Items(p) \subseteq Items(q) \cup {e}
      BY <1>1 DEF Items
    <2>2. \A i \in DOMAIN q : i \in DOMAIN p /\ p[i] = q[i]
      BY <1>1
    <2>3. Len(q) + 1 \in DOMAIN p
      BY <1>1
    <2> QED
      BY <1>1, <2>1, <2>2, <2>3 DEF Items
  <1> QED
    BY <1>1, <1>2

LEMMA TakenItems ==
  ASSUME NEW q \in Seq(Nat), q # <<>>
  PROVE  /\ Head(q) \in Nat /\ Tail(q) \in Seq(Nat) /\ Len(Tail(q)) = Len(q) - 1
         /\ Items(q) = {Head(q)} \cup Items(Tail(q))
         /\ Head(q) = q[1] /\ 1 \in DOMAIN q
         /\ \A i \in DOMAIN Tail(q) : i + 1 \in DOMAIN q /\ Tail(q)[i] = q[i + 1]
  <1> DEFINE t == Tail(q)
  <1>1. /\ t \in Seq(Nat) /\ Len(t) = Len(q) - 1 /\ Len(q) \in Nat /\ Len(q) >= 1
        /\ DOMAIN q = 1..Len(q) /\ DOMAIN t = 1..(Len(q) - 1)
        /\ Head(q) = q[1] /\ \A i \in 1..(Len(q) - 1) : t[i] = q[i + 1]
    OBVIOUS
  <1>2. Items(q) = {Head(q)} \cup Items(t)
    <2>1. ASSUME NEW i \in DOMAIN q PROVE q[i] \in {Head(q)} \cup Items(t)
      <3>1. CASE i = 1
        BY <1>1, <3>1
      <3>2. CASE i # 1
        <4>1. i - 1 \in DOMAIN t /\ t[i - 1] = q[i]
          BY <1>1, <3>2
        <4> QED
          BY <4>1 DEF Items
      <3> QED
        BY <3>1, <3>2
    <2>2. \A i \in DOMAIN t : i + 1 \in DOMAIN q /\ t[i] = q[i + 1]
      BY <1>1
    <2>3. 1 \in DOMAIN q
      BY <1>1
    <2>4. Head(q) \in Items(q)
      BY <1>1, <2>3 DEF Items
    <2>5. Items(t) \subseteq Items(q)
      BY <2>2 DEF Items
    <2>6. Items(q) \subseteq {Head(q)} \cup Items(t)
      BY <2>1 DEF Items
    <2> QED
      BY <2>4, <2>5, <2>6
  <1> QED
    BY <1>1, <1>2

-----------------------------------------------------------------------------
LEMMA InitIInv == Init => IInv
  <1> SUFFICES ASSUME Init PROVE IInv
    OBVIOUS
  <1>1. /\ queue = <<>> /\ turns = 0 /\ inHand = 0 /\ drain = "idle"
        /\ kept = {} /\ lost = {}
    BY DEF Init
  <1>2. queue \in Seq(Nat) /\ DOMAIN queue = {}
    BY <1>1
  <1>3. Items(queue) = {} /\ InDrain = {} /\ 1..turns = {}
    BY <1>1, <1>2 DEF Items, InDrain
  <1> QED
    BY <1>1, <1>2, <1>3 DEF IInv, QueueTypeOK, Accounted, MarkerIsLast

\* A step that moves no turn, and does not reopen the call.
LEMMA NothingMoves ==
  ASSUME IInv, UNCHANGED persist, loop \notin Early => loop' \notin Early
  PROVE  IInv'
  BY DEF IInv, QueueTypeOK, Accounted, MarkerIsLast, Items, InDrain, persist

\* A finished turn is queued or logged, before the marker is.
LEMMA TurnIsQueued ==
  ASSUME IInv, EnqueueTurn, loop \in Early
  PROVE  IInv'
  <1>1. /\ queue \in Seq(Nat) /\ turns \in Nat /\ inHand \in Nat
        /\ drain # "done" /\ drain' = drain /\ inHand' = inHand /\ kept' = kept
        /\ turns' = turns + 1 /\ InDrain' = InDrain
        /\ \A i \in DOMAIN queue : queue[i] # 0
        /\ drain = "writing" => inHand # 0
    BY DEF IInv, QueueTypeOK, MarkerIsLast, EnqueueTurn, InDrain
  <1>2. 1..(turns + 1) = (1..turns) \cup {turns + 1} /\ turns + 1 # 0 /\ turns + 1 \in Nat
    BY <1>1
  <1>3. CASE queue' = Append(queue, turns + 1) /\ UNCHANGED lost
    <2>1. Items(queue') = Items(queue) \cup {turns + 1}
      BY <1>1, <1>2, <1>3, AppendedItems
    <2>2. QueueTypeOK' /\ \A i \in DOMAIN queue' : queue'[i] # 0
      BY <1>1, <1>2, <1>3, AppendedItems DEF QueueTypeOK
    <2>3. Accounted'
      BY <1>1, <1>2, <1>3, <2>1 DEF IInv, Accounted, Items
    <2> QED
      BY <1>1, <2>2, <2>3 DEF IInv, MarkerIsLast
  <1>4. CASE lost' = lost \cup {turns + 1} /\ UNCHANGED queue
    <2>1. QueueTypeOK' /\ MarkerIsLast'
      BY <1>1, <1>2, <1>4 DEF QueueTypeOK, MarkerIsLast
    <2>2. Accounted'
      BY <1>1, <1>2, <1>4 DEF IInv, Accounted, Items
    <2> QED
      BY <2>1, <2>2 DEF IInv
  <1> QED
    BY <1>3, <1>4 DEF EnqueueTurn

\* The drain takes a turn, or the marker, which was the last.
LEMMA DrainTakesKeeps ==
  ASSUME IInv, DrainTakes
  PROVE  IInv'
  <1>1. /\ queue \in Seq(Nat) /\ queue # <<>> /\ turns \in Nat /\ drain = "idle"
        /\ queue' = Tail(queue) /\ inHand' = Head(queue) /\ UNCHANGED <<kept, lost, turns, loop>>
        /\ drain' = IF Head(queue) = 0 THEN "done" ELSE "writing"
    BY DEF IInv, QueueTypeOK, DrainTakes
  <1>2. QueueTypeOK'
    BY <1>1, TakenItems DEF QueueTypeOK
  <1>3. \A i \in DOMAIN queue' : i + 1 \in DOMAIN queue /\ queue'[i] = queue[i + 1]
    BY <1>1, TakenItems
  <1>4. Len(queue') = Len(queue) - 1 /\ Len(queue) \in Nat /\ DOMAIN queue' = 1..Len(queue')
    BY <1>1, <1>2, TakenItems DEF QueueTypeOK
  <1>5. CASE Head(queue) = 0
    <2>1. Len(queue) = 1 /\ loop \notin Early
      BY <1>1, <1>5, TakenItems DEF IInv, MarkerIsLast
    <2>2. queue' = <<>>
      BY <1>1, <1>4, <2>1
    <2>3. MarkerIsLast'
      BY <1>1, <1>5, <2>1, <2>2 DEF MarkerIsLast
    <2>4. Items(queue) = {0} \cup Items(queue')
      BY <1>1, <1>5, TakenItems
    <2>5. InDrain = {} /\ InDrain' = {}
      BY <1>1, <1>5 DEF InDrain
    <2>6. Accounted'
      BY <1>1, <1>5, <2>4, <2>5 DEF IInv, Accounted
    <2> QED
      BY <1>2, <2>3, <2>6 DEF IInv
  <1>6. CASE Head(queue) # 0
    <2>1. MarkerIsLast'
      BY <1>1, <1>3, <1>4, <1>6 DEF IInv, MarkerIsLast
    <2>2. Items(queue) = {Head(queue)} \cup Items(queue')
      BY <1>1, TakenItems
    <2>3. InDrain = {} /\ InDrain' = {Head(queue)}
      BY <1>1, <1>6 DEF InDrain
    <2>4. Accounted'
      BY <1>1, <1>6, <2>2, <2>3 DEF IInv, Accounted
    <2> QED
      BY <1>2, <2>1, <2>4 DEF IInv
  <1> QED
    BY <1>5, <1>6

\* The drain writes its turn, or logs that it could not.
LEMMA DrainSettles ==
  ASSUME IInv, DrainWrites \/ DrainFails
  PROVE  IInv'
  <1>1. /\ drain = "writing" /\ drain' = "idle" /\ UNCHANGED <<queue, inHand, turns, loop>>
        /\ kept' \cup lost' = kept \cup lost \cup {inHand}
    BY DEF DrainWrites, DrainFails
  <1>2. InDrain = {inHand} /\ InDrain' = {}
    BY <1>1 DEF InDrain
  <1>3. Accounted'
    BY <1>1, <1>2 DEF IInv, Accounted, Items
  <1> QED
    BY <1>1, <1>3 DEF IInv, QueueTypeOK, MarkerIsLast

LEMMA PutMarkerKeeps ==
  ASSUME IInv, PutMarker
  PROVE  IInv'
  <1>1. /\ queue \in Seq(Nat) /\ drain # "done" /\ loop' = "draining"
        /\ queue' = Append(queue, 0) /\ UNCHANGED <<drain, inHand, turns, kept, lost>>
        /\ \A i \in DOMAIN queue : queue[i] # 0
    BY DEF IInv, QueueTypeOK, MarkerIsLast, PutMarker, Early
  <1>2. QueueTypeOK' /\ Items(queue') = Items(queue) \cup {0}
    BY <1>1, AppendedItems DEF IInv, QueueTypeOK
  <1>3. MarkerIsLast'
    <2>1. \A i \in DOMAIN queue' : queue'[i] = 0 => i = Len(queue')
      BY <1>1, AppendedItems
    <2> QED
      BY <1>1, <2>1 DEF IInv, MarkerIsLast, Early
  <1>4. Accounted'
    BY <1>1, <1>2 DEF IInv, Accounted, InDrain
  <1> QED
    BY <1>2, <1>3, <1>4 DEF IInv

LEMMA DrainedKeeps ==
  ASSUME IInv, Drained
  PROVE  IInv'
  <1>1. /\ UNCHANGED <<queue, inHand, turns, kept, lost>>
        /\ loop' = "finalising"
        /\ drain' = drain \/ drain' = "cancelled"
    BY DEF Drained
  <1> QED
    BY <1>1 DEF IInv, QueueTypeOK, Accounted, MarkerIsLast, Items, InDrain, Early

LEMMA StepIInv == IInv /\ [Next]_vars => IInv'
  <1> SUFFICES ASSUME IInv, [Next]_vars PROVE IInv'
    OBVIOUS
  <1>1. CASE Start \/ StartUnbuilt \/ StartFails \/ LineEnds \/ SeesFault \/ WorkerDies
    BY <1>1, NothingMoves
       DEF Start, StartUnbuilt, StartFails, LineEnds, SeesFault, WorkerDies, Receiving, Early
  <1>2. CASE Talk
    <2>1. CASE FinishTurn \/ Apologised
      <3>1. EnqueueTurn /\ loop \in Early
        BY <2>1 DEF FinishTurn, Apologised, Talking, Receiving, Early
      <3> QED
        BY <3>1, TurnIsQueued
    <2>2. CASE \/ BeginTurn \/ TransferRefused \/ TransferAccepted \/ TransferRecorded
               \/ TransferRefusedByProvider \/ LadderRunsOut
               \/ LeavesByAnswer \/ LeavesByLadder \/ HangsUp
      <3>1. UNCHANGED <<persist, loop>>
        BY <2>2 DEF BeginTurn, TransferRefused, TransferAccepted, TransferRecorded,
                    TransferRefusedByProvider, LadderRunsOut, LeavesByAnswer, LeavesByLadder,
                    HangsUp
      <3> QED
        BY <3>1, NothingMoves
    <2> QED
      BY <1>2, <2>1, <2>2 DEF Talk
  <1>3. CASE Persisting
    BY <1>3, DrainTakesKeeps, DrainSettles DEF Persisting
  <1>4. CASE Closing
    <2>1. CASE SeesHangup \/ SeesStop \/ SeesDrop \/ Finalise \/ StoreRecording \/ EnqueuePostcall
      <3>1. UNCHANGED persist /\ (loop \notin Early => loop' \notin Early)
        BY <2>1 DEF SeesHangup, SeesStop, SeesDrop, Finalise, StoreRecording, EnqueuePostcall,
                    Receiving, Early
      <3> QED
        BY <3>1, NothingMoves
    <2>2. CASE StopPipeline
      <3>1. loop \in Early /\ (EnqueueTurn \/ UNCHANGED persist)
        BY <2>2 DEF StopPipeline, Early
      <3> QED
        BY <3>1, TurnIsQueued, NothingMoves
    <2> QED
      BY <1>4, <2>1, <2>2, PutMarkerKeeps, DrainedKeeps DEF Closing
  <1>5. CASE Job
    <2>1. UNCHANGED <<persist, loop>>
      BY <1>5 DEF Job, JobStarts, JobStage, JobCommits, JobEnds, JobInterrupted
    <2> QED
      BY <2>1, NothingMoves
  <1>6. CASE UNCHANGED vars
    BY <1>6, NothingMoves DEF vars
  <1> QED
    BY <1>1, <1>2, <1>3, <1>4, <1>5, <1>6 DEF Next

\* When the drain task has ended by itself, every turn of the call is stored or
\* was logged as lost, whatever the queue held when _close began.
THEOREM NoTurnForgotten == Spec => []EveryTurnAccounted
  <1>1. IInv => EveryTurnAccounted
    BY DEF IInv, Accounted, MarkerIsLast, EveryTurnAccounted, Items, InDrain
  <1> QED
    BY InitIInv, StepIInv, <1>1, PTL DEF Spec

-----------------------------------------------------------------------------
(* The ticket                                                              *)

\* The job is a record of its fields.
JobFields == DOMAIN job = DOMAIN NoJob

\* A run that is about to add a ticket adds the first.
TicketInv ==
    /\ JobFields
    /\ tickets \in {0, 1}
    /\ job.ticket /\ job.pc = "running" => tickets = 0

LEMMA StageKeeps ==
  ASSUME JobFields, NEW name, NEW poisons, job.pc = "running"
  PROVE  /\ DOMAIN StageDone(name) = DOMAIN NoJob
         /\ DOMAIN StageFailed(name, poisons) = DOMAIN NoJob
         /\ StageDone(name).ticket => job.ticket \/ NoTicketYet
         /\ StageFailed(name, poisons).ticket = job.ticket
  BY DEF JobFields, NoJob, StageDone, StageFailed

LEMMA TicketStep == TicketInv /\ [Next]_vars => TicketInv'
  <1> SUFFICES ASSUME TicketInv, [Next]_vars PROVE TicketInv'
    OBVIOUS
  <1>1. JobFields /\ tickets \in {0, 1} /\ (job.ticket /\ job.pc = "running" => tickets = 0)
    BY DEF TicketInv
  <1>2. CASE UNCHANGED <<job, tickets>>
    BY <1>1, <1>2 DEF TicketInv, JobFields
  <1>3. CASE EnqueuePostcall
    BY <1>1, <1>3 DEF EnqueuePostcall, TicketInv, JobFields, NoJob
  <1>4. CASE JobStarts
    BY <1>1, <1>4 DEF JobStarts, TicketInv, JobFields, NoJob
  <1>5. CASE JobStage
    <2>1. /\ UNCHANGED tickets /\ job.pc = "running"
          /\ \E name : \/ job' = StageDone(name)
                      \/ \E poisons \in BOOLEAN : job' = StageFailed(name, poisons)
      BY <1>5 DEF JobStage
    <2> QED
      BY <1>1, <2>1, StageKeeps DEF TicketInv, JobFields, NoTicketYet
  <1>6. CASE JobCommits
    BY <1>1, <1>6 DEF JobCommits, TicketInv, JobFields, NoJob
  <1>7. CASE JobEnds
    BY <1>1, <1>7 DEF JobEnds, TicketInv, JobFields, NoJob
  <1>8. CASE JobInterrupted
    BY <1>1, <1>8 DEF JobInterrupted, TicketInv, JobFields, NoJob
  <1>9. CASE Start \/ StartUnbuilt \/ StartFails \/ LineEnds \/ SeesFault \/ WorkerDies
    BY <1>2, <1>9 DEF Start, StartUnbuilt, StartFails, LineEnds, SeesFault, WorkerDies
  <1>10. CASE Talk
    BY <1>2, <1>10
       DEF Talk, BeginTurn, FinishTurn, TransferRefused, TransferAccepted, TransferRecorded,
           TransferRefusedByProvider, Apologised, LadderRunsOut, LeavesByAnswer,
           LeavesByLadder, HangsUp
  <1>11. CASE Persisting
    BY <1>2, <1>11 DEF Persisting, DrainTakes, DrainWrites, DrainFails
  <1>12. CASE SeesHangup \/ SeesStop \/ SeesDrop \/ StopPipeline \/ PutMarker \/ Drained
              \/ Finalise \/ StoreRecording
    BY <1>2, <1>12 DEF SeesHangup, SeesStop, SeesDrop, StopPipeline, PutMarker, Drained,
                       Finalise, StoreRecording
  <1>13. CASE UNCHANGED vars
    BY <1>2, <1>13 DEF vars
  <1> QED
    BY <1>3, <1>4, <1>5, <1>6, <1>7, <1>8, <1>9, <1>10, <1>11, <1>12, <1>13
       DEF Next, Closing, Job

\* However often the post-call job runs, is interrupted or loses its statements,
\* the farmer is called back once.
THEOREM CalledBackOnce == Spec => []OneTicket
  <1>1. Init => TicketInv
    BY DEF Init, TicketInv, JobFields, NoJob
  <1>2. TicketInv => OneTicket
    BY DEF TicketInv, OneTicket
  <1> QED
    BY <1>1, <1>2, TicketStep, PTL DEF Spec
-----------------------------------------------------------------------------
(* The promise                                                             *)

\* The columns of the call row.
RowFields == {"status", "outcome", "was_transferred", "completed", "answered", "recording"}

\* While nothing has failed, a promise is on the row, and the job that has passed
\* the ticket stage of a call whose hand-over was not completed has a ticket to add
\* or finds one there.
PromiseInv ==
    /\ row # None => DOMAIN row = RowFields
    /\ loop = "connected" => ~told
    /\ job.pc # "none" => loop = "ended"
    /\ job.pc = "running" => DOMAIN row = RowFields
    /\ job.stage \in Nat
    /\ faults = {} =>
          /\ ~job.poisoned
          /\ told => DOMAIN row = RowFields /\ row.was_transferred
          /\ told /\ ~row.completed =>
                /\ job.pc = "running" /\ job.stage > 4 => job.ticket \/ tickets = 1
                /\ job.pc \in {"committed", "done"} => tickets = 1

\* A step that leaves the row, the promise and the job alone.
LEMMA PromiseStands ==
  ASSUME PromiseInv, UNCHANGED <<row, told, job, tickets>>, faults' = {} => faults = {},
         loop' = "connected" => loop = "connected", loop = "ended" => loop' = "ended"
  PROVE  PromiseInv'
  BY DEF PromiseInv

\* A fault is remembered.
LEMMA FaultStays == ASSUME NEW f, Fault(f) PROVE faults' # {}
  BY DEF Fault

\* A row is made, or written without touching the hand-over.
LEMMA PromiseRow ==
  ASSUME PromiseInv, NEW r, DOMAIN r = RowFields,
         row # None \/ loop = "connected",
         row # None => r.was_transferred = row.was_transferred /\ r.completed = row.completed,
         row' = r, UNCHANGED <<told, job, tickets>>, faults' = {} => faults = {},
         loop' = "connected" => loop = "connected", loop = "ended" => loop' = "ended"
  PROVE  PromiseInv'
  BY DEF PromiseInv

\* The hand-over is recorded, before there is a job.
LEMMA PromiseTransfers ==
  ASSUME PromiseInv, NEW done \in BOOLEAN, Talking,
         row' = [row EXCEPT !.was_transferred = TRUE, !.completed = done],
         UNCHANGED <<loop, job, tickets, faults>>
  PROVE  PromiseInv'
  <1>1. loop = "serving" /\ DOMAIN row = RowFields /\ job.pc = "none"
    BY DEF PromiseInv, Talking, Receiving
  <1>2. DOMAIN row' = RowFields /\ row'.was_transferred = TRUE
    BY <1>1 DEF RowFields
  <1> QED BY <1>1, <1>2 DEF PromiseInv

\* A stage of the job; the fourth is the one that looks after the ticket.
LEMMA PromiseStage ==
  ASSUME PromiseInv, TicketInv, JobStage
  PROVE  PromiseInv'
  <1>1. /\ job.pc = "running" /\ UNCHANGED <<loop, row, told, tickets>> /\ JobFields
        /\ tickets \in {0, 1}
        /\ job.stage \in Nat
    BY DEF JobStage, PromiseInv, TicketInv
  <1>2. ASSUME NEW name, NEW poisons, job' = StageFailed(name, poisons)
        PROVE job'.pc = "running" /\ job'.stage = job.stage + 1
    BY <1>1, <1>2 DEF StageFailed, JobFields, NoJob
  <1>3. ASSUME NEW name, job' = StageDone(name)
        PROVE /\ job'.pc = "running" /\ job'.stage = job.stage + 1 /\ job'.poisoned = job.poisoned
              /\ job.ticket => job'.ticket
              /\ name = "tickets" /\ NoTicketYet /\ NeedsFollowUp => job'.ticket
    BY <1>1, <1>3 DEF StageDone, JobFields, NoJob
  <1>4. PICK name : /\ name = Stages[job.stage]
                    /\ \/ job' = StageDone(name) /\ UNCHANGED faults
                       \/ job' = StageFailed(name, FALSE) /\ job.poisoned /\ UNCHANGED faults
                       \/ faults' # {} /\ \E poisons \in BOOLEAN : job' = StageFailed(name, poisons)
    BY FaultStays DEF JobStage
  <1>5. job'.pc = "running" /\ job'.stage = job.stage + 1
    BY <1>2, <1>3, <1>4
  <1>6. CASE faults' # {}
    BY <1>1, <1>5, <1>6 DEF PromiseInv
  <1>7. CASE faults' = {}
    <2>1. faults = {} /\ ~job.poisoned /\ job' = StageDone(name)
      BY <1>4, <1>7 DEF PromiseInv
    <2>2. job.stage = 4 => name = "tickets" BY <1>4 DEF Stages
    <2>3. told /\ ~row.completed => NeedsFollowUp
      BY <2>1 DEF PromiseInv, NeedsFollowUp
    <2>4. job.stage + 1 > 4 => job.stage > 4 \/ job.stage = 4 BY <1>1
    <2>5. ~job'.poisoned BY <1>3, <2>1
    <2>6. told /\ ~row.completed /\ job'.stage > 4 => job'.ticket \/ tickets = 1
      BY <1>1, <1>3, <1>5, <2>1, <2>2, <2>3, <2>4 DEF PromiseInv, NoTicketYet
    <2> QED BY <1>1, <1>5, <2>1, <2>5, <2>6 DEF PromiseInv
  <1> QED BY <1>6, <1>7

LEMMA PromiseStep == PromiseInv /\ TicketInv /\ [Next]_vars => PromiseInv'
  <1> SUFFICES ASSUME PromiseInv, TicketInv, [Next]_vars PROVE PromiseInv' OBVIOUS
  <1>0. JobFields BY DEF TicketInv
  <1>1. CASE Start \/ StartUnbuilt
    <2>1. loop = "connected" /\ loop' = "serving" /\ job.pc = "none" /\ ~told /\ DOMAIN row' = RowFields
          /\ UNCHANGED <<told, job, tickets>> /\ (faults' = {} => faults = {})
      BY <1>1, FaultStays DEF Start, StartUnbuilt, PromiseInv, RowFields
    <2> QED BY <2>1 DEF PromiseInv
  <1>2. CASE StartFails \/ LineEnds \/ SeesFault \/ WorkerDies
    BY <1>2, PromiseStands, FaultStays
       DEF StartFails, LineEnds, SeesFault, WorkerDies, Receiving
  <1>3. CASE Talk
    <2>1. CASE \/ BeginTurn \/ FinishTurn \/ TransferRefused \/ TransferAccepted \/ Apologised
               \/ LadderRunsOut \/ LeavesByAnswer \/ LeavesByLadder \/ HangsUp
      BY <2>1, PromiseStands
         DEF BeginTurn, FinishTurn, TransferRefused, TransferAccepted, Apologised, LadderRunsOut,
             LeavesByAnswer, LeavesByLadder, HangsUp
    <2>2. CASE TransferRecorded
      <3>1. Talking /\ UNCHANGED <<loop, told, job, tickets>>
        BY <2>2 DEF TransferRecorded
      <3>2. CASE faults' # {} /\ UNCHANGED row
        BY <2>2, <3>1, <3>2 DEF PromiseInv
      <3>3. CASE UNCHANGED faults /\ row' = [row EXCEPT !.was_transferred = TRUE, !.completed = TRUE]
        BY <3>1, <3>3, PromiseTransfers
      <3> QED BY <2>2, <3>2, <3>3, FaultStays DEF TransferRecorded
    <2>3. CASE TransferRefusedByProvider
      <3>1. Talking /\ told' = TRUE /\ UNCHANGED <<loop, job, tickets>>
        BY <2>3 DEF TransferRefusedByProvider
      <3>2. CASE faults' # {} /\ UNCHANGED row
        BY <3>1, <3>2 DEF PromiseInv, Talking, Receiving
      <3>3. CASE UNCHANGED faults /\ row' = [row EXCEPT !.was_transferred = TRUE, !.completed = FALSE]
        BY <3>1, <3>3, PromiseTransfers
      <3> QED BY <2>3, <3>2, <3>3, FaultStays DEF TransferRefusedByProvider
    <2> QED BY <1>3, <2>1, <2>2, <2>3 DEF Talk
  <1>4. CASE Persisting
    BY <1>4, PromiseStands, FaultStays
       DEF Persisting, DrainTakes, DrainWrites, DrainFails
  <1>5. CASE SeesHangup \/ SeesStop \/ SeesDrop \/ StopPipeline \/ PutMarker \/ Drained
    BY <1>5, PromiseStands, FaultStays
       DEF SeesHangup, SeesStop, SeesDrop, StopPipeline, PutMarker, Drained, Receiving
  <1>6. CASE Finalise \/ StoreRecording
    <2>1. /\ UNCHANGED <<told, job, tickets>> /\ (faults' = {} => faults = {})
          /\ loop \notin {"connected", "ended"} /\ loop' # "connected"
      BY <1>6, FaultStays DEF Finalise, StoreRecording
    <2>2. CASE row' = row BY <2>1, <2>2, PromiseStands
    <2>3. CASE row # None /\ (row' = [row EXCEPT !.status = status, !.outcome = outcome]
                              \/ row' = [row EXCEPT !.recording = TRUE])
      <3>1. DOMAIN row = RowFields BY <2>3 DEF PromiseInv
      <3>2. DOMAIN row' = RowFields /\ row'.was_transferred = row.was_transferred
            /\ row'.completed = row.completed
        BY <2>3, <3>1 DEF RowFields
      <3> QED BY <2>1, <2>3, <3>2, PromiseRow
    <2> QED BY <1>6, <2>2, <2>3 DEF Finalise, StoreRecording
  <1>7. CASE EnqueuePostcall
    BY <1>0, <1>7, FaultStays DEF EnqueuePostcall, PromiseInv, JobFields, NoJob
  <1>8. CASE JobStarts
    <2>1. CASE row = None
      BY <1>0, <1>8, <2>1 DEF JobStarts, PromiseInv, JobFields, NoJob
    <2>2. CASE row # None
      BY <1>0, <1>8, <2>2 DEF JobStarts, PromiseInv, JobFields, NoJob
    <2> QED BY <2>1, <2>2
  <1>9. CASE JobStage BY <1>9, PromiseStage
  <1>10. CASE JobCommits
    <2>1. /\ job.pc = "running" /\ DOMAIN row = RowFields /\ job.stage > 4
          /\ UNCHANGED <<loop, told, faults>>
          /\ job'.pc = "committed" /\ job'.stage = job.stage /\ job'.poisoned = job.poisoned
      BY <1>0, <1>10 DEF JobCommits, PromiseInv, JobFields, NoJob, Stages
    <2>2. tickets \in {0, 1} /\ (job.ticket => tickets = 0) BY <2>1 DEF TicketInv
    <2>3. CASE job.poisoned BY <1>10, <2>1, <2>3 DEF JobCommits, PromiseInv
    <2>4. CASE ~job.poisoned
      <3>1. row' = [row EXCEPT !.outcome = job.outcome] /\ tickets' = IF job.ticket THEN tickets + 1 ELSE tickets
        BY <1>10, <2>4 DEF JobCommits
      <3>2. DOMAIN row' = DOMAIN row
            /\ (DOMAIN row = RowFields => row'.was_transferred = row.was_transferred /\ row'.completed = row.completed)
        BY <3>1 DEF RowFields
      <3>3. job.ticket \/ tickets = 1 => tickets' = 1 BY <2>2, <3>1
      <3> QED BY <2>1, <2>4, <3>2, <3>3 DEF PromiseInv
    <2> QED BY <2>3, <2>4
  <1>11. CASE JobEnds
    BY <1>0, <1>11 DEF JobEnds, PromiseInv, JobFields, NoJob
  <1>12. CASE JobInterrupted
    BY <1>0, <1>12, FaultStays DEF JobInterrupted, PromiseInv, JobFields, NoJob
  <1>13. CASE UNCHANGED vars
    BY <1>13, PromiseStands DEF vars
  <1> QED
    BY <1>1, <1>2, <1>3, <1>4, <1>5, <1>6, <1>7, <1>8, <1>9, <1>10, <1>11, <1>12, <1>13
       DEF Next, Closing, Job

\* A caller who was promised a callback has a ticket, or was handed over after all,
\* once the job is done -- if nothing failed meanwhile.
THEOREM PromisesKept == Spec => []PromiseKept
  <1>1. Init => PromiseInv /\ TicketInv
    BY DEF Init, PromiseInv, TicketInv, JobFields, NoJob
  <1>2. PromiseInv => PromiseKept
    BY DEF PromiseInv, PromiseKept
  <1> QED BY <1>1, <1>2, TicketStep, PromiseStep, PTL DEF Spec
=============================================================================
