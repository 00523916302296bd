----------------------------- MODULE Recogniser -----------------------------
(***************************************************************************)
(* The streaming recogniser of a call (adapters/stt/soniox.py): what the   *)
(* vendor sends is folded into the turn, a timer stands in for the eager   *)
(* end of turn the vendor does not send, and the events go through a       *)
(* bounded queue to the pipeline that answers them.  The start of speech,  *)
(* which no event here depends on, is left out.                            *)
(*                                                                         *)
(* The words of the caller are numbered as they are said; a word that the  *)
(* vendor has misheard, for the time being, is its negative.               *)
(***************************************************************************)
EXTENDS Integers, Sequences, SequencesExt

CONSTANTS
    MaxWords,      \* words the caller says (bound)
    MaxGuess,      \* provisional words of a message (bound)
    MaxChanges,    \* messages that change what is heard (bound)
    AfterFinal,    \* eager_after_final_ms
    AfterStable,   \* eager_after_stable_ms
    QueueMax,      \* EVENT_QUEUE_MAX
    MaxWaiting     \* events that wait for the queue (bound)

VARIABLES
    final,       \* _final_text
    pending,     \* _pending_text
    eager,       \* _eager_text, <<>> unless _eager_sent
    timer,       \* ticks until the eager timer fires, or Off
    queue,       \* _queue
    waiting,     \* _overflow: events handed to the loop
    reader,      \* the state of the read loop: "reads", "ended"
    pipeline,    \* what the pipeline holds: the words it last heard, the words
                 \* it speculates on, and all the words of its turns
    settled,     \* words the vendor has made final (history)
    changes,     \* counter of the bound
    overtaken    \* whether an event ever waited (history)

turn == <<final, pending, eager, timer>>
vars == <<turn, queue, waiting, reader, pipeline, settled, changes, overtaken>>

Off == -1
EndOfStream == [type |-> "none", text |-> <<>>]
Event(type, text) == [type |-> type, text |-> text]

Heard == final \o pending

Init ==
    /\ final = <<>> /\ pending = <<>> /\ eager = <<>> /\ timer = Off
    /\ queue = <<>> /\ waiting = <<>> /\ reader = "reads"
    /\ pipeline = [heard |-> <<>>, guess |-> <<>>, told |-> <<>>, gone |-> FALSE]
    /\ settled = 0 /\ changes = 0 /\ overtaken = FALSE

-----------------------------------------------------------------------------
(* The queue                                                               *)

Least(a, b) == IF a < b THEN a ELSE b

\* Mutant: what finds no room is dropped.
EmitOrDrop(events) ==
    /\ queue' = queue \o SubSeq(events, 1, Least(Len(events), QueueMax - Len(queue)))
    /\ UNCHANGED waiting
    /\ overtaken' = (overtaken \/ Len(queue) + Len(events) > QueueMax)

\* _emit: what finds no room is handed to the loop, which puts it later.
Emit(events) ==
    LET room == Least(Len(events), QueueMax - Len(queue))
    IN  /\ queue' = queue \o SubSeq(events, 1, room)
        /\ waiting' = waiting \o SubSeq(events, room + 1, Len(events))
        /\ overtaken' = (overtaken \/ waiting' # <<>>)

\* The end of the stream is marked only if there is room for the mark.
MarkEnd ==
    queue' = IF Len(queue) < QueueMax THEN Append(queue, EndOfStream) ELSE queue

\* A put that waited: which of several is woken first is not fixed, for one that
\* finds the queue filled again goes to the end of the line.
PutsLater ==
    /\ waiting # <<>> /\ Len(queue) < QueueMax
    /\ \E i \in DOMAIN waiting :
          /\ queue' = Append(queue, waiting[i])
          /\ waiting' = RemoveAt(waiting, i)
    /\ UNCHANGED <<turn, reader, pipeline, settled, changes, overtaken>>

-----------------------------------------------------------------------------
(* One message of the vendor                                               *)

\* What the vendor may guess of the words after word n: each right or misheard.
Guesses(n) ==
    UNION {{[i \in 1..m |-> IF wrong[i] THEN -(n + i) ELSE n + i] :
                 wrong \in [1..m -> BOOLEAN]} : m \in 0..Least(MaxGuess, MaxWords - n)}

\* Mutant: a correction of a word is taken for the word.
LongerThan(heard, text) == Len(heard) # Len(text)

\* _progress_events: the caller went on after an eager end of turn.
CarriedOn(heard, text) == heard # text

\* Mutant: every message starts the timer again.
AnyMessage(heard) == TRUE

\* The timer runs from the last change of the words.
Changed(heard) == heard # Heard \/ timer = Off

\* _handle and _ingest, for a message of a turn that goes on.
Progress ==
    /\ reader = "reads"
    /\ \E n \in settled..MaxWords : \E guess \in Guesses(n) :
          LET finals == final \o [i \in 1..(n - settled) |-> settled + i]
              heard == finals \o guess
              resumed == eager # <<>> /\ CarriedOn(heard, eager)
          IN  /\ final' = finals /\ pending' = guess
              /\ settled' = n
              /\ eager' = IF resumed THEN <<>> ELSE eager
              /\ timer' = IF heard # <<>> /\ eager' = <<>> /\ Changed(heard)
                          THEN IF guess = <<>> THEN AfterFinal ELSE AfterStable
                          ELSE timer
              /\ changes' = changes + (IF heard = Heard THEN 0 ELSE 1)
              /\ Emit((IF resumed THEN <<Event("resumed", <<>>)>> ELSE <<>>)
                      \o (IF heard # <<>> THEN <<Event("partial", heard)>> ELSE <<>>))
    /\ changes' <= MaxChanges /\ Len(waiting') <= MaxWaiting
    /\ UNCHANGED <<reader, pipeline>>

\* ... and for the one with the end marker, which comes when every word before it
\* is final.  _reset_turn.
EndsTurn ==
    /\ reader = "reads"
    /\ \E n \in settled..MaxWords :
          LET heard == final \o [i \in 1..(n - settled) |-> settled + i]
          IN  /\ heard # <<>>
              /\ settled' = n
              /\ Emit(<<Event("end", heard)>>)
    /\ final' = <<>> /\ pending' = <<>> /\ eager' = <<>> /\ timer' = Off
    /\ changes' = changes + 1 /\ changes' <= MaxChanges /\ Len(waiting') <= MaxWaiting
    /\ UNCHANGED <<reader, pipeline>>

-----------------------------------------------------------------------------
(* The eager timer                                                         *)

Tick ==
    /\ timer > 0
    /\ timer' = timer - 1
    /\ UNCHANGED <<final, pending, eager, queue, waiting, reader, pipeline,
                   settled, changes, overtaken>>

FireEager ==
    /\ timer = 0
    /\ timer' = Off
    /\ IF eager = <<>> /\ Heard # <<>>
       THEN eager' = Heard /\ Emit(<<Event("eager", Heard)>>)
       ELSE UNCHANGED <<eager, queue, waiting, overtaken>>
    /\ UNCHANGED <<final, pending, reader, pipeline, settled, changes>>

-----------------------------------------------------------------------------
(* The end of the stream                                                   *)

\* The socket closes, or reading fails.
StreamEnds ==
    /\ reader = "reads"
    /\ reader' = "ended"
    /\ timer' = Off
    /\ MarkEnd
    /\ UNCHANGED <<final, pending, eager, waiting, pipeline, settled, changes,
                   overtaken>>

\* close, which the session calls once.
Closes ==
    /\ reader # "closed"
    /\ reader' = "closed"
    /\ timer' = Off
    /\ MarkEnd
    /\ UNCHANGED <<final, pending, eager, waiting, pipeline, settled, changes,
                   overtaken>>

-----------------------------------------------------------------------------
(* The pipeline, which takes one event after the other                     *)

After(state, event) ==
    CASE event.type = "partial" -> [state EXCEPT !.heard = event.text]
      [] event.type = "eager"   -> [state EXCEPT !.guess = event.text]
      [] event.type = "resumed" -> [state EXCEPT !.guess = <<>>]
      [] event.type = "end"     -> [state EXCEPT !.heard = <<>>, !.guess = <<>>,
                                                    !.told = @ \o event.text]
      [] event.type = "none"    -> [state EXCEPT !.gone = TRUE]
      [] OTHER                  -> state

Takes ==
    /\ queue # <<>> /\ ~pipeline.gone
    /\ pipeline' = After(pipeline, Head(queue))
    /\ queue' = Tail(queue)
    /\ UNCHANGED <<turn, waiting, reader, settled, changes, overtaken>>

Next ==
    \/ Progress \/ EndsTurn \/ Tick \/ FireEager
    \/ PutsLater \/ StreamEnds \/ Closes \/ Takes

Spec == Init /\ [][Next]_vars

\* The timers of the event loop run.
FairSpec == Spec /\ WF_vars(Tick) /\ WF_vars(FireEager)

-----------------------------------------------------------------------------
(* Properties                                                              *)

\* The parts of the turn are texts, and the queue is bounded.
TypeOK ==
    /\ {final, pending, eager} \subseteq Seq(-MaxWords..MaxWords)
    /\ timer \in Off..AfterStable
    /\ Len(queue) <= QueueMax /\ settled \in 0..MaxWords

\* As long as the pipeline keeps up, an answer is prepared only to the words it
\* has been told last, through corrections of single words, timers that fire
\* between two messages and turns that end; and the turns it is told are the words
\* of the caller, each once and as they were finally understood.
PreparesForWhatWasSaid ==
    ~overtaken =>
        /\ pipeline.guess # <<>> => pipeline.guess = pipeline.heard
        /\ pipeline.told = [i \in 1..Len(pipeline.told) |-> i]

\* The pipeline leaves at the mark of the end, so that what is behind it is never
\* taken: an event that waited for room may be put there, or waits for ever.
Marked == pipeline.gone \/ EndOfStream \in Range(queue)
Coming ==
    IF pipeline.gone THEN {}
    ELSE {queue[i] : i \in {i \in DOMAIN queue : \A j \in 1..i : queue[j] # EndOfStream}}
             \cup IF Marked THEN {} ELSE Range(waiting)

Ends == {e \in Range(queue) \cup Range(waiting) : e.type = "end"}
Stranded == Ends \ Coming

\* However the events wait and overtake one another, no turn vanishes or is told
\* twice: each is told, or comes, or is stranded behind the mark of the end.  That,
\* which loses it, takes a queue without room: as long as no event had to wait, every
\* turn that the vendor has ended reaches the pipeline.
TurnsArriveOnce ==
    /\ Range(pipeline.told) \cup UNION {Range(e.text) : e \in Ends}
           = 1..(settled - Len(final))
    /\ \A i, j \in DOMAIN pipeline.told :
          pipeline.told[i] = pipeline.told[j] => i = j
    /\ Stranded # {} => overtaken

\* Words that have stopped changing are always guessed to be the end of the turn,
\* however many messages repeat them.
PausesAreGuessed ==
    (Heard # <<>> /\ reader = "reads")
        ~> (eager # <<>> \/ Heard = <<>> \/ reader # "reads")

\* Not so: the mark goes ahead of a turn that waits for room.  _emit says that an end
\* of turn is handed to the loop so that it is not lost.
EveryTurnComes == Stranded = {}

\* Not so: when the queue is full as the stream ends, the mark of its end is
\* dropped, and the pipeline waits for an event that never comes.
EndIsNoticed ==
    (reader # "reads" /\ queue = <<>> /\ waiting = <<>>) => pipeline.gone
=============================================================================
