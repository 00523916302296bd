------------------------------ MODULE TurnLoop ------------------------------
(***************************************************************************)
(* One call's conversational loop: pipelines/conversation.py with the      *)
(* sender and the barge-in policy of runtime/playback.py, the recogniser   *)
(* and the voice gate in front of it and the responder behind it.          *)
(*                                                                         *)
(* Everything runs on one event loop, so an action is what happens between *)
(* two awaits that really wait: audio going out, the model, the settling   *)
(* of an answer that was cut, a timer.  The tasks are the speakers (the    *)
(* opening, the silence ladder's lines, and one task per answer) and the   *)
(* settlers, who wait for an answer to end before they start another: the  *)
(* recogniser's loop, the keypad in the socket's loop, and the watchdog    *)
(* that resumes a cut answer -- twice, since a watchdog that is cancelled  *)
(* while it settles goes on (`stray').  A transcript is nothing, a nod, a   *)
(* short goodbye, at least three words of a question, or a keypress.       *)
(***************************************************************************)
EXTENDS Integers

CONSTANTS
    Routes,        \* the calls considered, of "turns", "script", "segments"
    Answers,       \* answer tasks that may be alive at once (bound)
    MaxSentences,  \* sentences of one answer (bound)
    MaxActs,       \* per route, what the caller and the recogniser do (bound)
    None

Words == {"nothing", "nod", "bye", "many", "key"}
\* Words that may end the call: a goodbye, or a key the script decides on.
Decisive(w) == w \in {"bye", "key"}
Speakers == {"opening", "ladder"} \cup Answers
Settlers == {"loop", "keys", "dog", "stray"}
Stages == 3        \* prompt, warn, say goodbye

VARIABLES
    route,       \* "turns": a recogniser that ends turns; "segments": one that
                 \* only segments; "script": the first, under the outbound script
    sp,          \* per speaker: pc, kind and sentences left; of an answer not yet
                 \* begun, the words it is for and those the responder was asked
    speaking,    \* _agent_speaking
    cancelled,   \* the sender's event
    voice,       \* who holds _speaking, the lock, and is on the air
    protected,   \* the disclosure's first moments are playing
    answerTask,  \* _answer_task
    settling,    \* per settler: the answer it waits for in _settle_answer
    heard,       \* per settler: the transcript it will commit
    watching,    \* the resume watchdog is waiting for words or for quiet
    spec,        \* _speculation: the transcript it was started on
    resumable,   \* _resumable is not empty
    cutPending,  \* _cut_pending
    clock,       \* the silence ladder: pc and _silence_stage
    utter,       \* the recogniser is in the middle of a turn
    voiced,      \* the voice gate hears the caller
    acts,        \* counter of the bound
    callOver,    \* the responder's call_over
    parting,     \* decisive words were committed (history)
    ending, over \* _ending; the call is closed

tasks == <<sp, answerTask, settling, heard, watching>>
air == <<speaking, cancelled, voice, protected>>
turn == <<spec, resumable, cutPending, parting, callOver>>
caller == <<utter, voiced, acts>>
vars == <<route, tasks, air, turn, clock, caller, ending, over>>

-----------------------------------------------------------------------------
(* Speakers and the clock                                                  *)

Silent == [pc |-> "off", kind |-> "none", words |-> "nothing",
           asked |-> "nothing", left |-> 0]

Said(kind, n) == [Silent EXCEPT !.kind = kind, !.left = n]

\* The call begins with play_opening on the air.
Init ==
    /\ route \in Routes
    /\ sp = [s \in Speakers |->
               IF s = "opening" THEN [Said("greeting", 0) EXCEPT !.pc = "playing"]
               ELSE Silent]
    /\ speaking = TRUE /\ cancelled = FALSE /\ voice = "opening"
    /\ protected = (route = "script")
    /\ answerTask = None
    /\ settling = [r \in Settlers |-> None]
    /\ heard = [r \in Settlers |-> "nothing"]
    /\ watching = FALSE
    /\ spec = None /\ resumable = FALSE /\ cutPending = FALSE
    /\ parting = FALSE /\ callOver = FALSE
    /\ clock = [pc |-> "off", stage |-> 0]
    /\ utter = FALSE /\ voiced = FALSE /\ acts = 0
    /\ ending = FALSE /\ over = FALSE

Running(a) == sp[a].pc # "off"
Busy == answerTask # None /\ Running(answerTask)
Listening == ~speaking /\ ~ending /\ ~Busy
MayResume == route # "script"
Nod(w) == w \in {"nothing", "nod"}

\* Mutant: a watch that gave up mid-ladder is never started again.
StartedOnce(c) == IF ending \/ c # [pc |-> "off", stage |-> 0] THEN c
                  ELSE [c EXCEPT !.pc = "waiting"]

\* _start_silence_watch: not while the goodbye is said, not over a running one.
Started(c) == IF ending \/ c.pc # "off" THEN c ELSE [c EXCEPT !.pc = "waiting"]

Stopped == [pc |-> "off", stage |-> 0]

\* Cancelling the ladder while it speaks: the task unwinds on the next
\* iteration of the event loop, before anything that happens later.
Unwound ==
    IF clock.pc # "speaking" THEN sp
    ELSE [sp EXCEPT !["ladder"] = IF @.pc = "hanging" THEN Silent
                                  ELSE [@ EXCEPT !.pc = "unwinding"]]

\* _begin_playback: one flag and one sender for every speaker, so beginning
\* forgets a cut that another speaker has not noticed yet.
BeginPlayback ==
    /\ speaking' = TRUE
    /\ cancelled' = FALSE

\* _end_playback: the flag falls, the clock starts, and what an interrupted
\* line had left to say is kept for a resume -- none of it if the last sentence
\* was heard well enough.
EndPlayback(s, cut, c) ==
    /\ speaking' = FALSE
    /\ clock' = Started(c)
    /\ \/ resumable' = (cut \/ cancelled \/ resumable)
       \/ (cut \/ cancelled) /\ resumable' = FALSE

-----------------------------------------------------------------------------
(* Interruption                                                            *)

\* handle_barge_in is reached only while the agent speaks, and refuses while
\* the disclosure is protected.
Cuts == speaking /\ ~protected

\* The answer a cancelled watchdog was awaiting is cancelled with it, and the
\* watchdog swallows the exception and carries on.
DogCancelled(on, w) ==
    /\ watching' = w
    /\ settling' = [on EXCEPT !["dog"] = None,
                              !["stray"] = IF on["dog"] # None THEN on["dog"] ELSE @]

CancelTask(f, a) ==
    [f EXCEPT ![a] = IF @.pc \in {"waiting", "playing", "draining"}
                     THEN [@ EXCEPT !.pc = "unwinding"] ELSE Silent]

Abandoned(f) == IF settling["dog"] = None THEN f ELSE CancelTask(f, settling["dog"])

-----------------------------------------------------------------------------
(* The commit                                                              *)

\* Mutant: a pending speculation is taken whatever the turn turned out to be.
MatchesAnything(w) == TRUE

\* _Speculation.matches: the words of the eager signal and of the turn's end.
Matches(w) == spec = w

\* The task of a new answer.  A free slot is one nobody waits for.
Slots == {a \in Answers : ~Running(a) /\ \A r \in Settlers : settling[r] # a}

Starts(f, kind, w, asked) ==
    /\ Slots # {}
    /\ LET a == CHOOSE a \in Slots : TRUE
       IN  /\ \E n \in 0..MaxSentences :
                 sp' = [f EXCEPT ![a] = [pc |-> "made", kind |-> kind, words |-> w,
                                         asked |-> asked, left |-> n]]
           /\ answerTask' = a

\* _commit, once the previous answer has settled: a nod over the last words is
\* dropped, a nod over the middle of an answer resumes it, nothing is not
\* answered, and words are -- from the speculation if it was for these words.
Decide(w, cut, f, c) ==
    LET drop == cut /\ Nod(w) /\ ~resumable /\ MayResume
        rest == resumable /\ Nod(w) /\ MayResume
    IN  /\ cutPending' = FALSE
        /\ resumable' = FALSE
        /\ parting' = (parting \/ Decisive(w))
        /\ \/ /\ drop \/ (~rest /\ w = "nothing")
              /\ sp' = f
              /\ answerTask' = IF Busy THEN answerTask ELSE None
              /\ clock' = Started(c)
              /\ spec' = IF drop THEN None ELSE spec
           \/ /\ rest
              /\ Starts(f, "rest", w, w)
              /\ clock' = c
              /\ spec' = None
           \/ /\ ~drop /\ ~rest /\ w # "nothing"
              /\ Starts(f, "answer", w, IF spec # None /\ Matches(w) THEN spec ELSE w)
              /\ clock' = c
              /\ spec' = None

\* _commit from the event that ended the turn: it waits in _settle_answer for
\* an answer that still runs, and otherwise goes straight through.  `now' says
\* what the same handler did to the air.
Commit(r, w, f, c, cut) ==
    /\ DogCancelled([settling EXCEPT ![r] = IF Busy THEN answerTask ELSE None], FALSE)
    /\ IF Busy
       THEN /\ heard' = [heard EXCEPT ![r] = w]
            /\ sp' = Abandoned(f) /\ answerTask' = None /\ clock' = c
            /\ cutPending' = cut
            /\ UNCHANGED <<resumable, parting, spec>>
       ELSE /\ Decide(w, cut, Abandoned(f), c)
            /\ UNCHANGED heard

-----------------------------------------------------------------------------
(* What the caller and the recogniser do                                   *)

Open == ~over /\ sp["ladder"].pc # "unwinding" /\ \A a \in Answers : sp[a].pc # "unwinding"
Acts == Open /\ acts < MaxActs[route] /\ acts' = acts + 1
LoopFree == settling["loop"] = None
SocketFree == settling["keys"] = None

\* The event that interrupts and nothing more.
Interrupt(byVoice) ==
    IF Cuts
    THEN /\ cancelled' = TRUE
         /\ cutPending' = TRUE
         /\ DogCancelled(settling, byVoice)
         /\ sp' = Abandoned(Unwound)
    ELSE /\ UNCHANGED <<cancelled, cutPending, watching, settling>>
         /\ sp' = Unwound

\* feed_audio, VoiceEvent.SPEECH_START.
VoiceStart ==
    /\ Acts /\ SocketFree /\ ~voiced
    /\ voiced' = TRUE
    /\ clock' = Stopped
    /\ Interrupt(TRUE)
    /\ UNCHANGED <<route, answerTask, heard, speaking, voice, protected, spec,
                   resumable, parting, callOver, utter, ending, over>>

\* Mutant: a sound the recogniser makes nothing of leaves the clock stopped.
VoiceEndUntimed ==
    /\ Open /\ SocketFree /\ voiced
    /\ voiced' = FALSE
    /\ UNCHANGED <<route, tasks, air, turn, clock, utter, acts, ending, over>>

\* feed_audio, VoiceEvent.SPEECH_END: the clock restarts if we are listening.
VoiceEnd ==
    /\ Open /\ SocketFree /\ voiced
    /\ voiced' = FALSE
    /\ clock' = IF Listening THEN Started(clock) ELSE clock
    /\ UNCHANGED <<route, tasks, air, turn, utter, acts, ending, over>>

\* SPEECH_STARTED, honoured only when the gate heard a voice lately.
SpeechStarted ==
    /\ Acts /\ LoopFree /\ route # "segments" /\ ~utter
    /\ utter' = TRUE
    /\ clock' = Stopped
    /\ \/ Interrupt(FALSE)
       \/ sp' = Unwound /\ UNCHANGED <<cancelled, cutPending, watching, settling>>
    /\ UNCHANGED <<route, answerTask, heard, speaking, voice, protected, spec,
                   resumable, parting, callOver, voiced, ending, over>>

\* PARTIAL: the words so far, _partial_since_cut; the watchdog, the only one who
\* reads it, gives up.
Partial ==
    /\ Acts /\ LoopFree /\ (utter \/ route = "segments")
    /\ watching' = FALSE
    /\ clock' = Stopped /\ sp' = Unwound
    /\ UNCHANGED <<route, answerTask, settling, heard, air, spec,
                   resumable, cutPending, parting, callOver, utter, voiced, ending, over>>

\* EAGER_END_OF_TURN: the responder starts answering, side effects and all,
\* unless an answer is being prepared or spoken or this is a nod after a cut.
Eager(w) ==
    /\ Acts /\ LoopFree /\ utter /\ w \notin {"nothing", "key"}
    /\ clock' = Stopped /\ sp' = Unwound
    /\ IF spec # None \/ speaking \/ (cutPending /\ w = "nod")
       THEN UNCHANGED <<spec, callOver>>
       ELSE spec' = w /\ callOver' = (callOver \/ w = "bye")
    /\ UNCHANGED <<route, answerTask, settling, heard, watching, air, resumable,
                   cutPending, parting, utter, voiced, ending, over>>

\* TURN_RESUMED: the speculation is cancelled and awaited, and the responder
\* is told that its half-answered question was withdrawn.
TurnResumed ==
    /\ Acts /\ LoopFree /\ utter /\ spec # None
    /\ spec' = None
    /\ clock' = Stopped /\ sp' = Unwound
    /\ UNCHANGED <<route, answerTask, settling, heard, watching, air, resumable,
                   cutPending, parting, callOver, utter, voiced, ending, over>>

\* _on_end_of_turn: while the agent speaks, three words interrupt and fewer are
\* noise; otherwise the turn is committed.
Ends(w, words) ==
    IF speaking /\ w # "many"
    THEN /\ spec' = None
         /\ clock' = Stopped /\ sp' = Unwound
         /\ watching' = (watching /\ ~words)
         /\ UNCHANGED <<cancelled, answerTask, settling, heard,
                        resumable, cutPending, parting>>
    ELSE /\ Commit("loop", w, Unwound, Stopped, cutPending \/ Cuts)
         /\ cancelled' = (cancelled \/ Cuts)

\* END_OF_TURN, of a turn that began and, with no words in it, of none.
EndOfTurn(w) ==
    /\ Open /\ LoopFree /\ utter /\ w # "key"
    /\ utter' = FALSE
    /\ Ends(w, FALSE)
    /\ UNCHANGED <<route, acts, speaking, voice, protected, callOver, voiced, ending, over>>

EmptyTurn ==
    /\ Acts /\ LoopFree /\ route # "segments" /\ ~utter
    /\ Ends("nothing", FALSE)
    /\ UNCHANGED <<route, speaking, voice, protected, callOver, utter, voiced, ending, over>>

\* FINAL: the detector in front of a segmenting recogniser is asked once, with
\* the same 700 ms of silence each time, and nobody asks it again.
Final(w, end) ==
    /\ Acts /\ LoopFree /\ route = "segments" /\ w \notin {"nothing", "key"}
    /\ IF end THEN Ends(w, TRUE)
       ELSE /\ watching' = FALSE /\ clock' = Stopped /\ sp' = Unwound
            /\ UNCHANGED <<cancelled, answerTask, settling, heard, spec,
                           resumable, cutPending, parting>>
    /\ UNCHANGED <<route, speaking, voice, protected, callOver, utter, voiced,
                   ending, over>>

\* on_dtmf, in the socket's loop: interrupts, withdraws the speculation,
\* forgets what could be resumed, commits.  The silence clock is not touched.
KeyPress ==
    /\ Acts /\ SocketFree /\ route = "script"
    /\ LET cut == cutPending \/ Cuts
       IN  /\ DogCancelled([settling EXCEPT !["keys"] = IF Busy THEN answerTask ELSE None],
                           FALSE)
           /\ clock' = clock /\ spec' = None /\ resumable' = FALSE
           /\ IF Busy
              THEN /\ heard' = [heard EXCEPT !["keys"] = "key"]
                   /\ sp' = Abandoned(sp) /\ answerTask' = None /\ cutPending' = cut
                   /\ UNCHANGED parting
              ELSE /\ Starts(Abandoned(sp), "answer", "key", "key")
                   /\ cutPending' = FALSE /\ parting' = TRUE
                   /\ UNCHANGED heard
    /\ cancelled' = (cancelled \/ Cuts)
    /\ UNCHANGED <<route, speaking, voice, protected, callOver, utter, voiced,
                   ending, over>>

\* close() cancels every task; the pipeline is dropped with what it held.
Closed ==
    /\ over' = TRUE
    /\ sp' = [s \in Speakers |-> Silent]
    /\ answerTask' = None /\ watching' = FALSE
    /\ settling' = [r \in Settlers |-> None]
    /\ heard' = [r \in Settlers |-> "nothing"]
    /\ spec' = None /\ clock' = Stopped
    /\ speaking' = FALSE /\ voice' = None /\ cancelled' = TRUE /\ protected' = FALSE
    /\ resumable' = FALSE /\ cutPending' = FALSE
    /\ utter' = FALSE /\ voiced' = FALSE
    /\ acts' = MaxActs[route]
    /\ UNCHANGED <<route, parting, callOver, ending>>

\* The caller hangs up.
HangsUp == Open /\ acts < MaxActs[route] /\ Closed

-----------------------------------------------------------------------------
(* Settling, and the watchdog                                              *)

\* The loop and the keypad come back from _settle_answer and go on with the
\* turn they were committing; nothing they checked before is checked again.
Settled(r) ==
    /\ Open /\ r \in {"loop", "keys"}
    /\ settling[r] # None /\ ~Running(settling[r])
    /\ settling' = [settling EXCEPT ![r] = None]
    /\ heard' = [heard EXCEPT ![r] = "nothing"]
    /\ Decide(heard[r], cutPending, sp, clock)
    /\ UNCHANGED <<route, watching, air, callOver, caller, ending, over>>

\* _watch_for_resume gives up after six seconds of a voice with no words.
DogGivesUp ==
    /\ Open /\ watching /\ voiced
    /\ watching' = FALSE
    /\ UNCHANGED <<route, sp, answerTask, settling, heard, air, turn, clock,
                   caller, ending, over>>

\* What is left of the cut answer is spoken without a turn in front of it.
ResumeRest ==
    /\ resumable' = FALSE
    /\ IF resumable /\ MayResume THEN Starts(sp, "rest", "nothing", "nothing")
       ELSE UNCHANGED sp /\ answerTask' = IF Busy THEN answerTask ELSE None

\* The room is quiet and no words came: _resume, which settles the answer
\* first.  A watchdog that finds another answer on the air cuts it, which
\* cancels the watchdog itself and, through its await, that answer.
DogResumes ==
    /\ Open /\ watching /\ ~voiced
    /\ watching' = FALSE
    /\ LET again == Busy /\ Cuts /\ ~cancelled
       IN  /\ cancelled' = (cancelled \/ again)
           /\ cutPending' = (cutPending \/ again)
           /\ IF ~Busy THEN ResumeRest /\ UNCHANGED settling
              ELSE /\ settling' = [settling EXCEPT ![IF again THEN "stray" ELSE "dog"]
                                                        = answerTask]
                   /\ sp' = IF again THEN CancelTask(sp, answerTask) ELSE sp
                   /\ answerTask' = None
                   /\ UNCHANGED resumable
    /\ UNCHANGED <<route, heard, speaking, voice, protected, spec,
                   parting, callOver, clock, caller, ending, over>>

DogSettled(r) ==
    /\ Open /\ r \in {"dog", "stray"}
    /\ settling[r] # None /\ ~Running(settling[r])
    /\ settling' = [settling EXCEPT ![r] = None]
    /\ ResumeRest
    /\ UNCHANGED <<route, heard, watching, air, spec, cutPending,
                   parting, callOver, clock, caller, ending, over>>

-----------------------------------------------------------------------------
(* Speaking                                                                *)

\* _stream_answer and _speak begin; the model is asked, and a responder that
\* hears a goodbye or decides the script sets call_over.
BeginAnswer(a) ==
    /\ Open /\ sp[a].pc = "made" /\ a \in Answers
    /\ sp' = [sp EXCEPT ![a] = [Said(@.kind, @.left) EXCEPT !.pc = "waiting"]]
    /\ BeginPlayback
    /\ LET w == IF sp[a].kind = "answer" THEN sp[a].words ELSE "nothing"
       IN  callOver' \in CASE w = "bye" -> {TRUE}
                           [] w = "key" -> {callOver, TRUE}
                           [] OTHER     -> {callOver}
    /\ UNCHANGED <<route, answerTask, settling, heard, watching, voice, protected,
                   spec, resumable, cutPending, parting, clock, caller, ending,
                   over>>

\* The next sentence is there and takes the lock.
Speak(s) ==
    /\ Open /\ sp[s].pc = "waiting" /\ sp[s].left > 0 /\ ~cancelled /\ voice = None
    /\ sp' = [sp EXCEPT ![s].pc = "playing", ![s].left = @ - 1]
    /\ voice' = s
    /\ UNCHANGED <<route, answerTask, settling, heard, watching, speaking,
                   cancelled, protected, turn, clock, caller, ending, over>>

\* Its last frame has gone out with the sender not cancelled.
Played(s) ==
    /\ Open /\ sp[s].pc = "playing" /\ s # "opening" /\ ~cancelled
    /\ sp' = [sp EXCEPT ![s].pc = "waiting"]
    /\ voice' = None
    /\ UNCHANGED <<route, answerTask, settling, heard, watching, speaking,
                   cancelled, protected, turn, clock, caller, ending, over>>

\* An answer that was cut reads the model on for what it had left to say.
Drains(s) ==
    /\ Open /\ cancelled /\ s \in Answers /\ sp[s].kind = "answer"
    /\ sp[s].pc = "playing" \/ (sp[s].pc = "waiting" /\ sp[s].left > 0)
    /\ sp' = [sp EXCEPT ![s].pc = "draining"]
    /\ voice' = IF voice = s THEN None ELSE voice
    /\ UNCHANGED <<route, answerTask, settling, heard, watching, speaking,
                   cancelled, protected, turn, clock, caller, ending, over>>

\* How a speaker stops: everything said, or cut and (for an answer) drained.
SaidAll(s) ==
    \/ sp[s].pc = "waiting" /\ sp[s].left = 0
    \/ s = "opening" /\ sp[s].pc = "playing" /\ ~cancelled
CutOff(s) ==
    \/ sp[s].pc = "draining"
    \/ /\ cancelled /\ sp[s].kind # "answer"
       /\ sp[s].pc = "playing" \/ (sp[s].pc = "waiting" /\ sp[s].left > 0)
Stops(s) ==
    /\ Open
    /\ SaidAll(s) \/ CutOff(s)
    /\ voice' = IF voice = s THEN None ELSE voice
    /\ UNCHANGED <<route, answerTask, settling, heard, watching, cancelled, spec,
                   cutPending, parting, callOver, caller, over>>

EndOpening ==
    /\ Stops("opening")
    /\ EndPlayback("opening", CutOff("opening"), clock)
    /\ sp' = [sp EXCEPT !["opening"] = Silent]
    /\ protected' = FALSE
    /\ UNCHANGED ending

\* A prompt does not reset the ladder, which climbs to its next rung; the
\* goodbye is followed by on_call_over.
EndLadder ==
    /\ Stops("ladder")
    /\ EndPlayback("ladder", CutOff("ladder"),
                   IF sp["ladder"].kind = "prompt" THEN [clock EXCEPT !.pc = "waiting"]
                   ELSE clock)
    /\ sp' = [sp EXCEPT !["ladder"] = IF @.kind = "prompt" THEN Silent
                                     ELSE [@ EXCEPT !.pc = "hanging"]]
    /\ UNCHANGED <<protected, ending>>

\* _answer after _finish_turn: a hand-over the responder prepared, then the end
\* of the call if the responder asked for it.
EndAnswer(a) ==
    /\ Stops(a) /\ a \in Answers
    /\ \/ /\ ~callOver \/ sp[a].kind = "rest"
          /\ EndPlayback(a, CutOff(a), clock)
          /\ sp' = [sp EXCEPT ![a] = Silent]
          /\ UNCHANGED ending
       \/ /\ sp[a].kind = "answer" /\ route # "script" /\ ~callOver
          /\ EndPlayback(a, CutOff(a), clock)
          /\ sp' = [sp EXCEPT ![a].pc = "handing"]
          /\ UNCHANGED ending
       \/ /\ callOver /\ sp[a].kind # "rest"
          /\ ending' = TRUE
          /\ speaking' = FALSE /\ clock' = Stopped
          /\ resumable' \in {resumable, CutOff(a) \/ cancelled}
          /\ sp' = [Unwound EXCEPT ![a].pc = "hanging"]
    /\ UNCHANGED protected

\* The first 600 ms of the disclosure are over.
ProtectionEnds ==
    /\ Open /\ protected /\ sp["opening"].pc = "playing"
    /\ protected' = FALSE
    /\ UNCHANGED <<route, tasks, speaking, cancelled, voice, turn, clock, caller,
                   ending, over>>

\* A cancelled task runs its finally: _end_playback, whatever else is spoken.
Unwind(s) ==
    /\ ~over /\ sp[s].pc = "unwinding"
    /\ voice' = IF voice = s THEN None ELSE voice
    /\ sp' = [sp EXCEPT ![s] = Silent]
    /\ EndPlayback(s, FALSE, clock)
    /\ UNCHANGED <<route, answerTask, settling, heard, watching, cancelled,
                   protected, spec, cutPending, parting, callOver, caller,
                   ending, over>>

-----------------------------------------------------------------------------
(* The hand-over, the ladder and the end                                   *)

\* The hand-over could not be made: announce() says so, after silencing the
\* ladder, which speaks through the same sender.
HandoverFails(a) ==
    /\ Open /\ sp[a].pc = "handing"
    /\ sp' = [Unwound EXCEPT ![a] = [Said("line", 1) EXCEPT !.pc = "waiting"]]
    /\ clock' = Stopped
    /\ BeginPlayback
    /\ UNCHANGED <<route, answerTask, settling, heard, watching, voice, protected,
                   turn, caller, ending, over>>

\* _watch_silence reaches its next rung.  Only the flag is looked at: somebody
\* speaking ends the watch, and the end of what they say starts another.
ClockFires ==
    /\ Open /\ clock.pc = "waiting"
    /\ \/ /\ speaking \/ clock.stage = Stages
          /\ clock' = [clock EXCEPT !.pc = "off"]
          /\ UNCHANGED <<sp, speaking, cancelled, ending>>
       \/ /\ ~speaking /\ clock.stage < Stages - 1
          /\ clock' = [pc |-> "speaking", stage |-> clock.stage + 1]
          /\ sp' = [sp EXCEPT !["ladder"] = [Said("prompt", 1) EXCEPT !.pc = "waiting"]]
          /\ BeginPlayback
          /\ UNCHANGED ending
       \/ /\ ~speaking /\ clock.stage = Stages - 1
          /\ IF ending THEN clock' = [pc |-> "off", stage |-> Stages]
                            /\ UNCHANGED <<sp, speaking, cancelled, ending>>
             ELSE /\ ending' = TRUE
                  /\ clock' = [pc |-> "speaking", stage |-> Stages]
                  /\ sp' = [sp EXCEPT !["ladder"] =
                                [Said("goodbye", 1) EXCEPT !.pc = "waiting"]]
                  /\ BeginPlayback
    /\ UNCHANGED <<route, answerTask, settling, heard, watching, voice, protected,
                   turn, caller, over>>

\* on_call_over has hung up, or the hand-over was made: the session closes.
EndOfCall(s) ==
    /\ Open /\ sp[s].pc \in {"hanging", "handing"}
    /\ Closed

-----------------------------------------------------------------------------
CallerActs ==
    \/ VoiceStart \/ SpeechStarted \/ EmptyTurn \/ Partial \/ TurnResumed \/ KeyPress \/ HangsUp
    \/ \E w \in Words : Eager(w)
    \/ \E w \in Words, end \in BOOLEAN : Final(w, end)

FinishesSpeaking == VoiceEnd \/ \E w \in Words : EndOfTurn(w)

Internal ==
    \/ \E r \in Settlers : Settled(r) \/ DogSettled(r)
    \/ DogGivesUp \/ DogResumes
    \/ EndOpening \/ EndLadder \/ ProtectionEnds \/ ClockFires
    \/ \E a \in Answers : BeginAnswer(a) \/ EndAnswer(a) \/ HandoverFails(a)
    \/ \E s \in Speakers : Speak(s) \/ Played(s) \/ Drains(s) \/ Unwind(s) \/ EndOfCall(s)

Next == CallerActs \/ FinishesSpeaking \/ Internal

\* The event loop runs what is ready, a voice that started stops, and the
\* recogniser ends every turn it began.  The caller need do nothing.
Spec == Init /\ [][Next]_vars
FairSpec == Spec /\ WF_vars(Internal \/ FinishesSpeaking)
-----------------------------------------------------------------------------
Pcs == {"off", "made", "waiting", "playing", "draining", "unwinding", "handing", "hanging"}
Kinds == {"none", "greeting", "prompt", "goodbye", "line", "answer", "rest"}

\* Type invariant.
TypeOK ==
    /\ route \in Routes
    /\ sp \in [Speakers -> [pc : Pcs, kind : Kinds, words : Words, asked : Words,
                            left : 0..MaxSentences]]
    /\ {speaking, cancelled, protected, watching, resumable, cutPending, utter,
        voiced, callOver, parting, ending, over} \subseteq BOOLEAN
    /\ voice \in Speakers \cup {None}
    /\ answerTask \in Answers \cup {None}
    /\ settling \in [Settlers -> Answers \cup {None}]
    /\ heard \in [Settlers -> Words]
    /\ spec \in Words \cup {None}
    /\ clock \in [pc : {"off", "waiting", "speaking"}, stage : 0..Stages]
    /\ acts \in 0..MaxActs[route]
\* Every answer was generated for the words its turn was committed with.
AnsweredAsAsked == \A a \in Answers : sp[a].asked = sp[a].words

\* Nobody is speaking, about to speak, or in the middle of being heard.
Quiet ==
    /\ Listening /\ ~utter /\ ~voiced /\ ~over
    /\ \A r \in Settlers : settling[r] = None
    /\ \A s \in Speakers : ~Running(s)

\* A line on which nothing is happening has the silence clock running.
ListeningIsTimed == Quiet /\ route # "segments" => clock.pc # "off"

\* Left alone, the call comes to its end.
LadderReachesTheEnd == route # "segments" => <>(ending \/ over)

\* (violated) Once the goodbye has begun the call ends.
GoodbyeEnds == ending ~> over

\* (violated) Whoever is on the air can be interrupted.
Interruptible == voice # None => speaking

\* (violated) The responder ends the call because of something that was said.
GoodbyeWasSaid == \A a \in Answers : sp[a].pc = "hanging" => parting
=============================================================================
