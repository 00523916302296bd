----------------------------- MODULE MCDialogue -----------------------------
(***************************************************************************)
(* Four parts of what is heard and said on a call, model-checked in one    *)
(* run: the agent and its memory, the turn loop that speaks for it, the    *)
(* recogniser in front of them and the gate that tells a voice from a      *)
(* noise.  Each keeps in its own state what it sees of its neighbours, so  *)
(* that a behaviour is a behaviour of one of them, the part chosen in its  *)
(* first state; the others stand still.  The agent is extended, so that    *)
(* its properties are checked as they are.                                 *)
(***************************************************************************)
EXTENDS InboundAgent

CONSTANTS
    FreeTurns, LaterWords, EarlyTurns, EarlyWords,   \* bounds: see AgentBounds
    Routes, Answers, LoopSentences, None,
    MaxWords, MaxGuess, MaxChanges, AfterFinal, AfterStable, QueueMax, MaxWaiting,
    Silence, Noise, Voice, MinLevel, Clearance, OnsetWindow, OnsetRequired, OnsetRange,
    StationaryWindow, StationaryRange, ReleaseFrames

VARIABLES
    part,
    \* TurnLoop
    route, sp, speaking, cancelled, voice, protected, answerTask, settling, heard,
    watching, spec, resumable, cutPending, clock, utter, voiced, acts, overSaid,
    parting, ending, hungUp,
    \* Recogniser
    final, pending, eager, timer, queue, waiting, reader, pipeline, settled, changes,
    overtaken,
    \* VoiceGate
    open, floor, recent, levels, quietRun, last, same, everVoice

\* A turn with a pause in it takes three events; the script needs two to cut
\* its opening twice.
ActsPerRoute == [r \in Routes |-> IF r = "turns" THEN 3 ELSE 2]

Loop == INSTANCE TurnLoop
            WITH MaxSentences <- LoopSentences, MaxActs <- ActsPerRoute,
                 callOver <- overSaid, over <- hungUp
Ears == INSTANCE Recogniser
Gate == INSTANCE VoiceGate WITH speaking <- open

\* The gate: levels are numbers between two limits, the windows are not empty, a
\* muted line is below the least level of a voice, and a steady noise is one whose
\* levels are nearer to each other than the movement that is asked of a voice.
\* The recogniser: its counts and its timers are not negative.
ASSUME DialogueAssumption ==
    /\ Gate!Levels \subseteq Int
    /\ \E top, bottom \in Gate!Levels : \A l \in Gate!Levels : bottom <= l /\ l <= top
    /\ {OnsetWindow, OnsetRequired, StationaryWindow, ReleaseFrames} \subseteq Nat \ {0}
    /\ MinLevel \in Int /\ Silence < MinLevel
    /\ {OnsetRange, StationaryRange} \subseteq Int
    /\ \A a, b \in Noise : a - b < OnsetRange /\ a - b < StationaryRange
    /\ {MaxWords, MaxGuess, MaxChanges, AfterFinal, AfterStable, QueueMax, MaxWaiting}
            \subseteq Nat

turns == <<route, sp, speaking, cancelled, voice, protected, answerTask, settling,
           heard, watching, spec, resumable, cutPending, clock, utter, voiced, acts,
           overSaid, parting, ending, hungUp>>
ears == <<final, pending, eager, timer, queue, waiting, reader, pipeline, settled,
          changes, overtaken>>
gate == <<open, floor, recent, levels, quietRun, last, same, everVoice>>
allVars == <<part, vars, turns, ears, gate>>

-----------------------------------------------------------------------------
DialogueInit ==
    /\ part \in {"agent", "turns", "ears", "gate"}
    /\ Init /\ Loop!Init /\ Ears!Init /\ Gate!Init
    /\ part # "agent" => ~early
    /\ part # "turns" => route = "turns"

\* What is said in the first turns and in those after them; with an early signal,
\* where tasks run side by side, fewer turns, of words that the model answers.
AgentBounds ==
    /\ early => turn' <= EarlyTurns
    /\ \A n \in Turns :
          resp'[n].words \in {Off.words} \cup
              (IF early THEN EarlyWords ELSE IF n <= FreeTurns THEN Utterances ELSE LaterWords)

InAgent == part = "agent" /\ UNCHANGED <<part, turns, ears, gate>>
InTurns == part = "turns" /\ UNCHANGED <<part, vars, ears, gate>>
InEars == part = "ears" /\ UNCHANGED <<part, vars, turns, gate>>
InGate == part = "gate" /\ UNCHANGED <<part, vars, turns, ears>>

DialogueNext ==
    \/ InAgent /\ Next /\ AgentBounds
    \/ InTurns /\ Loop!Next
    \/ InEars /\ Ears!Next
    \/ InGate /\ Gate!Next

\* The fairness of the loop and of the recogniser's timers.  The part never
\* changes, so that of its fair actions one condition may speak.
DialogueFairness ==
    /\ WF_allVars(\/ InTurns /\ (Loop!Internal \/ Loop!FinishesSpeaking)
                  \/ InEars /\ Ears!Tick)
    /\ WF_allVars(InEars /\ Ears!FireEager)

DialogueSpec == DialogueInit /\ [][DialogueNext]_allVars /\ DialogueFairness

-----------------------------------------------------------------------------
(* The properties of the parts, which their modules explain.               *)

\* No answer is to other words than the caller's last.
AnsweredAsAsked == part = "turns" => Loop!AnsweredAsAsked

\* A caller who says nothing is under the silence clock.
ListeningIsTimed == part = "turns" => Loop!ListeningIsTimed

\* The silence ladder reaches its end.
LadderReachesTheEnd == part = "turns" => Loop!LadderReachesTheEnd

\* An answer is prepared only to what the caller has said so far.
PreparesForWhatWasSaid == part = "ears" => Ears!PreparesForWhatWasSaid

\* No turn is told twice, and none is lost while every event finds room.
TurnsArriveOnce == part = "ears" => Ears!TurnsArriveOnce

\* Words that have stopped changing are taken for the end of the turn.
PausesAreGuessed == Ears!PausesAreGuessed

\* A steady noise neither interrupts the agent nor holds the line open.
NoiseIsNotSpeech == part = "gate" => Gate!NoiseIsNotSpeech
=============================================================================
