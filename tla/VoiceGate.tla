------------------------------ MODULE VoiceGate ------------------------------
(***************************************************************************)
(* Is the caller talking, or is that the fan (runtime/vad.py): the gate    *)
(* that turns frames of sound into the start and the end of speech, which  *)
(* alone may interrupt the agent.                                          *)
(*                                                                         *)
(* A frame is its level and who makes it.  The judge of a single frame,    *)
(* which looks for a pitch, is not modelled: of a frame that clears the    *)
(* room it says yes to a voice and may say anything to a noise.  Levels    *)
(* are integers, and the slow rise of the floor is a step or none in every *)
(* frame, which allows more than the fractions of a decibel of the code.   *)
(***************************************************************************)
EXTENDS Integers, FiniteSets, Sequences, SequencesExt, FiniteSetsExt

CONSTANTS
    Silence,          \* the level of a muted line, FLOOR_MIN_DB or less
    Noise,            \* levels a steady noise may have
    Voice,            \* levels a voice may have
    MinLevel,         \* MIN_LEVEL_DB
    Clearance,        \* SNR_DB
    OnsetWindow, OnsetRequired, OnsetRange,
    StationaryWindow, StationaryRange,
    ReleaseFrames

VARIABLES
    speaking,
    floor,        \* floor_db
    recent,       \* _recent and _recent_levels
    levels,       \* _levels
    quietRun,     \* _quiet_run
    last,         \* who made the last frame (history)
    same,         \* for how many frames (history, capped)
    everVoice     \* whether a voice was ever in the room (history)

vars == <<speaking, floor, recent, levels, quietRun, last, same, everVoice>>

Levels == {Silence} \cup Noise \cup Voice
FullScale == Max(Levels) + Clearance
Cap == StationaryWindow + ReleaseFrames

Init ==
    /\ speaking = FALSE
    /\ floor = FullScale
    /\ recent = <<>> /\ levels = <<>> /\ quietRun = 0
    /\ last = "silence" /\ same = 0 /\ everVoice = FALSE

-----------------------------------------------------------------------------
Latest(seq, n) == SubSeq(seq, IF Len(seq) > n THEN Len(seq) - n + 1 ELSE 1, Len(seq))
Spread(set) == Max(set) - Min(set)

\* Mutant: only what has no pitch may become the floor.
NeverSteady(heard) == FALSE

\* Steady sound is never voice, whatever it sounds like.
Steady(heard) ==
    Len(heard) = StationaryWindow /\ Spread(Range(heard)) < StationaryRange

\* SpectralJudge.is_voice and SileroJudge.is_voice.
MayBeVoice(who, level) ==
    IF level < MinLevel \/ level < floor + Clearance THEN {FALSE}
    ELSE IF who = "voice" THEN {TRUE} ELSE BOOLEAN

\* _track_floor: drop at once, climb slowly.
TrackFloor(level) ==
    IF level < floor THEN {level}
    ELSE {floor, Min({floor + 1, level})}

Voiced(frames) == {frames[i].level : i \in {j \in DOMAIN frames : frames[j].voiced}}
CountVoiced(frames) == Cardinality({i \in DOMAIN frames : frames[i].voiced})

\* _onset_moves.
OnsetMoves(frames) == CountVoiced(frames) >= 2 /\ Spread(Voiced(frames)) >= OnsetRange

Onset(frames) == CountVoiced(frames) >= OnsetRequired /\ OnsetMoves(frames)

\* _judge, for one frame.
Frame(who, level) ==
    LET heard == Latest(Append(levels, level), StationaryWindow)
    IN  \E verdict \in MayBeVoice(who, level) :
          LET voiced == verdict /\ ~Steady(heard)
              frames == Latest(Append(recent, [voiced |-> voiced, level |-> level]),
                               OnsetWindow)
              quiet == IF voiced THEN 0 ELSE Min({quietRun + 1, ReleaseFrames})
              opens == ~speaking /\ Onset(frames)
              closes == speaking /\ quiet = ReleaseFrames
          IN  /\ levels' = heard
              /\ floor' \in TrackFloor(level)
              /\ speaking' = ((speaking \/ opens) /\ ~closes)
              /\ quietRun' = IF opens THEN 0 ELSE quiet
              /\ recent' = IF closes THEN <<>> ELSE frames

Hears(who, level) ==
    /\ Frame(who, level)
    /\ last' = who
    /\ same' = IF who = last THEN Min({same + 1, Cap}) ELSE 1
    /\ everVoice' = (everVoice \/ who = "voice")

Next ==
    \/ Hears("silence", Silence)
    \/ \E level \in Noise : Hears("noise", level)
    \/ \E level \in Voice : Hears("voice", level)

Spec == Init /\ [][Next]_vars

-----------------------------------------------------------------------------
(* Properties                                                              *)

\* The windows are windows.
TypeOK ==
    /\ speaking \in BOOLEAN /\ quietRun \in 0..ReleaseFrames
    /\ levels \in Seq(Levels) /\ Len(levels) <= StationaryWindow
    /\ Len(recent) <= OnsetWindow

\* A fan alone never interrupts the agent, whatever the judge takes it for; one that
\* is switched on while the caller talks becomes the room, so that it cannot keep
\* the gate open when the caller has stopped; and neither can a silent line.
NoiseIsNotSpeech ==
    /\ speaking => everVoice
    /\ speaking /\ last = "noise" => same < StationaryWindow + ReleaseFrames - 1
    /\ speaking /\ last = "silence" => same < ReleaseFrames
=============================================================================
