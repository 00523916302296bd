------------------------------ MODULE Playback ------------------------------
(***************************************************************************)
(* How much of an answer the caller is taken to have heard: the tracker    *)
(* and the paced sender (runtime/playback.py), the sentences played        *)
(* through them (pipelines/conversation.py) and the telephony provider's   *)
(* jitter buffer, which a clear empties.                                   *)
(*                                                                         *)
(* Audio is counted in bytes and its pacing in frames: the provider plays  *)
(* a frame for each one that is sent, and never holds more of them than    *)
(* the jitter allowance assumes.  Words are counted, not spelled.          *)
(***************************************************************************)
EXTENDS Integers, Sequences, FiniteSets

CONSTANTS
    Frame,         \* FRAME_BYTES
    Jitter,        \* ASSUMED_JITTER_MS, in frames
    Lengths,       \* bytes of audio a sentence may have
    Words,         \* words of every sentence
    MaxSentences   \* sentences of an answer (bound)

VARIABLES
    answer,     \* the sentences: bytes of audio, and whether they come whole
    at,         \* the sentence being spoken
    phase,      \* where _speak_sentence is
    segments,   \* the tracker's: bytes of audio registered, per sentence
    arrived,    \* bytes of the streamed sentence that have arrived
    residue,    \* _residue: bytes that do not make a frame yet
    toSend,     \* bytes of the _send_paced call in progress
    sent,       \* bytes_sent, padding included
    cancelled,
    buffer,     \* frames the provider holds: bytes of speech in each
    ear         \* bytes of speech the caller has heard (history)

tracker == <<segments, sent>>
vars == <<answer, at, phase, segments, arrived, residue, toSend, sent, cancelled,
          buffer, ear>>

Sentence == [bytes : Lengths, whole : BOOLEAN]
Answers == UNION {[1..n -> Sentence] : n \in 1..MaxSentences}

\* _begin_playback: resume and reset.
Init ==
    /\ answer \in Answers
    /\ at = 1 /\ phase = "next"
    /\ segments = <<>> /\ arrived = 0 /\ residue = 0 /\ toSend = 0 /\ sent = 0
    /\ cancelled = FALSE
    /\ buffer = <<>> /\ ear = 0

LeastOf(a, b) == IF a < b THEN a ELSE b
GreatestOf(a, b) == IF a > b THEN a ELSE b

-----------------------------------------------------------------------------
(* The tracker                                                             *)

\* The bytes of the segments before segment i.
Start[i \in 1..(MaxSentences + 1)] == IF i = 1 THEN 0 ELSE Start[i - 1] + segments[i - 1]

TotalBytes == Start[Len(segments) + 1]

\* Mutant: the allowance for the provider's buffer is not taken off.
AllThatWasSent == LeastOf(sent, TotalBytes)

\* heard_bytes: what was sent, less what the provider may still hold.
HeardBytes == GreatestOf(0, LeastOf(sent, TotalBytes) - Jitter * Frame)

\* spoken_text, in words of each segment: all of those that ended, and of the one
\* that was playing as many as its share of audio, rounded down.
Credited(i) ==
    LET past == HeardBytes - Start[i]
    IN  IF i > Len(segments) \/ past <= 0 THEN 0
        ELSE IF past >= segments[i] THEN Words
        ELSE (Words * past) \div segments[i]

\* Mutant: what was begun is not repeated.
HeardAtAll(words) == words > 0

\* A sentence of which HEARD_ENOUGH was heard is not repeated.
HeardEnough(words) == words * 10 >= Words * 6

\* _remainder: the first sentence to be spoken again, or one past the last.
Resumes ==
    LET partly == {i \in 1..Len(answer) : Credited(i) < Words}
        first == CHOOSE i \in partly : \A j \in partly : i <= j
    IN  IF partly = {} THEN Len(answer) + 1
        ELSE IF HeardEnough(Credited(first)) THEN first + 1
        ELSE first

-----------------------------------------------------------------------------
(* One sentence after the other                                            *)

\* A sentence that was rendered ahead, or cached, is registered and sent whole.
PlaysWhole ==
    /\ phase = "next" /\ at <= Len(answer) /\ ~cancelled /\ answer[at].whole
    /\ segments' = Append(segments, answer[at].bytes)
    /\ toSend' = answer[at].bytes
    /\ phase' = "tail"
    /\ UNCHANGED <<answer, at, arrived, residue, sent, cancelled, buffer, ear>>

\* A sentence that is still being synthesised: play_chunk, for each chunk.  Its
\* segment is opened by the first and grows, and only whole frames are sent.
ChunkArrives ==
    /\ phase \in {"next", "chunks"} /\ at <= Len(answer) /\ toSend = 0
    /\ phase = "next" => ~cancelled
    /\ ~answer[at].whole /\ arrived < answer[at].bytes
    /\ \E n \in 1..(answer[at].bytes - arrived) :
          LET opened == IF phase = "next" THEN Append(segments, 0) ELSE segments
          IN  /\ arrived' = arrived + n
              /\ segments' = [opened EXCEPT ![at] = @ + n]
              /\ toSend' = ((residue + n) \div Frame) * Frame
              /\ residue' = (residue + n) % Frame
    /\ phase' = "chunks"
    /\ UNCHANGED <<answer, at, sent, cancelled, buffer, ear>>

\* The next frame of _send_paced, the last one padded.
SendsFrame ==
    /\ toSend > 0 /\ ~cancelled /\ Len(buffer) < Jitter
    /\ buffer' = Append(buffer, LeastOf(toSend, Frame))
    /\ toSend' = GreatestOf(0, toSend - Frame)
    /\ sent' = sent + Frame
    /\ UNCHANGED <<answer, at, phase, segments, arrived, residue, cancelled, ear>>

\* flush, at the end of a sentence.
Flushes ==
    /\ phase = "chunks" /\ toSend = 0 /\ ~cancelled /\ arrived = answer[at].bytes
    /\ toSend' = residue
    /\ residue' = 0
    /\ phase' = "tail"
    /\ UNCHANGED <<answer, at, segments, arrived, sent, cancelled, buffer, ear>>

NextSentence ==
    /\ phase = "tail" /\ toSend = 0
    /\ at' = at + 1 /\ arrived' = 0
    /\ phase' = "next"
    /\ UNCHANGED <<answer, segments, residue, toSend, sent, cancelled, buffer, ear>>

\* play, play_chunk and flush return False, and _end_playback follows.
Stops ==
    /\ phase # "over"
    /\ \/ cancelled
       \/ phase = "next" /\ at > Len(answer)
    /\ phase' = "over"
    /\ toSend' = 0
    /\ UNCHANGED <<answer, at, segments, arrived, residue, sent, cancelled, buffer, ear>>

\* The synthesiser fails while the sentence is being sent.
SynthesisFails ==
    /\ phase = "chunks" /\ toSend = 0 /\ arrived < answer[at].bytes
    /\ phase' = "over"
    /\ UNCHANGED <<answer, at, segments, arrived, residue, toSend, sent, cancelled,
                   buffer, ear>>

-----------------------------------------------------------------------------
(* The provider and the caller                                             *)

ProviderPlays ==
    /\ buffer # <<>>
    /\ ear' = ear + Head(buffer)
    /\ buffer' = Tail(buffer)
    /\ UNCHANGED <<answer, at, phase, segments, arrived, residue, toSend, sent, cancelled>>

\* handle_barge_in: the sender is cancelled and the provider's buffer cleared.
BargesIn ==
    /\ phase # "over" /\ ~cancelled
    /\ cancelled' = TRUE
    /\ buffer' = <<>>
    /\ UNCHANGED <<answer, at, phase, segments, arrived, residue, toSend, sent, ear>>

Next ==
    \/ PlaysWhole \/ ChunkArrives \/ SendsFrame \/ Flushes \/ NextSentence
    \/ Stops \/ SynthesisFails
    \/ ProviderPlays \/ BargesIn

Spec == Init /\ [][Next]_vars

-----------------------------------------------------------------------------
(* Properties                                                              *)

\* The counts are counts, and there is a segment for each sentence begun.
TypeOK ==
    /\ answer \in Answers /\ at \in 1..(MaxSentences + 1)
    /\ phase \in {"next", "chunks", "tail", "over"}
    /\ segments \in Seq(Nat) /\ Len(segments) <= at
    /\ residue \in 0..(Frame - 1) /\ {arrived, toSend, sent, ear} \subseteq Nat
    /\ cancelled \in BOOLEAN /\ Len(buffer) <= Jitter

\* What the caller has heard of sentence i, in bytes of its audio.
FullStart[i \in 1..(MaxSentences + 1)] ==
    IF i = 1 THEN 0 ELSE FullStart[i - 1] + answer[i - 1].bytes
HeardOf(i) == LeastOf(answer[i].bytes, GreatestOf(0, ear - FullStart[i]))

CutShort == cancelled /\ phase = "over"

\* What the tracker takes for heard of an answer that was cut differs from what
\* the caller heard by no more than the provider's buffer one way, and less than
\* a frame of padding for each sentence the other: it does not drift with the
\* length of the answer, with chunks that fill no frame, or with a cut in one.
HeardIsNearlyRight ==
    CutShort => /\ HeardBytes <= ear + (Frame - 1) * Len(segments)
                /\ HeardBytes >= ear - Jitter * Frame

\* What is taken up again leaves out no sentence that came whole and of which the
\* caller heard too little, but for that padding.
NothingLeftUnsaid ==
    CutShort => \A i \in 1..LeastOf(Resumes - 1, Len(answer)) :
        answer[i].whole =>
            10 * (HeardOf(i) + (Frame - 1) * i) >= 6 * answer[i].bytes

\* Not so: of a sentence that is played while it is synthesised, the tracker
\* knows the audio of the chunks that have been played and all of its words.  Cut
\* in the middle, it counts as spoken nearly to its end, and is not resumed.
StreamedAsHeard ==
    CutShort => \A i \in DOMAIN answer :
        ~answer[i].whole => Credited(i) * answer[i].bytes <= Words * HeardOf(i)
=============================================================================
