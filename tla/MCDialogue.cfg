\* A call of four turns with what the caller may say, or of three with an early
\* signal, a turn loop, a recogniser and a voice gate, each on its own.
CONSTANTS
    Utterances = {"bye", "emergency", "nod", "kind", "product", "vague", "advice", "noise",
                  "chat", "human"}
    FreeTurns = 2
    LaterWords = {"nod", "kind", "vague", "noise", "chat"}
    EarlyTurns = 3
    EarlyWords = {"noise"}
    MaxTurns = 4
    MaxSentences = 1
    Routes = {"turns", "script", "segments"}
    Answers = {a1, a2}
    LoopSentences = 1
    None = None
    MaxWords = 2
    MaxGuess = 1
    MaxChanges = 3
    AfterFinal = 1
    AfterStable = 2
    QueueMax = 2
    MaxWaiting = 1
    Silence = 0
    Noise = {4, 5}
    Voice = {12, 18}
    MinLevel = 2
    Clearance = 3
    OnsetWindow = 3
    OnsetRequired = 2
    OnsetRange = 4
    StationaryWindow = 4
    StationaryRange = 3
    ReleaseFrames = 3
SPECIFICATION DialogueSpec
INVARIANTS
    QuestionsRemembered AskedTwiceAtMost
    AnsweredAsAsked ListeningIsTimed
    PreparesForWhatWasSaid TurnsArriveOnce NoiseIsNotSpeech
PROPERTIES LadderReachesTheEnd PausesAreGuessed
CHECK_DEADLOCK FALSE
