\* The breakers, the pulls of one source and one answer, each on its own.
CONSTANTS
    llm = llm  tts = tts  c1 = c1  c2 = c2
    Vendors = {llm, tts}
    Streaming = {tts}
    Callers = {c1, c2}
    FailureThreshold = 3
    RecoveryTimeout = 3
    CallTimeout = 2
    MaxOutages = 1
    MaxMishaps = 3
    Requests = {r1, r2}
    MaxRuns = 2
    MaxFaults = 1
    None = None
    Frame = 3
    Jitter = 2
    Lengths = {5, 12}
    Words = 5
    MaxSentences = 4
SPECIFICATION ServicesSpec
INVARIANTS
    OneProbe RepeatedFailuresOpen
    RowsTellTheTruth OnePullPerProcess
    HeardIsNearlyRight NothingLeftUnsaid
PROPERTIES RecoveredVendorServed RunsEnd
CHECK_DEADLOCK FALSE
