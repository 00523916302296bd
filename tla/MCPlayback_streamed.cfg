CONSTANTS
    Frame = 3
    Jitter = 2
    Lengths = {15}
    Words = 10
    MaxSentences = 1
SPECIFICATION Spec
INVARIANT StreamedAsHeard
CHECK_DEADLOCK FALSE
