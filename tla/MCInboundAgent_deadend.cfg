\* A complaint: the agent escalates and nobody is asked to take the call.
CONSTANTS
    Utterances = {"complaint", "product"}
    MaxTurns = 3
    MaxSentences = 1
SPECIFICATION Spec
CHECK_DEADLOCK FALSE
INVARIANTS EscalationIsActedOn
