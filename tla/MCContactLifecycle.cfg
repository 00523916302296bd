\* Two dials of one contact; any one step fails, or the voice worker is killed.
CONSTANTS
    MaxAttempts = 2
    MaxFaults = 1
    MaxCrashes = 1
SPECIFICATION Spec
INVARIANTS ScriptResultKept UnansweredDialIsNotACall OptOutOnRecord
PROPERTIES DialResolved
CHECK_DEADLOCK FALSE
