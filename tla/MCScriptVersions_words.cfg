\* The shortest trace: a version is approved, replaced, edited and spoken.
CONSTANTS
    MaxVersions = 2
    MaxEdits = 2
    Requests = {r1}
    None = None
SPECIFICATION Spec
INVARIANT KeepsItsWords
CHECK_DEADLOCK FALSE
