\* Two documents, the lines of one, two versions of a script, a call watched by one tab
\* and two transactions that append to the audit log, each on its own.
CONSTANTS
    Requests = {r1, r2}
    None = None
    MaxFaults = 1
    MaxDocs = 2
    Readings = {1, 2}
    MaxJobs = 2
    MinTokens = 30
    MaxTokens = 50
    OverlapPercent = 15
    MinMergeDepth = 2
    Headings <- SomeHeadings
    DocLines <- SomeLines
    MaxLines = 5
    MaxVersions = 2
    MaxEdits = 2
    Calls = {c1}
    Own = own
    Other = other
    QueueSize = 2
    MaxTurns = 2
    MaxStreams = 3
    MaxLosses = 2
    Writers = {w1, w2}
    MaxRows = 4
    BatchSize = 2
SPECIFICATION PanelSpec
INVARIANTS
    IndexedHasItsText ChunksCarryTheDocument FlowStaysLive
    NothingOutOfScope BoardAgreesWhenQuiet OneChain WatchIsRight
PROPERTIES UploadsSettle
CHECK_DEADLOCK FALSE
