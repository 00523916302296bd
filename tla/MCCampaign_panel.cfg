\* Two people at the panel, two job slots: approvals, starts and stops race.
CONSTANTS
    k1 = k1  f1 = f1  f2 = f2  j1 = j1  j2 = j2
    owner = owner  ops = ops
    NoCampaign = NoCampaign  NoFarmer = NoFarmer  NoUser = NoUser
    Campaigns = {k1}
    Farmers = {f1}
    Users = {owner, ops}
    SuperAdmins = {owner}
    Jobs = {j1, j2}
    Concurrency = 1
    MaxAttempts = 1
    MinGap = 1
    WeeklyCap = 2
    WeekLength = 10
    CallingHours = {0}
    DndRegistered = {}
    ConsentExpires = 9
    QuickDialSelfApprove = FALSE
    MaxTries = 2
    MaxTime = 1
    MaxRequests = 2
    MaxFaults = 1
SPECIFICATION Spec
SYMMETRY Symmetry
INVARIANTS ApprovedBeforeDialled FourEyes CallsAreWrittenDown CapMissedByOneEach
CHECK_DEADLOCK FALSE
