\* Fairness of the worker alone: every job ends.
CONSTANTS
    k1 = k1  f1 = f1  f2 = f2  j1 = j1  j2 = j2
    owner = owner  ops = ops
    NoCampaign = NoCampaign  NoFarmer = NoFarmer  NoUser = NoUser
    Campaigns = {k1}
    Farmers = {f1, f2}
    Users = {ops}
    SuperAdmins = {ops}
    Jobs = {j1}
    Concurrency = 1
    MaxAttempts = 2
    MinGap = 1
    WeeklyCap = 2
    WeekLength = 10
    CallingHours = {0}
    DndRegistered = {}
    ConsentExpires = 9
    QuickDialSelfApprove = TRUE
    MaxTries = 2
    MaxTime = 0
    MaxRequests = 2
    MaxFaults = 1
SPECIFICATION Spec
PROPERTIES EveryRunEnds
CHECK_DEADLOCK FALSE
