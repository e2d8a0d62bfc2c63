CONSTANTS
    NumJobs = 2
    Types = {"winpe", "osdeploy"}
    JobTypes <- MixedTypes
    Workers = {w1, w2}
    Caps = {1}
    OSDeploy = "osdeploy"
    Provision = {"winpe"}
    Killable = {1, 2}
    ListLimit = 2
    Faults = {"stall", "crash", "stop", "finalize"}
    MaxFaults = 1
    None = None
SPECIFICATION FairSpec
INVARIANTS
    OneBuilderPerJob
PROPERTIES
    EndedStaysAsItEnded
    EveryJobEnds
    KillEndsJob
    FailureReachesRun
