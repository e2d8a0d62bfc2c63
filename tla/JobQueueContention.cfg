CONSTANTS
    NumJobs = 4
    Types = {"winpe", "osdeploy"}
    JobTypes <- Alternating
    Workers = {w1, w2}
    Caps = {1, 2}
    OSDeploy = "osdeploy"
    Provision = {"winpe"}
    Killable = {}
    ListLimit = 2
    Faults = {"finalize", "related", "stall", "recover"}
    MaxFaults = 1
    None = None
SYMMETRY WorkerSymmetry
SPECIFICATION Spec
INVARIANTS
    CapRespected
    NoProcessForgotten
