CONSTANTS
    Agents = {"osd", "svc"}
    Controller = controller
    None = None
    NumSteps = 3
    Phases = {"full_os"}
    Kinds <- MCKinds
    Supported <- MCSupported
    Attempts <- MCAttempts
    RoleKinds = {"role", "join"}
    Plans <- AllPlans
    Fleets <- AnyClients
    FaultKinds = {"crash"}
    MaxFaults = 1
SPECIFICATION AgentSpec
CHECK_DEADLOCK FALSE
INVARIANTS
    OneRunner
    DoneRunDidTheWork
PROPERTIES
    KeepsPromise
    RunEndsOrIsWedged
