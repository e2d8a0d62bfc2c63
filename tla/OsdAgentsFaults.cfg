CONSTANTS
    Agents = {"osd", "svc"}
    Controller = controller
    None = None
    NumSteps = 3
    Phases = {"full_os"}
    Kinds <- MCKinds
    Supported <- MCSupported
    Attempts <- MCAttempts
    RoleKinds = {"role", "join"}
    Plans <- SharedPlans
    Fleets <- BothClients
    FaultKinds = {"lost_reply", "late_request", "shutdown", "crash"}
    MaxFaults = 2
SPECIFICATION AgentSpec
CHECK_DEADLOCK FALSE
INVARIANTS
    DoneWasExecuted
