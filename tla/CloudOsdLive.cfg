CONSTANTS
    Agents = {}
    Controller = controller
    None = None
    NumSteps = 9
    Phases <- MCPhases
    Kinds <- MCKinds
    Plans <- MCPlans
    Supported <- MCSupported
    DomainJoin = "online"
    VerifyRetries = 0
    CaptureRetries = 0
    MaxFaults = 1
    MaxRequeues = 0
    MaxCrashes = 1
SPECIFICATION CloudSpec
PROPERTIES
    WaitingRunSettles
