CONSTANTS
    Agents = {agent}
    Controller = controller
    None = None
    NumSteps = 9
    Phases <- MCPhases
    Kinds <- MCKinds
    Plans <- MCPlans
    Supported <- MCSupported
    DomainJoin = "online"
    VerifyRetries = 0
    CaptureRetries = 0
    MaxFaults = 1
    MaxRequeues = 1
    MaxCrashes = 0
SPECIFICATION CloudSafeSpec
INVARIANTS
    CompleteIsEarned
    VerifiedIsJoined
PROPERTIES
    OutcomeIsFinal
