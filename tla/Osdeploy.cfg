CONSTANTS
    Agents = {agent}
    Controller = controller
    None = None
    NumSteps <- MCNumSteps
    Phases <- MCPhases
    Kinds <- MCKinds
    Plans <- MCPlans
    Supported <- MCSupported
    ServerRole = "isolated_domain_controller"
    DomainJoin = FALSE
    Siblings = {file_server}
    MaxFaults = 2
SPECIFICATION OsdSpec
CHECK_DEADLOCK FALSE
INVARIANTS
    CompleteIsEarned
    BundleIsEarned
PROPERTIES
    LateJobFailureIsHarmless
    RoleDoneIsReported
