CONSTANTS
    a1 = a1
    Agents = {a1}
    Handlers = {h1, h2}
    Controller = controller
    None = None
    NumSteps = 2
    Phases = {"full_os"}
    Kinds = {"apply"}
    Plans <- MCPlans
    Supported <- MCSupported
SYMMETRY HandlerSymmetry
SPECIFICATION RCSpec
INVARIANTS
    PlanOrder
    BoundedOverrun
    SoundUnlessOverlapped
