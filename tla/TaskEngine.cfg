CONSTANTS
    a1 = a1
    a2 = a2
    Agents = {a1, a2}
    Controller = controller
    None = None
    NumSteps = 3
    Phases <- MCPhases
    Kinds <- MCKinds
    Plans <- MCPlans
    Supported <- MCSupported
SPECIFICATION Spec
INVARIANTS
    TypeOK
    RetryBudget
    PlanOrder
