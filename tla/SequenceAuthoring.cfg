CONSTANTS
    Clients = {c1, c2}
    Bodies <- MCBodies
    Extra <- MCExtra
    Conditions <- MCConditions
    RunBodies <- MCRunBodies
    Names = {"app"}
    MaxRequests = 3
    MaxContent = 1
    None = None
SPECIFICATION AuthoringSpec
CHECK_DEADLOCK FALSE
INVARIANTS
    VersionIsOneSave
    
PROPERTIES
    RequestsEnd
