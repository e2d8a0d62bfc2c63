CONSTANTS
    Requests = {r1, r2}
    Viewers = {v1, v2}
    MaxItems = 4
    MaxEvents = 1
    None = None
SPECIFICATION BuildSpec
CHECK_DEADLOCK FALSE
INVARIANTS
    BuildFollowsDependencies
    SupersededIsLost
    ReadyIsBuilt
PROPERTIES
    EndIsFinal
    WarmEnds
