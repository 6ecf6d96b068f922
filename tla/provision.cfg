SPECIFICATION Spec
CONSTANTS
    SsidLen = 2
    PassLen = 2
    Requests <- MCRequests
    Router <- MCRouter
    MaxTries = 3
    MaxJoin = 2
    MaxCuts = 2
    MaxOutages = 1
INVARIANTS
    TypeOK
    SavedIsUsed
PROPERTIES
    SettingConnects
CHECK_DEADLOCK FALSE
