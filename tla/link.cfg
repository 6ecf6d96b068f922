CONSTANTS
    Valves = {1, 2}
    Requests = {1, 2, 3}
    MaxLag = 16
    MaxHubResets = 1
    MaxCtlResets = 2
SPECIFICATION FairSpec
INVARIANTS
    TypeOK
    OneOpenValve
    PumpIsAsBelieved
PROPERTIES
    ImplementsService
    CommandsReturn
