CONSTANTS
    Valves = {1}
    Requests = {1}
    MaxLag = 5
    MaxHubResets = 1
    MaxCtlResets = 0
SPECIFICATION Spec
INVARIANT BootStopsPump
