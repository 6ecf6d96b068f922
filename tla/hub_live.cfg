CONSTANTS
    Valves = {1}
    Requests = {1}
    MaxLag = 1
    MaxHubResets = 0
    MaxCtlResets = 0
    Apps = {a1}
    NoPeer = none
    NumSlots = 2
    Levels = {75, 76, 100}
    DisconnectAfter = 1
    SendAfter = 0
    MaxInbox = 1
    MaxBreaks = 1
SPECIFICATION FairHubSpec
PROPERTIES
    OperatorKeepsLooking
    SilentTankIsNotFilled
    FullTankIsStopped
    LowTankStartsPump
