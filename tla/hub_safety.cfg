CONSTANTS
    Valves = {1, 2}
    Requests = {1, 2}
    MaxLag = 1
    MaxHubResets = 1
    MaxCtlResets = 0
    Apps = {phone}
    NoPeer = NoPeer
    NumSlots = 2
    Levels = {75, 100}
    DisconnectAfter = 1
    SendAfter = 0
    MaxInbox = 1
    MaxBreaks = 1
SPECIFICATION HubSpec
INVARIANTS
    HubTypeOK
    AppSlotIsAnApps
    RunsForAHungryTank
PROPERTY ImplementsWaterService
