SPECIFICATION FairSpec
CONSTANTS
    Tanks = {1, 2}
    Pump = Pump
    App = App
    NoPeer = NoPeer
    NumSlots = 2
    Levels = {10}
    MaxInbox = 1
    MaxBreaks = 2
INVARIANTS
    TypeOK
    RoutesToItsPeer
PROPERTIES
    KnownWhileConnected
    ClosedPeerIsForgotten
