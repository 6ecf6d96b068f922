SPECIFICATION FairSpec
CONSTANTS
    Distances <- MCDistances
    Words <- MCWords
    Frames <- MCFrames
    DefaultName <- MCTank
    DefaultHeight = 100
    ResetAfter = 1
    MaxUnread = 2
    MaxCuts = 1
INVARIANTS
    NodeTypeOK
    SetUpSurvives
PROPERTIES
    FullReportIsTrue
    TankIsHeardOf
    DisconnectedLowNodeRestarts
