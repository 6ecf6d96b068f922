SPECIFICATION FairSpec
CONSTANTS
    Cards = {anna, stranger}
    Members = {anna}
    Nobody = Nobody
    MaxLate = 0
    MaxOutages = 1
    MaxResets = 0
PROPERTY EveryRequestIsAnswered
CHECK_DEADLOCK FALSE
