SPECIFICATION FairSpec
CONSTANTS
    Cards = {anna, stranger}
    Members = {anna}
    Nobody = Nobody
    MaxLate = 1
    MaxOutages = 1
    MaxResets = 1
INVARIANTS TypeOK OpensForMemberUnreset OneAnswerPerRequest
PROPERTIES ImplementsCardService AnsweredWhileOnline
CHECK_DEADLOCK FALSE
