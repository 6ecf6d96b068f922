SPECIFICATION Spec
CONSTANTS
    Cards = {anna, stranger}
    Members = {anna}
    Nobody = Nobody
    MaxLate = 0
    MaxOutages = 0
    MaxResets = 1
INVARIANT OpensForMember
CHECK_DEADLOCK FALSE
