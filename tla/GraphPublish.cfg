CONSTANTS
    Projections = {p1, p2, p3}
    Nothing = Nothing
    MaxTries = 1
    MaxChanges = 3
    MaxFaults = 3
SPECIFICATION FairSpec
INVARIANTS RelayHoldsRecordedOrNext
PROPERTIES PublicationSettles
CHECK_DEADLOCK FALSE
