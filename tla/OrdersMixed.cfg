\* Every endpoint, two requests at a time, two orders over two units.
SPECIFICATION FairSpec
CONSTANTS
    r1 = r1  r2 = r2
    Requests = {r1, r2}
    NoOwner = NoOwner
    Numbers <- MCNumbers
    Demand <- MCDemand
    Sent <- MCSent
    Kinds <- AllKinds
    InitStock = 2
    MaxStock = 3
    MaxJobs = 4
INVARIANTS LevelMatches ReservationsFollowStatus SoldAsShipped
PROPERTIES OneDeliveryDeducts NothingDropped Answered
CHECK_DEADLOCK FALSE
