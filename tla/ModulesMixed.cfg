\* Two sessions of subscription-service and two requests at the gates.
SPECIFICATION FairSpec
CONSTANTS
    Sessions = {s1, s2}
    NoSession = NoSession
    Gates = {g1, g2}
    TTL = 2
    Delay = 1
    MaxChanges = 2
    MaxFaults = 1
    Mixes <- MCMixes
INVARIANTS StaleOnlyWhenOutrun
PROPERTIES DecidedOnRecentState AnsweredAsCommitted FreshInTheEnd
CHECK_DEADLOCK FALSE
