\* Two events, or a request, or two assets of which one has no tree to go to;
\* two worker slots and a handler.
SPECIFICATION FairSpec
CONSTANTS
    e1 = e1  e2 = e2  q1 = q1  q2 = q2  a1 = a1  a2 = a2
    Events = {e1, e2}
    Hashes = {q1, q2}
    Assets = {a1, a2}
    Source <- MCSource
    Treeless = {a2}
    Slots = {t1, t2}
    Handlers = {h1}
    NoItem = NoItem
    MaxRetries = 2
    Window = 1
    Threshold = 2
    MaxFailures = 2
    MaxFaults = 1
    MaxAsked = 1
    Mixes <- MCMixes
INVARIANTS EventSentOnce AssetMintedOnce BreakerCounts
PROPERTIES NeverForgotten
CHECK_DEADLOCK FALSE
