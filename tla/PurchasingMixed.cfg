\* Two drafts and what they are consolidated into, two requests at a time.
SPECIFICATION Spec
CONSTANTS
    Sessions = {s1, s2}
    NoSession = NoSession
    POs = {1, 2, 3}
    NoPO = NoPO
    MaxDrafts = 2
    Qty <- MCQty
    Mixes <- MCMixes
INVARIANTS ReceivedMatches SuppliedOnce DeadlockNeedsDelete
PROPERTIES SettledStays
CHECK_DEADLOCK FALSE
SYMMETRY MCSessions
