\* Two places, two movements either way, one count, two requests at a time.
SPECIFICATION Spec
CONSTANTS
    p1 = p1  p2 = p2  t1 = t1  t2 = t2  o1 = o1  o2 = o2  c1 = c1
    Sessions = {s1, s2}
    NoSession = NoSession
    Places = {p1, p2}
    Transfers = {t1, t2}
    Lines = {o1, o2}
    Counts = {c1}
    NoDoc = NoDoc
    From <- MCFrom
    To <- MCTo
    Qty <- MCQty
    Counted <- MCCounted
    InitStock <- MCStock
    MaxStock = 3
    MaxShrink = 1
    Mixes <- MCMixes
INVARIANTS LedgerBalances CountAppliedOnce
PROPERTIES CountsCorrect
CHECK_DEADLOCK FALSE
SYMMETRY MCSessions
