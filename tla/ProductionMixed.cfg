\* A run and a disassembly that feed each other, two requests at a time.
SPECIFICATION Spec
CONSTANTS
    r1 = r1  r2 = r2  raw = raw  spare = spare  good = good
    Sessions = {s1, s2}
    NoSession = NoSession
    Runs = {r1, r2}
    NoRun = NoRun
    Levels = {raw, spare, good}
    NoLevel = NoLevel
    Product <- MCProduct
    Disassembly = {r2}
    Take <- MCTake
    Give <- MCGive
    Need <- MCNeed
    Yield <- MCYield
    InitStock <- MCStock
    Recipes <- MCRecipes
    Multipliers <- MCMultipliers
    MaxEmission = 2
    MaxEmitted = 2
    Mixes <- MCMixes
INVARIANTS LedgerMatches ReservationsFollowRuns YieldsAsPlanned
CHECK_DEADLOCK FALSE
SYMMETRY MCSymmetry
