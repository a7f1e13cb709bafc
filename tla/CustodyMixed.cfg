\* Three requests over a branching workflow: seals, notes and anchoring interleave.
SPECIFICATION Spec
CONSTANTS
    r1 = r1  r2 = r2  r3 = r3  w1 = w1  w2 = w2
    Reqs = {r1, r2, r3}
    Genesis = Genesis
    NoReq = NoReq
    Wallets = {w1, w2}
    NoWallet = NoWallet
    Owner = w1
    States <- MCStates
    Initial = "open"
    Terminal <- MCTerminal
    Slugs <- MCSlugs
    Informational <- MCInformational
    Flagged <- MCFlagged
    Targets <- MCTargets
INVARIANTS LockedLinked TerminalSealed
SYMMETRY MCSymmetry
CHECK_DEADLOCK FALSE
