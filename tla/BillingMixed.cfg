\* Two payments of one invoice, a sweeper and an administrator.
SPECIFICATION FairSpec
CONSTANTS
    x1 = x1  x2 = x2  i1 = i1
    Sessions = {s1, s2}
    Sweepers = {w1}
    NoSession = NoSession
    Txs = {x1, x2}
    NoTx = NoTx
    Invoices = {i1}
    NoInvoice = NoInvoice
    Ref <- MCRef
    Period = 1
    Grace = 1
    MaxTime = 3
    MaxDeliveries = 2
    MaxAsked = 1
    MaxFaults = 1
    Mixes <- MCMixes
INVARIANTS CreditedOnce NoPaymentLost
PROPERTIES NotLapsedEarly LapsesInTheEnd
CHECK_DEADLOCK FALSE
