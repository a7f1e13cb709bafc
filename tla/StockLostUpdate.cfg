\* A receipt while an issue of the same level is under way.
SPECIFICATION Spec
CONSTANTS
  b1 = b1
  b2 = b2
  NoBatch = NoBatch
  NoOwner = NoOwner
  Requests = {r1, r2}
  Batches = {}
  Kinds <- MCInflowVsIssue
  Fifo <- MCFifo
  DispatchOrders <- MCNoDispatch
  Expired = {}
  RequiresQc = FALSE
  InitStock <- MCOneEach
  MaxStock = 2
  MaxJobs = 2
  Alone = {}
CHECK_DEADLOCK FALSE
INVARIANTS KardexMatches
