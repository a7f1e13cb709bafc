\* Every operation overlapping every other one, rows listed FEFO or LIFO.
SPECIFICATION FairSpec
CONSTANTS
  b1 = b1
  b2 = b2
  NoBatch = NoBatch
  NoOwner = NoOwner
  Requests = {r1, r2}
  Batches = {b1, b2}
  Kinds <- MCKinds
  Fifo <- MCFifo
  DispatchOrders <- MCDispatchOrders
  Expired = {}
  RequiresQc = TRUE
  InitStock <- MCOneEach
  MaxStock = 2
  MaxJobs = 3
  Alone = {}
CHECK_DEADLOCK FALSE
INVARIANTS KardexPartsOnlyWhenOutrun ReservationsBacked ReserveCovered
PROPERTIES QuarantineHolds Served

