\* Three requests while resolutions are created, replaced and deactivated.
SPECIFICATION Spec
CONSTANTS
  fresh = fresh
  seeded = seeded
  late = late
  Reqs = {r1, r2, r3}
  NoReq = NoReq
  Resolutions = {fresh, seeded, late}
  NoRes = NoRes
  From <- MCFrom
  To <- MCTo
  Start <- MCStart
  Expired = {late}
CHECK_DEADLOCK FALSE
INVARIANTS InRange
PROPERTIES BookSpec
