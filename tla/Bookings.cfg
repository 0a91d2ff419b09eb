SPECIFICATION Spec
CONSTANTS
  Desks = {d1, d2}
  Users = {u1}
  Ids = {r1, r2}
  Threads = {t1, t2}
  None = None
  Slots <- MorningSlots
  Series <- TwoDaySeries
  Types = {"STANDARD"}
  Ops = {"create", "teams", "cancel", "graphSync", "recurring", "walkin", "manual", "restore", "desk", "hardDelete"}
  MaxTime = 1
  MaxRequests = 3
  MaxCrashes = 0
  DayLength = 10
  OpenTime = 1
  CloseTime = 8
  MaxHoursPerDay = 6
  NfcGrace = 1
  WebEarly = 2
  WalkinGap = 1
  d1 = d1
  d2 = d2
  u1 = u1
  r1 = r1
  r2 = r2
  t1 = t1
  t2 = t2
SYMMETRY Symmetry
INVARIANTS TypeOK SeenBookingsNeverClash DeletedDeskHasNoRows
PROPERTIES LifecycleSpec
CHECK_DEADLOCK FALSE
