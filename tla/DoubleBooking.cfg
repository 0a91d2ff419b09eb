SPECIFICATION Spec
CONSTANTS
  Desks = {d1}
  Users = {u1}
  Ids = {r1, r2}
  Threads = {t1, t2}
  None = None
  Slots <- MorningSlots
  Series <- NoSeries
  Types = {"STANDARD"}
  Ops = {"create"}
  MaxTime = 2
  MaxRequests = 3
  MaxCrashes = 0
  DayLength = 10
  OpenTime = 1
  CloseTime = 8
  MaxHoursPerDay = 6
  NfcGrace = 1
  WebEarly = 2
  WalkinGap = 1
  d1 = d1
  u1 = u1
  r1 = r1
  r2 = r2
  t1 = t1
  t2 = t2
INVARIANTS NoDoubleBooking
CHECK_DEADLOCK FALSE
