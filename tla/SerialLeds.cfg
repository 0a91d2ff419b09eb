SPECIFICATION SerialSpec
CONSTANTS
  Desks = {d1, d2}
  Users = {u1}
  Ids = {r1, r2}
  Threads = {t1}
  None = None
  Slots <- OneSlot
  Series <- NoSeries
  Types = {"STANDARD"}
  Ops = {"create", "qr", "manual", "walkin", "checkout", "cancel", "restore", "desk", "hardDelete"}
  MaxTime = 3
  MaxRequests = 4
  MaxCrashes = 0
  DayLength = 10
  OpenTime = 1
  CloseTime = 8
  MaxHoursPerDay = 6
  NfcGrace = 1
  WebEarly = 2
  WalkinGap = 1
  d1 = d1
  d2 = d2
  u1 = u1
  r1 = r1
  r2 = r2
  t1 = t1
SYMMETRY Symmetry
INVARIANTS RedMeansOccupied
CHECK_DEADLOCK FALSE
