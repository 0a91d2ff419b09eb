SPECIFICATION FairSpec
CONSTANTS
  Desks = {d1}
  Users = {u1}
  Ids = {r1}
  Threads = {t1, t2}
  None = None
  Slots <- OneSlot
  Series <- NoSeries
  Types = {"STANDARD"}
  Ops = {"create", "web", "nfc", "manual", "checkout", "cancel"}
  MaxTime = 4
  MaxRequests = 3
  MaxCrashes = 1
  DayLength = 10
  OpenTime = 1
  CloseTime = 8
  MaxHoursPerDay = 6
  NfcGrace = 1
  WebEarly = 2
  WalkinGap = 1
  d1 = d1
  u1 = u1
  r1 = r1
  t1 = t1
  t2 = t2
INVARIANTS CompletedImpliesCheckedOut
PROPERTIES NoShowsExpire OverstaysAreClosed
CHECK_DEADLOCK FALSE
