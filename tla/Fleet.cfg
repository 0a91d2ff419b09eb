SPECIFICATION FleetSpec
CONSTANTS
  Desks = {d1}
  LedStates = {FREE, RESERVED, OCCUPIED}
  None = None
  MaxEvents = 3
  MaxRestarts = 1
  Threads = {t1, t2}
  Nil = Nil
  MaxTime = 3
  MaxRequests = 3
  Units = {b1}
  Updatable = {b1}
  Silence = 1
  OtaLimit = 1
  Releases = 1
  Accounts = {a1, a2}
  SubIds = {s1, s2}
  Ttl = 5
  Threshold = 4
  Period = 2
INVARIANTS FleetInv NewestStateSent SuccessWasHeard LapseNeedsTwoFailures TokensAreWanted
PROPERTIES EventsSettle UpdatesEnd SilenceIsNoticed OrphansGo
CHECK_DEADLOCK FALSE
