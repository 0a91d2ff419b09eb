SPECIFICATION OfficeSpec
CONSTANTS
  Threads = {t1, t2}
  Nil = Nil
  MaxTime = 4
  MaxRequests = 5
  Spots = {p1, r1}
  ParkingSpots = {p1}
  Drivers = {u1}
  WeeklyLimit = 1
  MaxActiveBlocks = 1
  LastHour = 2
  DayLength = 2
  OpensAt = 0
  ClosesAt = 2
  ShownLength = 1
  BookIds = {1, 2, 3}
  BlockIds = {1, 2, 3}
  Beacons = {b1, b2}
  Desks = {k1, k2, k3}
  TokenIds = {k1, k2}
  Admins = {a1, a2}
  Holders = {u1, u2}
  Cards = {c1, c2}
  Minute = 2
  Cooldown = 2
  Keys = {k1}
  Recipients = {u1, u2}
  NoticeWindow = 1
  MailWindow = 0
  Keep = 1
  Revisions = 3
INVARIANTS OfficeTypeOK SeenSpotsNeverClash ShownMeansBookable LimitsHoldButForRaces BeaconsFollowTheirDesk TokenMakesOneGateway SessionsLastTheirMinute FailuresAreSpaced AlertsAreSpaced VerifiedWasTested
CHECK_DEADLOCK FALSE
