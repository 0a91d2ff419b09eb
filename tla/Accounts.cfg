SPECIFICATION FairSpec
CONSTANTS
  Uids = {u1, u2, u3}
  Browsers = {b1}
  Invites = {i1}
  Threads = {t1, t2}
  Emails = {e1, e2, kiosk}
  KioskEmail = kiosk
  Admin = u1
  AdminEmail = e1
  None = None
  Gone = Gone
  SessionDays = 1
  KioskDays = 2
  VerifyDays = 1
  InviteDays = 1
  RetentionDays = 2
  MaxTime = 2
  MaxRequests = 3
INVARIANTS TypeOK OneRowPerLine RevokedStaysRevoked TabsShareTheSession PurgeableHasNoSession CreatesCollapse
PROPERTIES UnverifiedAccountsGo
CHECK_DEADLOCK FALSE
