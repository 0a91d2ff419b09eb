# A verification project for desk-panel

desk-panel books desks, rooms and parking spots of an office: people reserve in a web
application, in Teams or by a recurring rule, check in with a card on a beacon, a QR code
or the browser, and a LED on the desk shows whether it is free, reserved or occupied.  The
backend is one NestJS process over PostgreSQL (Prisma, READ COMMITTED); beacons talk to
gateways, gateways to the backend (MQTT messages in, an SSE stream of commands out).

This directory holds TLA+ models of the system's core, the TLC runs that check them on
small instances, and theorems proved with TLAPS for every instance.  Every definition is
translated from the code; `PROJECT.json` maps each to its lines.

## 1. Inventory

Paths are below `src/backend/src/` unless they begin with `apps`.

| Component | State | Operations | Correct when | Modelled by |
| --- | --- | --- | --- | --- |
| Reservations (`modules/reservations`) | table Reservation | create, createRecurring, cancel, cron expireOld; cancelRecurring (section 6) | a desk is not booked twice; a settled reservation stays settled; no-shows end | DeskHandlers, DeskJobs |
| Check-ins (`modules/checkins`) | table Checkin (unique reservationId) | NFC, QR, web, manual, walk-in, checkout, cron autoCheckout, parking QR | a check-in is opened and closed once; nobody sits on a completed reservation; overstays end | DeskHandlers, DeskJobs, ParkingBooking |
| Desks (`modules/desks`) | table Desk | update, remove, activate, hardDelete | nothing refers to a deleted desk | DeskHandlers |
| Outlook (`modules/graph-sync`) | OAuth tokens, subscriptions | connect, disconnect, token refresh, subscribe, renewal; webhook: event moved or deleted | a moved booking overlaps nobody; tokens follow the user's wish; a subscription that is kept survives a refused renewal | DeskHandlers, OutlookTokens |
| Teams bot (`modules/teams-bot`) | table Reservation | createReservation, cancelReservation, cards | as for reservations | DeskHandlers |
| LED dispatch (`mqtt`, `shared/led-events.service.ts`) | `_ledSeq`, `_ledTimers`, callbacks under way | an LED event, its debounce timer, two reads, the command | the newest state is what the gateway is sent last | LedDispatch |
| Gateway commands (`gateway-commands.service.ts`) | streams, pending nonces | register, close, publish, ACK, timeout, shutdown | an answer is that of its own command; every publish settles; writes go to the live stream | GatewayCommands |
| Gateway secrets (`gateways.service.ts`) | secretRaw, secretHashPending | rotateSecret (prepare, save, commit), cleanExpiredRotations | a rotation never locks a gateway out | SecretRotation |
| Setup tokens (`gateway-setup.service.ts`) | table GatewaySetupToken | create, redeem, revoke | a token makes one gateway | SetupTokens |
| Beacons (`modules/devices`) | table Device; the desk in the beacon's memory | provision, assign, remove | a beacon serves the desk its row names | BeaconDesks |
| Health and firmware (`devices`, `gateways`, `inapp-notifications`) | lastSeen, isOnline, otaStatus | heartbeat, triggerOta, triggerOtaAll, cron timeoutStaleOta, cron scanInfrastructure | an update settles, and as heard; silence is noticed | BeaconHealth |
| NFC enrolment (`shared/nfc-scan.service.ts`) | waiting sessions and their timers, User.cardUid | start, scan, expiry, assignCard | a session lasts its minute | NfcEnrolment |
| Resources, parking (`resources`, `parking-blocks`, `parking-groups`) | Booking, ParkingBlock, group, resource | createBooking, cancelBooking, getAvailability, check-in by QR, blocks, groups, removal | no overlap that a check could see; limits hold but for races; what is shown is what can be booked | ParkingBooking |
| Sessions (`modules/auth`, `kiosk`) | RefreshToken, cookies | login, refresh, logout, changePassword, the kiosk's account | a session does not fork and does not outlive its revocation | AuthSessions |
| Accounts (`auth`, `users`, `kiosk`, `owner`) | User, InvitationToken | invite, register, create, single sign-on, update, softDelete, restore, hardDelete, clean-up | racing creations make one account; unverified ones go | AccountLifecycle |
| Web client's session (`apps/unified/src/api/client.ts`) | `_refreshPromise`, the cooldown's timestamp | req, tryRefresh | refreshes are shared, failing ones are spaced | ApiClient |
| Alerts (`inapp-notifications`, `notifications`, `subscriptions`) | InAppNotification, NotificationLog | create, announce, read, delete, cleanup, mails of the scan | an alert is not repeated within its window | Notices |
| Mail servers (`notifications/mailer.service.ts`) | OrganizationSmtpConfig, cached transporters | save, delete, test, send | a verified configuration was tested; mail uses the saved one | OrgMail |
| Others | | visitors, push, integrations, insights, recommendations, reports, metrics, organizations, locations, the pages of the web applications, infrastructure | | not modelled, see section 6 |

How they interact.  Request handlers and cron jobs run in one process and interleave at
every `await`; they share the tables and nothing else.  Those that change what a desk
shows call `LedEventsService.emit`, a synchronous subject whose one subscriber is the LED
dispatcher; it reads the gateway of the desk and publishes SET_LED on the gateway's SSE
stream.  Beacon messages come in by MQTT or as HTTP heartbeats and end in
`CheckinsService.checkinNfc`, `restoreDeskLed` or the Device row.  A scan of an unknown
card goes to the NFC enrolment.  The Outlook webhook and the Teams bot write reservations
directly, past ReservationsService and its LED events.  The infrastructure scan both
writes units offline and raises alerts.  The web client answers a 401 by asking the
session service for a refresh.

What is hard here:

* a check and the write it is meant to guard are two statements, nowhere in one
  serializable transaction (create, walk-in, Outlook, hardDelete, createBooking, blocks,
  setup tokens, alerts);
* a row is read, something slow is awaited (bcrypt, Microsoft, a gateway, a mail server),
  and the row is written by id: refresh tokens, OAuth tokens, OTA confirmations, SMTP tests;
* cron jobs read ids and later write by id, beside requests and beside each other:
  expireOld and autoCheckout run in the same second;
* LED events are late, superseded and lost; streams are replaced, their close events come
  late, ACKs come late, twice or never; commands to beacons are dropped in silence;
* timers outlive what they were set for (debounce, ACK, enrolment, cooldown);
* a rotation of a gateway's secret has three parties that can each fail halfway.

`PROJECT.json` lists the hazards at their lines, each with the properties that watch it.

## 2. Modules

    DeskData          tables, queries, Init          LedDispatch        the LED subscriber
      DeskHandlers    one action per await           GatewayCommands    streams, commands, ACKs
      DeskJobs        the cron jobs                    SecretRotation   rotateSecret on top of it
        DeskBooking   composition, properties            MCSecretRotation
          MCDeskBooking                                  GatewayProofs  both modules' proofs
          DeskBookingProofs                          AccountData        users, tokens, invitations
          DeskConflictProofs                           AuthSessions     sessions
          DeskLifecycleProofs                          AccountLifecycle accounts
    DeskLifecycle     the abstract specification         Accounts       composition, properties
                      DeskBooking implements             AccountProofs, AccountStoreProofs
    ServiceRequests   threads, requests, time
      ParkingBooking, BeaconDesks, SetupTokens, NfcEnrolment, ApiClient, Notices, OrgMail
        MCOffice      (their run), OfficeProofs
      BeaconHealth, OutlookTokens
        MCFleet       (their run, with LedDispatch), FleetProofs

**DeskData** declares the constants and variables, the rows, and the queries
(`Conflicts`, `DeskLedAfterFree`, ...).  A table is a function from ids to rows or
`NoRow`; a check-in is indexed by its unique reservationId.  `proc[t]` is what a request
in flight remembers between two database calls; `jobs[j]` is the same for a cron job.
Two history variables serve `SeenBookingsNeverClash`: `version[r]` counts how often a
reservation's times were written, `seen[r]` is what the conflict check behind its present
times had in front of it.

**DeskHandlers** has one action per code segment between two awaits: `StartCreate`
(the desk is read, its guards hold), `FindConflict`, `InsertReservation`, `ReadOccupant`,
`Emit`, and so on.  A request that is refused before it writes or emits anything leaves
no trace, so its guard is a conjunct and no action stands for the refusal.  **DeskJobs**
does the same for expireOld, autoCheckout and autoReservedLed.  **DeskBooking** adds the
passing of time, crashes, fairness, and the properties; its `SerialSpec` lets the next
request or job start when the last has ended.

**DeskLifecycle** is what a client may rely on: a reservation is booked once; once
settled it never becomes a booking again; its check-in opens once and closes once;
it turns COMPLETED only with its check-in closed.  `DeskBooking!LifecycleSpec`
instantiates it with a refinement mapping over the rows.

**LedDispatch** takes the events of DeskBooking (any event at any time) and models the
numbers, the debounce and the two reads of a callback.  **GatewayCommands** models the
command channel that sends what LedDispatch decides; **SecretRotation** extends it with
the protocol of rotateSecret and conjoins the gateway's side of prepare and commit.

**AccountData** holds the tables and the cookie jars, **AuthSessions** and
**AccountLifecycle** the handlers over them, **Accounts** their composition.  `job[t]` is a
request at its next database call.  A refresh token is a JWT dated to the second, so that
two logins of one user within a second are the same string: `Sign` gives the same number
back or a new one.  History: `lines` numbers the logins and each row carries the line it
continues, `revoked` are lines whose row a revocation deleted, `cut` are browsers whose
session ended otherwise than by a refresh.  `users[u].origin` is the invitation, or the
kiosk's button, that made a row, and `edits` what an administrator changed in it since
(`UpdateUser`).  Of the roles the model knows KIOSK and the others: any row can have it,
given by an administrator, by an invitation or by an update.

**ServiceRequests** is the part that the remaining modules share: threads that serve
requests, `job[t]` with a pc that names the next statement, a clock.

* **ParkingBooking**: createBooking reads access, weekly count, blocks and conflicts in
  four statements (`Book`, `CheckWeek`, `CheckBlocks`, `FindClash`) before
  `InsertBooking`; `saw` remembers what the conflict check had in front of it.
  `ShownFree` is the answer of getAvailability, an operator over the rows, which compares
  times of day where createBooking compares times.
* **BeaconDesks**: `deskOf` is the database's idea, `nvs` the beacon's; `wire` carries
  SET_DESK_ID on the topic of the old desk, which every beacon on that topic obeys.
* **BeaconHealth**: heartbeats read and confirm in two statements, beside the OTA orders
  (`OtaRead`, `OtaWrite`, `OtaSend`), their timeout and the infrastructure scan.  `heard`
  remembers which versions a beacon reported since it was ordered to update.
* **OutlookTokens**: tokens, refreshes that wait for Microsoft, and subscriptions, of which
  createSubscription adds one at every call.  `GetToken` is getAccessToken, called wherever
  a token is needed; it may end in null on any day, and `RenewDrop` then deletes the row.
  `subs[s].left` is the time left of a subscription, so that time can go on for ever;
  `fails` counts the runs of the daily job that Microsoft refused or that were missed while
  it was due.
* **SetupTokens**, **NfcEnrolment** (waiters and their timers apart, since the defect to
  look for is a timer without its session), **ApiClient** (one tab; `flights` are requests
  to the backend, `refreshing` the shared promise), **Notices** (in-app notices and mails
  of one scan; `crossed` are keys two alerts of which overlapped), **OrgMail** (`rev` tells
  configurations apart; the cache is filled by a reader and emptied by a writer).

What the models abstract:

* Time is a counter; an office day, a grace, a gap, a minute or a window is a few units.
  In Accounts a unit is a day, and no request lasts over the end of one.
  Time zones, RRULE texts and formats are not modelled: a recurring request carries the
  sequence of slots its rule expands to.  The unit of OutlookTokens is half a day: 70, 48
  and 24 hours are 5, 4 and 2 of them, the 70 rounded down.
* Roles and organization guards: the actors are those the guards let through.  Addresses
  are compared exactly, as the unique index does.
* PENDING has no writer in the backend; it is left out of the statuses.
* The two findMany of autoCheckout are one step: they select disjoint rows (with and
  without a reservation), and nothing turns one into the other but a deletion.
* handleCheckin emits OCCUPIED again in the turn in which checkinNfc emitted it: one event.
* A check-in row that goes with its desk and is made again for the same reservation has
  the same index.  This is why `CompletedImpliesCheckedOut` speaks of histories without a
  deleted desk.
* SET_RESERVATION and CLEAR_RESERVATION, push, integrations, outgoing Outlook events and
  the audit log are fire-and-forget and change none of the state above.
* The gateway, the beacon, the network, Microsoft, the browser's cookie rules and the
  supervisor that restarts the process are external: a stream may break at any time, an
  ACK may be lost, late or repeated, a response may never arrive.

## 3. Runs

| Run | Specification | Checks |
| --- | --- | --- |
| Bookings | Spec | TypeOK, SeenBookingsNeverClash, DeletedDeskHasNoRows, LifecycleSpec |
| Overstays | FairSpec | CompletedImpliesCheckedOut, NoShowsExpire, OverstaysAreClosed |
| SerialLeds | SerialSpec | RedMeansOccupied |
| Gateways | FairSpec | LinkInv, AnsweredMeansExecuted, ConnectedToNewest, PublishSettles |
| Rotations | RotationSpec | SavedOnlyIfPrepared, OneRotationKeepsAccess |
| Accounts | FairSpec | TypeOK, OneRowPerLine, RevokedStaysRevoked, TabsShareTheSession, PurgeableHasNoSession, CreatesCollapse, UnverifiedAccountsGo |
| Fleet | FleetSpec | FleetInv, NewestStateSent, EventsSettle (LEDs); SuccessWasHeard, UpdatesEnd, SilenceIsNoticed (health); LapseNeedsTwoFailures, TokensAreWanted, OrphansGo (Outlook) |
| Office | OfficeSpec | OfficeTypeOK, SeenSpotsNeverClash, ShownMeansBookable, LimitsHoldButForRaces, BeaconsFollowTheirDesk, TokenMakesOneGateway, SessionsLastTheirMinute, FailuresAreSpaced, AlertsAreSpaced, VerifiedWasTested |
| DoubleBooking | Spec | NoDoubleBooking is violated |
| GreenOccupied | SerialSpec | OccupiedMeansRed is violated |
| OrphanStream | Spec | ActiveStreamIsMapped is violated |
| LogoutRevokes | Spec | LogoutRevokes is violated |

*Bookings.*  Two overlapping slots, a two-day series, two desks, two reservations, two
requests in flight, three in all.  A race between two requests needs two in flight; three
in all lets a third prepare the ground (book what is then moved, cancelled or deleted).
What is checked is not that no desk is booked twice - the code does not ensure it - but
that the conflict checks are worth what they can be worth: a booking never clashes, on its
day, with one the check behind it could see in its present times, however late the write.

*Overstays.*  One reservation, so that every pair of actors fights over it: check-in,
second check-in, staff check-in, check-out, cancellation, both crons, and a crash between
any two statements.  (Walk-ins are in the Bookings run.)  The liveness of the two crons is checked from anything two concurrent
requests and a crash can leave, with a unit of time to spare after the end: a job that
catches only what ended since its last run would fail.

*SerialLeds and GreenOccupied.*  `SerialSpec` lets the next request or job start when the
last has ended, because with interleaving an LED event may always be late; two desks, so
that a manual check-in can be filed at the wrong one.  Red is never stale; green can be.
The operations of the run leave out the card scans: with both these and the staff's
check-ins RedMeansOccupied is false (see "Disagreements").

*Gateways.*  Three streams of one gateway (replaced, replacing, and a third after a
restart), two commands, so that an ACK can meet the wrong one.

*Rotations.*  Two rotations, two streams, a restart.  Streams and rotations are symmetric;
no run that uses symmetry checks liveness.

*Accounts.*  Three rows (the administrator and two to be made), three addresses of which
one is the kiosk's, one browser with two tabs (two requests in flight share its cookie),
three requests and three days (0 to 2), beside the clean-up job.  One login and two
refreshes, or a login, a refresh and a password change, are the shortest histories in which
a session can fork or come back; two creations that race take two, and the update that makes
room for the second account one more.  A session and an invitation last a day, an unverified
account may stay one, retention and the session of a kiosk take two (7 days, 7 days, 24
hours, at least 30 days and 30 days in the code), so that every one of them runs out.

*Fleet* and *Office.*  The models they compose share no state in the code, and would only
multiply each other's states.  `part` is chosen in the initial state, and that part alone
moves: each behaviour is one of a component's own specification, and the run checks the
properties of all of them.  Fairness is stated per part in the same way.

* LEDs: three events of one desk (an old one, the newest, one between) and a restart.
  Desks do not interact.
* Health: one beacon, one release, three failures, recoveries or orders, and three units
  of time with limits of one: a second order after a timeout, a late confirmation and a
  silence are all reached.
* Outlook: two Microsoft accounts, two subscriptions, two requests in flight, three in all,
  and the clock for ever: renewals, refused and missed, and tokens that cannot be had, day
  after day.  Connecting twice, or connecting and disconnecting beside a refresh, takes
  three requests.
* Parking: one spot and one room, one user, a limit of one a week and of one active block,
  three requests, two in flight, hours 0 to 2: two disjoint slots and one that covers them.
  A day has two hours, so that a booking can end at midnight.
* Beacons: two beacons, three desks, four requests: assign away, assign the other in,
  remove, provision again.
* Setup: two tokens, five requests, restarts: a token can be replaced, expired and redeemed.
* Enrolment: two administrators, users and cards, a minute of two units and time for a
  second one to begin in the first.
* Client: two calls in flight of five, a cooldown of two units, time for three failures.
* Notices: two recipients, one key, three requests, a window of one, a restart at any time.
* Mail: three revisions, five requests.

*LogoutRevokes.*  The property is what `auth.controller.ts:75` says of logout; the run finds
the refresh token alive after it.

Deadlock is not checked: the bounds on requests, time, events, streams and restarts stop
every model.  The bounds are MaxTime, MaxRequests, MaxCrashes, Ids (DeskBooking),
MaxEvents, MaxRestarts (LedDispatch), Streams, Nonces, MaxRestarts (GatewayCommands),
Rotations, MaxTime, MaxRequests, Uids, Invites (Accounts), MaxTime, MaxRequests, Releases,
SubIds (MCFleet), RequestBound and TimeBound of each part, BookIds,
BlockIds, TokenIds, Revisions (MCOffice).

### Fairness

* DeskBooking: weak fairness of ExpireOld and of AutoCheckout.  The scheduler of NestJS
  starts them every 15 minutes, and a job that was started goes on when its statement
  returns.  Nothing is assumed of users, requests, the clock or the LED job.
* LedDispatch: weak fairness of each desk's timer and of the callbacks under way: timers
  fire and database calls return or fail (`Drop`).  Events are not assumed to stop;
  `EventsSettle` says what holds if those of a desk do.
* GatewayCommands: weak fairness of the ACK timeouts, which are timers of the process.
  Gateways may never answer.
* Accounts, BeaconHealth, OutlookTokens: weak fairness of the next statement of each
  request (`Step`, `HealthStep`, `OutlookStep`) and of the clock; strong fairness of the
  jobs (`CleanupRead`, `WatchRead`, `TimeoutRead`, `RenewRead`): cron starts them again and
  again, whatever requests come between, and they find work whenever it is there then.
  For the renewal this says that the backend is not down at the job's hour for ever.
  Nothing is assumed of users, beacons, gateways or Microsoft.

### Disagreements between the code and what is said of it

Four have a run (see "findings" in `PROJECT.json`): DoubleBooking (create's check and
insert are two statements), GreenOccupied (cancel emits FREE whoever sits there),
OrphanStream (a late close event takes the new stream out of the map) and LogoutRevokes
(the refresh cookie's path keeps it from the logout endpoint).  Others were met while
modelling; no run states them.  Reached by the models:

* `graph.service.ts:447` moves a reservation and leaves its `date`; create compares dates
  and books over a booking that was moved to another day, with one request at a time.
* `reservations.service.ts:171-203` never compares start with end, and only times of day
  with the opening hours: `reservations.service.spec.ts:107` expects a refusal.
  `maxDaysAhead` (`documentation.md:342`) is read and never checked.
* `reservations.service.ts:463` updates by id what it read: a reservation cancelled in
  between becomes EXPIRED (`reservations.service.spec.ts:336`, "aktualizuje tylko
  CONFIRMED"); `LifecycleSpec` shows that it is at least never revived.
* expireOld ignores check-ins: an attended reservation ends EXPIRED or COMPLETED as the
  two crons of the same second happen to read (`TO_FIX.MD:110`).
* `checkins.service.ts:180`: two walk-ins can both find a desk free and both sit down
  (`checkins.service.spec.ts:206`).  A walk-in also ignores a reservation that covers this
  very moment, and ends before it starts when the next one is less than 5 minutes away.
* A second rotation while the commit of the first is lost overwrites the prepared secret,
  and can lock the gateway out; hence the premise of `OneRotationKeepsAccess`.
* Nothing clears emailVerificationToken, so an account that
  an administrator activated and later deactivated looks like one nobody verified; the
  nightly clean-up deletes it before its retention has passed (`users.service.ts:112-120`).
* `parking-blocks.service.ts:84` says that counting and inserting a block is atomic;
  READ COMMITTED does not make it so, and createBooking's weekly limit has no transaction.
  `LimitsHoldButForRaces` says what is left of both.
* A guest whom the staff checked in at another desk than the reserved one and who then scans
  a card at the reserved desk is told that this is a check-in that exists
  (`checkins.service.ts:82`), and handleCheckin turns the reserved desk red with nobody at it.
* createBooking reads the resource and not its status: a removed spot can be booked.
* getAvailability compares times of day (`resources.service.ts:353`): a booking that runs to
  midnight or past it hides nothing that evening, and createBooking then refuses the slot
  shown as free.  It also knows nothing of blocks.
* A password change or the kiosk's deactivation deletes the tokens that are stored: a refresh
  that has deleted its row and not yet inserted the next (`auth.service.ts:86`) survives it,
  although `auth.service.ts:374` promises "wylogowanie ze wszystkich urządzeń".
* A setup token is "jednorazowy" (`gateway-setup.service.ts:71`) unless two requests redeem
  it at once or one breaks off before it is marked; "jeden aktywny token per lokalizacja"
  (line 49) fails when two are created at once.
* testOrgSmtp marks the configuration verified that is there when it ends: not the tested
  one, when saveOrgSmtp came between.
* A beacon that had no desk, and one whose gateway is offline, is never told of an
  assignment, and one that was removed goes on obeying its old topic.
* `graph.service.ts:318-323` deletes a subscription whenever getAccessToken returns null,
  with the comment "User odwołał dostęp" (the user revoked access).  An access token lives
  about an hour, so the job nearly always has to refresh one, and _refreshAccessToken
  (455-503) returns null on a refusal, a timeout of ten seconds, an exception or missing
  Azure configuration too: one bad answer of Microsoft loses the subscription.  Nothing
  creates it again until the user subscribes again, and a lapsed one is retried every day
  and never replaced.  `LapseNeedsTwoFailures` therefore speaks of rows that are kept.
* createAccount of the kiosk refuses a second account, "Konto kiosk dla tej organizacji już
  istnieje" (`kiosk.service.ts:37`), but nothing else does: create and update take any role
  (`users.service.ts:47-53`, `87-105`), registration that of the invitation
  (`auth.service.ts:307`).  The kiosk's page then works on whichever of these rows findFirst
  returns, and can switch a deactivated account on again.
* `users.service.ts:99` stores a new password and deletes no refresh token, unlike
  changePassword.
* After a failed refresh the client goes to the login page for 15 seconds, though the
  network failed and the session is good.
* The restart in the middle of an alert leaves the other recipients without it for the
  length of the window.

Seen in the code and outside the models:

* `gateway-auth.service.ts:24-48` compares with secretRaw alone, so the old secret is
  refused during the overlap (`mqtt_roadmap.md:297`, comment at `gateways.service.ts:388`).
* recurrenceGroupId is made with Date.now() of each row (`reservations.service.ts:403`):
  the rows of a series need not share it.
* `subscriptions.service.ts:453`, `469` and `522` give one dedupeKey to the notices of all
  administrators: only the first is told.  checkFirmwareUpdate
  (`inapp-notifications.service.ts:302`) names neither user nor organization.
* triggerOtaAll catches errors of sendBeaconCommand, which has none: it drops commands to
  an offline gateway in silence, and the update ends in the timeout.
* sendReservationReminders runs at :00 and :30 and looks 30 to 35 minutes ahead: a
  reservation that begins at a quarter past is never announced.
* The enrolment's waiters are not divided by organization: a card scanned in one office can
  end a session in another.  The comment at `users.controller.ts:129` says that the card is
  stored when the session has ended; it is stored after.
* Comments and docs say expireOld runs every minute and autoCheckout every 5; both run
  every 15 (`reservations.service.ts:12`, `checkins.service.ts:13`, `documentation.md:354`).

## 4. Proofs

Proved by TLAPS for all values of the constants, under the ASSUMEs of the modules
(`DeskAssumption`, `LedAssumption`, `AccountAssumption`, `ServiceAssumption` and the others:
bounds are naturals, ids are not the null value, figures are ordered as in the code), which
TLC evaluates on the runs.  Every invariant and every action property that a run checks is
the conclusion of a theorem; `PROJECT.json` lists them.  Each argument is an inductive
invariant; the larger ones were checked by TLC on small instances before they were proved.

`GatewayAssumption` asks for a gateway to exist, `RotationAssumption` for each rotation to
send two commands and for its secret to differ from the original one, `ThreadsAssumption`
for a finite number of requests in flight, one at least, and `RowAssumption` for the null
value not to be a row or a time.

### Desks

* `DeskBookingProofs!TypeOKAlways`: `Spec => []TypeOK`.  TypeOK alone is not inductive: a
  step uses the desk, the reservation or the slots its request remembered.  `TypeInv` adds
  to it, for each program counter, which of them are set; `TypeCorrect` proves it with one
  step per action.
* `DeskConflictProofs!ConflictChecksSound`: `Spec => []SeenBookingsNeverClash`.  Versions
  only grow, and a version names one value of a reservation's times; a request that is
  about to write holds a snapshot in which nothing clashes with its slot *now* unless its
  version changed; a status that is not CONFIRMED never becomes CONFIRMED again.  The
  invariant says these for the requests in flight, and the step of `FindConflict`
  establishes them for the next INSERT or UPDATE.
* `DeskLifecycleProofs!ImplementsLifecycle`: `Spec => LifecycleSpec`, the refinement.  Every
  step either deletes a desk, which is Purge, or is a `ServeStep`, which says of each row
  what Serve says of the lifecycle; both are shown once, and each action is shown to be one
  of them.  `RowsInv` is what a late write rests on: autoCheckout's update completes a
  reservation it selected earlier, so its check-in must still be there to be closed.
* `CompletedAreOut` and `DeletedDesksStayEmpty`: the invariants CompletedImpliesCheckedOut
  and DeletedDeskHasNoRows, both parts of RowsInv.
* `RedHasItsGuest`: `SerialSpec => []RedMeansOccupied`, unless both "manual" and "nfc" are
  in Ops.  `RedInv`: a desk is red for a reason, or what runs is about to turn its LED
  (`Turns`, `JobTurns`); and what runs knows that the reservation and the check-in it read
  are at the desk it will signal (`Knows`, `JobKnows`), since nothing comes in between.
  `ReasonsMove` takes from ServeStep that a reason goes away only with a check-in that is
  closed; each step that closes one is then shown to turn the LED of its desk.  The proof
  found the premise: with staff check-ins a check-in may be at another desk than its
  reservation (`Filed` fails), and then the answer to a card scan turns the wrong desk red.
  TLC confirms that the property is false there, so the premise is not for the prover's
  sake.  Either operation alone, with all the others, is covered.

### Gateways

* `GatewayProofs!ChannelSound`: `Spec => []Inv`, the conjunction of LinkInv,
  AnsweredMeansExecuted and ConnectedToNewest.  The last two are not inductive alone: an ACK
  in the network must already stand for an executed command, and a stream must have one
  owner, which LinkInv says.  `BookkeepingHolds`, `AnswersAreHonest` and
  `WritesGoToTheNewest` state the three.
* `RotationUsesChannel`: every step of a rotation is a step of the channel or leaves it
  unchanged, so `RotationSpec` inherits the channel's theorems.
* `RotationTypeAlwaysOK` and `SavedSecretsArePrepared`: `RotationSpec =>
  []SavedOnlyIfPrepared`: a prepare that was reported as answered was executed
  (AnsweredMeansExecuted), and only then is the new secret saved.
* `OneRotationIsSafe`: `RotationSpec => []OneRotationKeepsAccess`.  `AloneInv`: while one
  rotation at most has executed its prepare, its secret is at the gateway from then on, as
  the prepared or as the active one, and a commit on its way means that the database asks
  for it already, as does a gateway that signs with it.  `WireInv` says of each command
  that it was sent by its rotation to its gateway, and that no commit goes out, and no
  secret is kept anywhere, before its prepare was executed.

### Sessions and accounts

* `AccountProofs!SessionsHaveCustody`: `Spec => []Custody`.  A line of tokens is in one
  hand: that of its one row, or of the one refresh that deleted that row and has not
  inserted the next; a revoked line is in none.  The delete decides between two refreshes
  that read the same row, because the second finds nothing to delete and stops: this is
  where the hand passes.  `SessionsNeverFork` (OneRowPerLine) and `RevocationIsFinal`
  (RevokedStaysRevoked) follow, for any number of users, browsers and requests.  Neither
  is inductive alone: a revocation while a refresh holds the line finds no row, so it does
  not count as a revocation of that line (see "What the properties do not say").
* `AccountStoreProofs!AccountsTyped`: `Spec => []TypeOK`.  `Shape` adds what a request
  carries for its next statement.  That the lines of tokens stay below the bound is a
  count: each request opens one line at most, and `LinesBounded` counts those that still
  may beside those that have.
* `TabsKeepTheirSession` (TabsShareTheSession).  `TabsInv`: a browser that was not cut off
  and whose cookie names no stored token has a refresh of its own under way that will bring
  it one.
* `RacingCreatesCollapse` (CreatesCollapse).  `UsersStep` describes what any step does to
  the rows of users - one of them is inserted, edited or removed - and every action is shown
  to be such a step.  `CollapseInv` then says that a request about to create the kiosk's
  account, or to register with an invitation, will meet the address of any account of the
  same origin that nobody edited: that account was made the same day, as no request lasts
  over the end of a day in the model, and an erasure under way is of an account made
  earlier.  An account of an earlier day has the kiosk's role (`RoleKept`) or has used up
  the invitation, which the request then read.
* `NoSessionOutlivesRetention` (PurgeableHasNoSession).  `PurgeInv`: sessions of a
  deactivated account end before it may be erased (`SessionDays < RetentionDays`), and a
  refresh that was under way at the deactivation inserts its row the same day.  All of it
  for accounts that never had the KIOSK role (`Steady`): what signs them in has not read
  that role (`Signers`), so their tokens live SessionDays, and the kiosk's switch does not
  reach them (`Toggles`).

### LEDs, beacons and Outlook

* `FleetProofs!NumbersAlwaysInOrder`: `Spec => []LedInv`, which is inductive: a timer waits
  for the newest event only, no callback is ahead of the numbers, the one with the newest
  number carries the newest state.  `NewestStateAlwaysSent` follows.
* `StoredRowsAffordOneFailure`: `OutlookSpec => []LapseNeedsTwoFailures`, for every lifetime,
  threshold and period with 2 * Period <= Threshold <= Ttl, and any number of subscriptions.
  The invariant (`RenewalHolds`): while no run has failed for a subscription, what is left of
  it reaches the next run of the job and the one after; after one failure it still reaches
  the next.  Beside it: the runs of the job do not overlap, and the rows one still has to
  see are held back from new subscriptions.  It says nothing of a row that a run deleted
  because it had no token.  `OnlyWantedTokens`: every refresh under way carries the account
  that is connected, or was overtaken by a connection.
* `UpdatesWereHeard` (SuccessWasHeard).  `ConfirmedHeard`: a heartbeat about to confirm found
  the version it names reported since the order, unless another order came between.
* `FleetTyped`: `FleetSpec => []FleetInv`, for the three parts together; each part's
  own invariant holds while that part runs, and the others stand still (`FleetKept`).

### Seven services

All in `OfficeProofs`.

* `OneGatewayPerToken`: a token is unredeemed, in the hand of one redemption, or used.
  `RefreshesAreSpaced`: at most one refresh is in flight, as many as the promise is set for,
  and one that started after a failure started a cooldown after it.  `VerifiedMeansTested`:
  unless requests crossed, each works with the saved configuration (`InStep`), and the cache
  holds no other.
* `BookingChecksSound`: `ParkingSpec => []SeenSpotsNeverClash`.  Rows keep their spot and
  times and are only ever cancelled, so what did not clash at the check never will;
  `SpotsInv` says it of each row and of each request about to insert.
* `ShownSlotsHonest`: `ParkingSpec => []ShownMeansBookable`, for all opening hours and
  lengths of days and slots.  `TimesMeet` and `MeetingTimes` do the arithmetic: comparing
  times of day on the day a booking begins or ends agrees with comparing times, in one
  direction always and in the other unless midnight lies between.
* `LimitsBend`: `ParkingSpec => []LimitsHoldButForRaces`.  Counting what is stored is not
  inductive; `HasRoom` counts with it the requests that passed the count and have not
  inserted: together they exceed the limit by the number of the other requests at most.  A
  request that passes counts itself, one that inserts moves from one side to the other.
* `BeaconsAreTold`: `BeaconDesksSpec => []BeaconsFollowTheirDesk`.  The commands on the wire
  are applied one by one to what the beacons remember: `Path` is that sequence of memories,
  and its last one is what the database says, but for the beacon whose assignment is under
  way (`Told`).  So a command that reaches two beacons on one topic is caught where it is sent.
* `SessionsHaveTheirTimer`: `EnrolmentSpec => []SessionsLastTheirMinute`.  The timers are
  exactly those of the waiting sessions, of which an administrator has one (`EnrolmentInv`).
* `AlertsKeepApart`: `NoticesSpec => []AlertsAreSpaced`.  For a key whose alerts never
  crossed one request at most carries it, and those it is still to tell were told longer
  than a window ago (`OneAlert`); notices that are deleted only leave gaps.
* `OfficeTyped`: `OfficeSpec => []OfficeTypeOK`, for the seven together (`OfficeKept`).

### Only model-checked

The eight liveness properties: NoShowsExpire, OverstaysAreClosed, EventsSettle,
PublishSettles, UnverifiedAccountsGo, UpdatesEnd, SilenceIsNoticed, OrphansGo.  They rest on
fairness, whose ENABLED is out of the prover's reach.  The four properties that the code
violates have their counterexamples from TLC.

## 5. What the properties do not say

The code leaves races open, and a property that forbade them would be false.  Each such
property names its exception, and the exception is a history variable or a premise:

* SeenBookingsNeverClash and SeenSpotsNeverClash: bookings that the check could not see.
* ShownMeansBookable: bookings that do not end on the day they begin.
* LimitsHoldButForRaces: one more for each further request in flight; a weekly limit of 0 is
  none.
* LifecycleSpec: one settled status may replace another.  Its run has no check-outs and no
  cron jobs; the theorem has all of them.
* CreatesCollapse: accounts whose address or role an administrator changed (`edits`).  It does
  not say that an organization has one account with the KIOSK role: an administrator may
  make any number of them, one after the other.
* PurgeableHasNoSession: accounts that have the KIOSK role, or whose role was changed.  Their
  sessions live 30 days, which is the least retention, and the kiosk's page can switch on an
  account that was deactivated.
* UnverifiedAccountsGo: accounts that were used, which the foreign keys keep, and those with
  the KIOSK role, which the job leaves alone, even when an invitation gave it.
* LapseNeedsTwoFailures: subscriptions whose row a run deleted because it had no token.
* OneRotationKeepsAccess: rotations of one gateway that overlap.
* RevokedStaysRevoked: a line whose row a refresh had already deleted when the revocation
  came is not revoked by it: the refresh inserts a row afterwards.
* TabsShareTheSession: browsers in `cut`: something other than a refresh ended the session, a
  response was lost, or two tokens of one second were one string.
* SuccessWasHeard: beacons in `overtaken`; TokensAreWanted: `relinked`.
* TokenMakesOneGateway: tokens in `cut`; AlertsAreSpaced: keys in `crossed`;
  VerifiedWasTested: `crossing`; BeaconsFollowTheirDesk: `astray`.

In each case the mutant in `PROJECT.json` shows that what is left still tells the code from
a plausible mistake in it.

## 6. Not modelled

* *Pages of the web applications, reports, insights, recommendations, metrics, owner
  statistics.*  They are most of the repository's lines.  They read and lay out; what they
  change they change by requests, which the models have as actions.
* *Visitors, organizations, locations, desks' layout, settings, roles.*  Each step is one
  statement with its own guard: a property of it would restate the guard.
* *Push, webhooks and other integrations, the audit log, outgoing Outlook events.*  Best
  effort, and nothing reads what became of them.
* *cancelRecurring.*  A loop over cancel, which is modelled; it stops at the first
  reservation that was closed in between, and no document says what should happen then.
* *Password policy and expiry, nonces and one-time codes of single sign-on, impersonation,
  registration of organizations.*  One-step checks around the sessions and accounts that
  are modelled.
* *Removal of empty organizations, OTA of gateways, regenerateSecret, NotificationRule*
  (which nothing consults), *the ALL_DAY mode of getAvailability* (its one slot counts
  bookings from 14 hours before the day to 14 hours after it, so some of the days beside it
  too).

What could still be added is a model of the MQTT broker and of the gateway's own firmware;
neither is in this repository.
