--------------------------- MODULE ParkingBooking ---------------------------
(***************************************************************************)
(* Bookings of rooms and parking spots, the groups that give access to a   *)
(* restricted spot, and the blocks an administrator puts on a spot or a    *)
(* group.  createBooking reads four times before it inserts; bookings of   *)
(* one week are modelled.                                                  *)
(***************************************************************************)
EXTENDS ServiceRequests

CONSTANTS
  Spots, ParkingSpots,   \* resources, and those of type PARKING
  Drivers,               \* users
  WeeklyLimit,           \* maxParkingDaysPerWeek of the location
  MaxActiveBlocks,       \* MAX_ACTIVE_BLOCKS
  LastHour,              \* of the week that is modelled
  DayLength,             \* hours of a day
  OpensAt, ClosesAt,     \* openTime and closeTime of the location
  ShownLength,           \* length of the slots that are shown, 30 minutes
  BookIds, BlockIds

ASSUME ParkingAssumption ==
  /\ ParkingSpots \subseteq Spots /\ Nil \notin Spots \cup Drivers
  /\ {WeeklyLimit, MaxActiveBlocks, LastHour} \subseteq Nat
  /\ DayLength \in Nat \ {0} /\ ShownLength \in Nat \ {0}
  /\ OpensAt \in Nat /\ ClosesAt \in 0..DayLength

VARIABLES
  bookings,     \* Booking rows
  blocks,       \* ParkingBlock rows
  spotOf,       \* Resource rows: status and accessMode
  group         \* the one parking group: whether it exists, users, spots

parking == <<bookings, blocks, spotOf, group>>

Slot == {s \in (0..LastHour) \X (0..LastHour) : s[1] < s[2]}
BookingRow == [spot : Spots, user : Drivers, slot : Slot,
               status : {"CONFIRMED", "CANCELLED"}, in : BOOLEAN,
               saw : SUBSET BookIds]
ASSUME BookingAssumption == Nil \notin BookingRow
BlockRow == [spot : Spots \cup {Nil}, grouped : BOOLEAN, slot : Slot]

ParkingInit ==
  /\ ControlInit
  /\ bookings = [b \in BookIds |-> Nil] /\ blocks = [k \in BlockIds |-> Nil]
  /\ spotOf = [s \in Spots |-> [status |-> "ACTIVE", access |-> "PUBLIC"]]
  /\ group = [exists |-> TRUE, users |-> {}, spots |-> {}]

----------------------------------------------------------------------------
Confirmed == {b \in BookIds : bookings[b] # Nil /\ bookings[b].status = "CONFIRMED"}
Clash(s, r) == s[1] < r[2] /\ r[1] < s[2]
Touch(s, r) == s[1] <= r[2] /\ r[1] <= s[2]

\* checkUserAccess.
HasAccess(s, u) ==
  \/ s \notin ParkingSpots \/ spotOf[s].access = "PUBLIC"
  \/ s \in group.spots /\ u \in group.users

\* checkWeeklyLimit: the bookings of the user at any parking spot.
WeekCount(u) ==
  Cardinality({b \in Confirmed : bookings[b].user = u
                                 /\ bookings[b].spot \in ParkingSpots})

\* isBlocked: a block of the spot bars everybody or the members of its
\* group; a block of the group alone bars its members everywhere.
Blocked(s, u, slot) ==
  \E k \in BlockIds :
    /\ blocks[k] # Nil /\ Touch(blocks[k].slot, slot)
    /\ \/ blocks[k].spot = s /\ ~blocks[k].grouped
       \/ blocks[k].spot \in {s, Nil} /\ blocks[k].grouped /\ u \in group.users

ActiveBlocks(s, grouped) ==
  {k \in BlockIds : /\ blocks[k] # Nil /\ blocks[k].slot[2] >= now
                    /\ IF grouped THEN blocks[k].grouped ELSE blocks[k].spot = s}

\* getAvailability in the hourly mode: the bookings that begin or end on the
\* day are compared by their times of day.
Day(hour) == hour \div DayLength
TimeOfDay(hour) == hour % DayLength
OnDay(b, d) == d \in {Day(bookings[b].slot[1]), Day(bookings[b].slot[2])}
ShownSlots ==
  {m \in OpensAt..(ClosesAt - ShownLength) : (m - OpensAt) % ShownLength = 0}
\* Variant that takes a slot for taken that begins where a booking ends.
TakesTouching(b, m) ==
  /\ TimeOfDay(bookings[b].slot[1]) < m + ShownLength
  /\ TimeOfDay(bookings[b].slot[2]) >= m

Takes(b, m) ==
  /\ TimeOfDay(bookings[b].slot[1]) < m + ShownLength
  /\ TimeOfDay(bookings[b].slot[2]) > m
ShownFree(s, d) ==
  {m \in ShownSlots :
     ~\E b \in Confirmed : bookings[b].spot = s /\ OnDay(b, d) /\ Takes(b, m)}

\* createBooking: the resource is read whatever its status.
Book(t, s, u, slot) ==
  /\ HasAccess(s, u)
  /\ Arrive(t, [pc |-> IF s \in ParkingSpots THEN "week" ELSE "clash",
                spot |-> s, user |-> u, slot |-> slot, saw |-> {}])
  /\ UNCHANGED parking
\* No limit, and a limit of 0, let everybody book.
CheckWeek(t) ==
  /\ At(t, "week")
  /\ IF WeeklyLimit = 0 \/ WeekCount(job[t].user) < WeeklyLimit
     THEN GoTo(t, [job[t] EXCEPT !.pc = "block"]) ELSE Finish(t)
  /\ UNCHANGED parking
CheckBlocks(t) ==
  /\ At(t, "block")
  /\ IF Blocked(job[t].spot, job[t].user, job[t].slot)
     THEN Finish(t) ELSE GoTo(t, [job[t] EXCEPT !.pc = "clash"])
  /\ UNCHANGED parking

\* Variant that looks for a booking the new one starts in.
FindClashAtStart(t) ==
  /\ At(t, "clash")
  /\ IF \E b \in Confirmed : /\ bookings[b].spot = job[t].spot
                             /\ bookings[b].slot[1] <= job[t].slot[1]
                             /\ job[t].slot[1] < bookings[b].slot[2]
     THEN Finish(t)
     ELSE GoTo(t, [job[t] EXCEPT !.pc = "insert", !.saw = Confirmed])
  /\ UNCHANGED parking

FindClash(t) ==
  /\ At(t, "clash")
  /\ IF \E b \in Confirmed : bookings[b].spot = job[t].spot
                             /\ Clash(bookings[b].slot, job[t].slot)
     THEN Finish(t)
     ELSE GoTo(t, [job[t] EXCEPT !.pc = "insert", !.saw = Confirmed])
  /\ UNCHANGED parking
InsertBooking(t) ==
  /\ At(t, "insert")
  /\ LET b == CHOOSE x \in BookIds : bookings[x] = Nil IN
       /\ \E x \in BookIds : bookings[x] = Nil
       /\ bookings' = [bookings EXCEPT ![b] =
            [spot |-> job[t].spot, user |-> job[t].user, slot |-> job[t].slot,
             status |-> "CONFIRMED", in |-> FALSE, saw |-> job[t].saw]]
  /\ Finish(t)
  /\ UNCHANGED <<blocks, spotOf, group>>

\* cancelBooking, for a booking of any age and status.
CancelBooking(b) ==
  /\ bookings[b] # Nil /\ Serve
  /\ bookings' = [bookings EXCEPT ![b].status = "CANCELLED"]
  /\ UNCHANGED <<blocks, spotOf, group>>

\* checkinParkingQr: the earliest confirmed booking of the user, then its
\* check-in time.
ScanSpot(t, b) ==
  /\ b \in Confirmed /\ ~bookings[b].in /\ bookings[b].slot[1] <= now
  /\ \A c \in Confirmed :
       (bookings[c].spot = bookings[b].spot /\ bookings[c].user = bookings[b].user)
         => bookings[b].slot[1] <= bookings[c].slot[1]
  /\ Arrive(t, [pc |-> "scan", book |-> b])
  /\ UNCHANGED parking
ScanUpdate(t) ==
  /\ At(t, "scan")
  /\ bookings' = [bookings EXCEPT ![job[t].book].in = TRUE]
  /\ Finish(t)
  /\ UNCHANGED <<blocks, spotOf, group>>

----------------------------------------------------------------------------
\* ParkingBlocksService.create: the counts and the INSERT are statements of
\* one transaction, which does not lock what it counted.
\* Variant that counts the blocks of the spot and forgets the group's.
BlockReadSpotOnly(t, s, grouped, slot) ==
  /\ s # Nil \/ grouped
  /\ s # Nil => Cardinality(ActiveBlocks(s, FALSE)) < MaxActiveBlocks
  /\ slot[1] >= now
  /\ Arrive(t, [pc |-> "insertBlock", spot |-> s, grouped |-> grouped, slot |-> slot])
  /\ UNCHANGED parking

BlockRead(t, s, grouped, slot) ==
  /\ s # Nil \/ grouped
  /\ s # Nil => Cardinality(ActiveBlocks(s, FALSE)) < MaxActiveBlocks
  /\ grouped => group.exists /\ Cardinality(ActiveBlocks(Nil, TRUE)) < MaxActiveBlocks
  /\ slot[1] >= now
  /\ Arrive(t, [pc |-> "insertBlock", spot |-> s, grouped |-> grouped, slot |-> slot])
  /\ UNCHANGED parking

\* The foreign key refuses a block of a group deleted in between.
BlockInsert(t) ==
  /\ At(t, "insertBlock")
  /\ \/ LET k == CHOOSE x \in BlockIds : blocks[x] = Nil IN
          /\ \E x \in BlockIds : blocks[x] = Nil
          /\ job[t].grouped => group.exists
          /\ blocks' = [blocks EXCEPT ![k] =
               [spot |-> job[t].spot, grouped |-> job[t].grouped, slot |-> job[t].slot]]
     \/ job[t].grouped /\ ~group.exists /\ UNCHANGED blocks
  /\ Finish(t)
  /\ UNCHANGED <<bookings, spotOf, group>>

RemoveBlock(k) ==
  /\ blocks[k] # Nil /\ Serve
  /\ blocks' = [blocks EXCEPT ![k] = Nil]
  /\ UNCHANGED <<bookings, spotOf, group>>

----------------------------------------------------------------------------
\* ParkingGroupsService.
SetUser(u, member) ==
  /\ group.exists /\ Serve
  /\ group' = [group EXCEPT !.users = IF member THEN @ \cup {u} ELSE @ \ {u}]
  /\ UNCHANGED <<bookings, blocks, spotOf>>
\* Variant that lets rooms into the group.
SetSpotsAny(new) ==
  /\ group.exists /\ Serve
  /\ group' = [group EXCEPT !.spots = new]
  /\ UNCHANGED <<bookings, blocks, spotOf>>
\* setResources keeps the resources of type PARKING.
SetSpots(new) ==
  /\ group.exists /\ Serve
  /\ group' = [group EXCEPT !.spots = new \cap ParkingSpots]
  /\ UNCHANGED <<bookings, blocks, spotOf>>
SetAccessMode(s, mode) ==
  /\ s \in ParkingSpots /\ Serve
  /\ spotOf' = [spotOf EXCEPT ![s].access = mode]
  /\ UNCHANGED <<bookings, blocks, group>>

\* remove of a group and of a resource: the bookings yet to end are
\* counted, then the row is deleted or made inactive.
Upcoming(spots) == {b \in Confirmed : bookings[b].spot \in spots /\ bookings[b].slot[2] >= now}
RemoveRead(t, s) ==
  /\ IF s = Nil THEN group.exists /\ Upcoming(group.spots) = {}
                 ELSE Upcoming({s}) = {}
  /\ Arrive(t, [pc |-> "remove", spot |-> s])
  /\ UNCHANGED parking
\* The group's users, spots and blocks cascade.
RemoveWrite(t) ==
  LET s == job[t].spot IN
  /\ At(t, "remove")
  /\ IF s # Nil
     THEN spotOf' = [spotOf EXCEPT ![s].status = "INACTIVE"] /\ UNCHANGED <<blocks, group>>
     ELSE /\ group' = [exists |-> FALSE, users |-> {}, spots |-> {}]
          /\ blocks' = [k \in BlockIds |->
               IF blocks[k] # Nil /\ blocks[k].grouped THEN Nil ELSE blocks[k]]
          /\ UNCHANGED spotOf
  /\ Finish(t)
  /\ UNCHANGED bookings

\* update of a resource may set any status.
Reactivate(s) ==
  /\ spotOf[s].status = "INACTIVE" /\ Serve
  /\ spotOf' = [spotOf EXCEPT ![s].status = "ACTIVE"]
  /\ UNCHANGED <<bookings, blocks, group>>

ParkingStep(t) ==
  \/ CheckWeek(t) \/ CheckBlocks(t) \/ FindClash(t) \/ InsertBooking(t)
  \/ ScanUpdate(t) \/ BlockInsert(t) \/ RemoveWrite(t)
ParkingNext ==
  \/ \E t \in Threads :
       \/ ParkingStep(t)
       \/ \E s \in Spots, u \in Drivers, slot \in Slot : Book(t, s, u, slot)
       \/ \E b \in BookIds : ScanSpot(t, b)
       \/ \E s \in Spots \cup {Nil}, grouped \in BOOLEAN, slot \in Slot :
            BlockRead(t, s, grouped, slot)
       \/ \E s \in Spots \cup {Nil} : RemoveRead(t, s)
  \/ \E b \in BookIds : CancelBooking(b)
  \/ \E k \in BlockIds : RemoveBlock(k)
  \/ \E u \in Drivers, member \in BOOLEAN : SetUser(u, member)
  \/ \E new \in SUBSET Spots : SetSpots(new)
  \/ \E s \in Spots, mode \in {"PUBLIC", "GROUP_RESTRICTED"} : SetAccessMode(s, mode)
  \/ \E s \in Spots : Reactivate(s)
  \/ Pass /\ UNCHANGED parking
ParkingSpec == ParkingInit /\ [][ParkingNext]_<<parking, control>>

----------------------------------------------------------------------------
ParkingTypeOK ==
  /\ bookings \in [BookIds -> BookingRow \cup {Nil}]
  /\ blocks \in [BlockIds -> BlockRow \cup {Nil}]
  /\ spotOf \in [Spots -> [status : {"ACTIVE", "INACTIVE"},
                           access : {"PUBLIC", "GROUP_RESTRICTED"}]]
  /\ group \in [exists : BOOLEAN, users : SUBSET Drivers, spots : SUBSET ParkingSpots]

\* Two bookings of a resource overlap only when neither was there at the
\* conflict check of the other.
SeenSpotsNeverClash ==
  \A b, c \in Confirmed :
    (b # c /\ bookings[b].spot = bookings[c].spot
           /\ Clash(bookings[b].slot, bookings[c].slot)) => c \notin bookings[b].saw

\* What getAvailability shows agrees with what createBooking checks: a slot
\* shown as taken is taken, and one shown as free meets no booking but such as
\* run over midnight.
ShownMeansBookable ==
  \A s \in Spots, d \in 0..LastHour, m \in ShownSlots :
    LET from == d * DayLength + m
        met == {b \in Confirmed : bookings[b].spot = s
                                  /\ Clash(bookings[b].slot, <<from, from + ShownLength>>)} IN
    IF m \in ShownFree(s, d)
    THEN \A b \in met : Day(bookings[b].slot[1]) # Day(bookings[b].slot[2])
    ELSE met # {}

\* The limits of a week and of active blocks are counted in one statement
\* and used in another: n requests in flight overrun them by n - 1 at most.
LimitsHoldButForRaces ==
  LET slack == Cardinality(Threads) - 1 IN
  /\ WeeklyLimit # 0 => \A u \in Drivers : WeekCount(u) <= WeeklyLimit + slack
  /\ \A s \in Spots : Cardinality(ActiveBlocks(s, FALSE)) <= MaxActiveBlocks + slack
  /\ Cardinality(ActiveBlocks(Nil, TRUE)) <= MaxActiveBlocks + slack
=============================================================================
