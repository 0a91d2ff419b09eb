------------------------------ MODULE DeskData ------------------------------
(***************************************************************************)
(* The PostgreSQL tables, the clock and the in-flight work that the desk   *)
(* booking backend is built on, and the queries its handlers run on them.  *)
(*                                                                         *)
(* Every `await` of a handler is a point where other handlers run, so a    *)
(* handler is a sequence of steps, one for each database call, and         *)
(* proc[t] holds what it remembers between two of them.  One step reads or *)
(* writes the tables atomically (one SQL statement or one transaction);    *)
(* READ COMMITTED gives nothing more, and no migration adds an exclusion   *)
(* constraint on overlapping reservations.                                 *)
(***************************************************************************)
EXTENDS Integers, Sequences, FiniteSets

CONSTANTS
  Desks,           \* desks of one location
  Users,           \* users of its organization
  Ids,             \* ids a new reservation row can get (bounds their number)
  Threads,         \* requests the server can have in flight at one time
  None,            \* no desk, no user, no reservation
  Slots,           \* [date, start, end] a client may ask for
  Series,          \* sequences of slots a recurring rule may expand to
  Types,           \* reservation types a client may ask for
  Ops,             \* the operations clients use (a subset of OpNames)
  MaxTime,         \* bound on the clock
  MaxRequests,     \* bound on the requests ever started
  MaxCrashes,      \* bound on the restarts of the backend
  DayLength,       \* time units in a day
  OpenTime,        \* opening time of the location, as a time of day
  CloseTime,       \* closing time of the location, as a time of day
  MaxHoursPerDay,  \* longest reservation of the location
  NfcGrace,        \* an NFC scan is early or late by at most this
  WebEarly,        \* a web check-in is early by at most this
  WalkinGap        \* a walk-in ends this long before the next reservation

VARIABLES
  now,           \* the wall clock
  deskStatus,    \* Desk.status, "DELETED" once the row is gone
  reservations,  \* table Reservation: a row, or NoRow
  checkins,      \* table Checkin by its unique reservationId: a row, or NoRow
  led,           \* the last LED state emitted for each desk
  proc,          \* the request each thread is serving
  jobs,          \* the cron jobs
  requests,      \* how many requests were started
  crashes,       \* how many times the backend was restarted
  version,       \* history: times a reservation's slot was written, 0 = id unused
  seen           \* history: what the conflict check behind a slot had seen

vars == <<now, deskStatus, reservations, checkins, led, proc, jobs, requests,
          crashes, version, seen>>

tables  == <<deskStatus, reservations, checkins>>
history == <<version, seen>>
bounds  == <<now, crashes>>

OpNames == {"create", "recurring", "teams", "cancel", "teamsCancel", "graphDelete",
            "graphSync", "nfc", "qr", "web", "manual", "walkin", "checkout", "restore",
            "desk", "hardDelete"}

DeskStatuses == {"ACTIVE", "INACTIVE", "MAINTENANCE", "DELETED"}
ReservationStatuses == {"CONFIRMED", "CANCELLED", "EXPIRED", "COMPLETED"}
LedStates == {"FREE", "RESERVED", "GUEST_RESERVED", "OCCUPIED", "ERROR"}
JobNames == {"expireOld", "autoCheckout", "autoReservedLed"}

SlotSet == [date : Int, start : Int, end : Int]

ASSUME DeskAssumption ==
  /\ None \notin Desks /\ None \notin Users /\ None \notin Ids
  /\ Slots \subseteq SlotSet
  /\ Series \subseteq Seq(SlotSet) \ {<< >>}
  /\ Types \subseteq {"STANDARD", "GUEST", "TEAM"}
  /\ Ops \subseteq OpNames
  /\ MaxTime \in Nat /\ MaxRequests \in Nat /\ MaxCrashes \in Nat
  /\ DayLength \in Nat \ {0} /\ OpenTime \in Nat /\ CloseTime \in Nat
  /\ MaxHoursPerDay \in Nat
  /\ NfcGrace \in Nat /\ WebEarly \in Nat /\ WalkinGap \in Nat

(***************************************************************************)
(* Rows.  PENDING, the schema's default status, has no writer: every       *)
(* handler inserts CONFIRMED.  A check-in whose reservation row is gone    *)
(* (ON DELETE SET NULL) is one with reservations[r] = NoRow.               *)
(***************************************************************************)
NoRow == [none |-> TRUE]

ReservationRow == [desk : Desks, user : Users, slot : SlotSet, type : Types \cup {"STANDARD"},
                   status : ReservationStatuses]
CheckinRow == [desk : Desks, out : BOOLEAN]

Exists(r) == reservations[r] # NoRow
Active(r) == Exists(r) /\ reservations[r].status = "CONFIRMED"
Open(r)   == checkins[r] # NoRow /\ ~checkins[r].out
Ended(r)  == Exists(r) /\ reservations[r].slot.end < now

DayOf(time)     == time \div DayLength
TimeOfDay(time) == time % DayLength

\* WHERE startTime < end AND endTime > start
Overlap(a, b) == a.start < b.end /\ a.end > b.start

\* Mutated form of Conflicts: looks only for bookings that start inside the slot.
ConflictsStartInside(d, slot, sameDate) ==
  {r \in Ids : /\ Active(r)
               /\ reservations[r].desk = d
               /\ sameDate => reservations[r].slot.date = slot.date
               /\ reservations[r].slot.start < slot.end
               /\ reservations[r].slot.start >= slot.start}

(***************************************************************************)
(* The conflict query.  create and createRecurring also compare the `date` *)
(* column; the Teams bot and the Outlook webhook do not.                   *)
(***************************************************************************)
Conflicts(d, slot, sameDate) ==
  {r \in Ids : /\ Active(r)
               /\ reservations[r].desk = d
               /\ sameDate => reservations[r].slot.date = slot.date
               /\ Overlap(reservations[r].slot, slot)}

\* What a conflict check run now sees: the versions of the active rows.
Snapshot == {<<r, version[r]>> : r \in {x \in Ids : Active(x)}}

DeskOccupied(d) == \E r \in Ids : Open(r) /\ checkins[r].desk = d

(***************************************************************************)
(* What a client of create must satisfy.  Only times of day are compared,  *)
(* and nothing compares start with end.                                    *)
(***************************************************************************)
WithinOpeningHours(slot) ==
  /\ TimeOfDay(slot.start) >= OpenTime
  /\ TimeOfDay(slot.end) <= CloseTime
  /\ TimeOfDay(slot.end) - TimeOfDay(slot.start) <= MaxHoursPerDay

\* Mutated form of LedOfType: the reservation type is sent as it is.
LedOfTypeUnmapped(type) == type

LedOfType(type) == IF type = "STANDARD" THEN "RESERVED" ELSE "GUEST_RESERVED"

\* A reservation shows on its LED on its own day, once the office is open.
VisibleNow(start) == DayOf(now) = DayOf(start) /\ TimeOfDay(now) >= OpenTime

Upcoming(d) == {r \in Ids : /\ Active(r)
                            /\ reservations[r].desk = d
                            /\ reservations[r].slot.end >= now}

(***************************************************************************)
(* The LED of a desk nobody occupies, from its earliest upcoming           *)
(* reservation: one state, or one of several when two of them start        *)
(* together.  Whether somebody is checked in is not asked.                 *)
(***************************************************************************)
DeskLedAfterFree(d) ==
  IF Upcoming(d) = {}
  THEN {"FREE"}
  ELSE {IF VisibleNow(reservations[r].slot.start) THEN LedOfType(reservations[r].type)
                                                  ELSE "FREE" :
          r \in {x \in Upcoming(d) :
                   \A y \in Upcoming(d) :
                     reservations[x].slot.start <= reservations[y].slot.start}}

EndOfWork(time) == DayOf(time) * DayLength + CloseTime

-----------------------------------------------------------------------------
(***************************************************************************)
(* Requests in flight and cron jobs.                                       *)
(***************************************************************************)
ProcStates == {"idle", "conflict", "insert", "visible", "emit", "cancel", "close",
               "syncConflict", "move", "existing", "checkin", "restoreCheckin",
               "restoreReservation", "walkActive", "walkNext", "walkin", "checkout",
               "after", "deleteClose", "delete"}

Idle == [op |-> "desk", pc |-> "idle", desk |-> None, user |-> None, slots |-> << >>,
         type |-> "STANDARD", res |-> None, seen |-> {}, led |-> "FREE", mqtt |-> FALSE]

ProcRecord == [op : OpNames, pc : ProcStates, desk : Desks \cup {None},
               user : Users \cup {None}, slots : Seq(SlotSet),
               type : Types \cup {"STANDARD"}, res : Ids \cup {None},
               seen : SUBSET (Ids \X Nat), led : LedStates, mqtt : BOOLEAN]

\* What a job is about to emit: a state for a desk, or "none" for it.
NoLeds == [d \in Desks |-> "none"]

IdleJob == [pc |-> "idle", ids |-> {}, leds |-> NoLeds, desks |-> {}]

JobRecord == [pc : {"idle", "update", "emit", "after", "active"}, ids : SUBSET Ids,
              leds : [Desks -> LedStates \cup {"none"}], desks : SUBSET Desks]

-----------------------------------------------------------------------------
Init ==
  /\ now = 0
  /\ deskStatus = [d \in Desks |-> "ACTIVE"]
  /\ reservations = [r \in Ids |-> NoRow]
  /\ checkins = [r \in Ids |-> NoRow]
  /\ led = [d \in Desks |-> "FREE"]
  /\ proc = [t \in Threads |-> Idle]
  /\ jobs = [j \in JobNames |-> IdleJob]
  /\ requests = 0
  /\ crashes = 0
  /\ version = [r \in Ids |-> 0]
  /\ seen = [r \in Ids |-> {}]

TypeOK ==
  /\ now \in Nat
  /\ deskStatus \in [Desks -> DeskStatuses]
  /\ reservations \in [Ids -> ReservationRow \cup {NoRow}]
  /\ checkins \in [Ids -> CheckinRow \cup {NoRow}]
  /\ led \in [Desks -> LedStates]
  /\ proc \in [Threads -> ProcRecord]
  /\ jobs \in [JobNames -> JobRecord]
  /\ requests \in Nat
  /\ crashes \in Nat
  /\ version \in [Ids -> Nat]
  /\ seen \in [Ids -> SUBSET (Ids \X Nat)]

\* Emitting several LED events in one go (a for loop with no await).
EmitAll(leds) == led' = [d \in Desks |-> IF leds[d] = "none" THEN led[d] ELSE leds[d]]

=============================================================================
