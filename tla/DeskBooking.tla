---------------------------- MODULE DeskBooking ----------------------------
(***************************************************************************)
(* Desk reservations and check-ins: every request handler and cron job     *)
(* that writes them, interleaved at their database calls, with the passing *)
(* of time and restarts of the backend, and what must be true of them.     *)
(***************************************************************************)
EXTENDS DeskHandlers, DeskJobs

Tick ==
  /\ now < MaxTime
  /\ now' = now + 1
  /\ UNCHANGED <<tables, led, proc, jobs, requests, crashes, history>>

\* The process dies: what was in flight is gone, what was committed stays.
Crash ==
  /\ crashes < MaxCrashes
  /\ crashes' = crashes + 1
  /\ proc' = [t \in Threads |-> Idle]
  /\ jobs' = [j \in JobNames |-> IdleJob]
  /\ UNCHANGED <<tables, led, now, requests, history>>

Handle(t) == Start(t) \/ Continue(t)

Next ==
  \/ \E t \in Threads : Handle(t)
  \/ ExpireOld \/ AutoCheckout \/ AutoReserved
  \/ Tick \/ Crash

Spec == Init /\ [][Next]_vars

(***************************************************************************)
(* The scheduler runs its jobs again and again, and a job that was started *)
(* goes on.  Nothing is assumed of users, of requests or of the clock.     *)
(***************************************************************************)
Fairness == WF_vars(ExpireOld) /\ WF_vars(AutoCheckout)

FairSpec == Spec /\ Fairness

-----------------------------------------------------------------------------
\* Two bookings of one desk for one day that claim the same time.
Clash(x, y) ==
  /\ x # y
  /\ Active(x) /\ Active(y)
  /\ reservations[x].desk = reservations[y].desk
  /\ Overlap(reservations[x].slot, reservations[y].slot)

SameDate(x, y) == reservations[x].slot.date = reservations[y].slot.date

(***************************************************************************)
(* The conflict checks (create, createRecurring, the Teams bot, the        *)
(* Outlook webhook, the walk-in's look at the next reservation) are sound: *)
(* a booking never clashes on its day with one, in its present times, that *)
(* was there when its own conflict check ran, however late the INSERT or   *)
(* the UPDATE came and whatever ran in between.  Clashes come only from    *)
(* what the check could not see.                                           *)
(***************************************************************************)
SeenBookingsNeverClash ==
  \A x, y \in Ids : Clash(x, y) /\ SameDate(x, y) => <<x, version[x]>> \notin seen[y]

(***************************************************************************)
(* A completed reservation has nobody sitting on it: checkout and          *)
(* autoCheckout close the check-in in the transaction that completes the   *)
(* reservation, and the unique reservationId keeps a check-in that is      *)
(* still in flight from opening another one.                               *)
(***************************************************************************)
CompletedImpliesCheckedOut ==
  \A r \in Ids : /\ Exists(r)
                 /\ reservations[r].status = "COMPLETED"
                 /\ \A d \in Desks : deskStatus[d] # "DELETED"
                 => ~Open(r)

(***************************************************************************)
(* Nothing is left of a deleted desk: a request that read the desk before  *)
(* hardDelete and inserts its reservation or its check-in after it fails   *)
(* on the foreign key, and what slipped in between the three statements of *)
(* hardDelete goes with the row.                                           *)
(***************************************************************************)
DeletedDeskHasNoRows ==
  \A d \in Desks, r \in Ids : deskStatus[d] = "DELETED" =>
    /\ Exists(r) => reservations[r].desk # d
    /\ checkins[r] # NoRow => checkins[r].desk # d

(***************************************************************************)
(* The lifecycle promised by DeskLifecycle, seen in the rows.              *)
(***************************************************************************)
StatusOf(r) == IF Exists(r) THEN reservations[r].status
               ELSE IF version[r] = 0 THEN "NONE" ELSE "GONE"

PresenceOf(r) == IF checkins[r] = NoRow THEN "out" ELSE IF Open(r) THEN "in" ELSE "left"

Lifecycle == INSTANCE DeskLifecycle WITH
  status   <- [r \in Ids |-> StatusOf(r)],
  presence <- [r \in Ids |-> PresenceOf(r)],
  purged   <- \E d \in Desks : deskStatus[d] = "DELETED"

\* Every behaviour of the backend is one of the abstract lifecycle: no late
\* INSERT, UPDATE or cron write revives a reservation or reopens a check-in.
LifecycleSpec == Lifecycle!Spec

(***************************************************************************)
(* A reservation nobody came for does not stay CONFIRMED for good after    *)
(* its end: expireOld (every 15 minutes) or autoCheckout settles it, after *)
(* a crash in the middle of a run too.                                     *)
(***************************************************************************)
NoShowsExpire == \A r \in Ids : []<>~(Active(r) /\ Ended(r))

(***************************************************************************)
(* A check-in nobody closed does not stay open for good after the end of   *)
(* its reservation, even one opened by a request that was in flight when   *)
(* the reservation was cancelled or expired: autoCheckout closes it.       *)
(***************************************************************************)
OverstaysAreClosed == \A r \in Ids : []<>~(Open(r) /\ Ended(r))

-----------------------------------------------------------------------------
(***************************************************************************)
(* What docs and tests say of the program and the code does not do.        *)
(***************************************************************************)

\* create refuses a slot that overlaps a CONFIRMED reservation of the desk.
NoDoubleBooking == \A x, y \in Ids : ~Clash(x, y)

-----------------------------------------------------------------------------
(***************************************************************************)
(* What the LED shows once nothing is in flight, if requests and jobs came *)
(* one at a time.                                                          *)
(***************************************************************************)
Quiescent ==
  /\ \A t \in Threads : proc[t].pc = "idle"
  /\ \A j \in JobNames : jobs[j].pc = "idle"

OneAtATime ==
  /\ \A t, x \in Threads : t = x \/ proc[t].pc = "idle" \/ proc[x].pc = "idle"
  /\ \A j, k \in JobNames : j = k \/ jobs[j].pc = "idle" \/ jobs[k].pc = "idle"
  /\ \A t \in Threads, j \in JobNames : proc[t].pc = "idle" \/ jobs[j].pc = "idle"

\* The next request or job starts when the last has ended, and no restart cuts
\* one short.
SerialNext == Next /\ OneAtATime' /\ (Quiescent \/ UNCHANGED crashes)

SerialSpec == Init /\ [][SerialNext]_vars

\* A check-in a manual check-in filed at another desk than its reservation's.
Misfiled(d) ==
  \E r \in Ids : /\ checkins[r] # NoRow
                 /\ checkins[r].desk = d
                 /\ Exists(r) => reservations[r].desk # d

(***************************************************************************)
(* No desk stays red after its guest left: each of checkout, cancel and    *)
(* the cron jobs that closes the last check-in of a desk also turns its    *)
(* LED.  (cancel signals the reservation's desk only, hence Misfiled.  Not *)
(* so with "manual" and "nfc" both in Ops: the scan of a guest the staff   *)
(* checked in at another desk turns the reservation's own desk red.)       *)
(***************************************************************************)
RedMeansOccupied ==
  Quiescent => \A d \in Desks : led[d] = "OCCUPIED" =>
                 DeskOccupied(d) \/ Misfiled(d) \/ deskStatus[d] = "DELETED"

\* A desk somebody is checked in at shows red.
OccupiedMeansRed ==
  Quiescent => \A d \in Desks : DeskOccupied(d) => led[d] = "OCCUPIED"

=============================================================================
