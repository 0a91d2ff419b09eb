---------------------------- MODULE DeskHandlers ----------------------------
(***************************************************************************)
(* The request handlers that change desk reservations and check-ins: REST, *)
(* the Teams bot, the Outlook webhook, the beacons' MQTT messages.  Each   *)
(* action is the code between two awaits, from the result of one database  *)
(* call to the next call, which it makes.                                  *)
(*                                                                         *)
(* A request that is turned down before it writes or emits anything leaves *)
(* no trace: its guard is a conjunct of the step, and there is no action   *)
(* for the refusal.  Roles and organization guards are left out: the       *)
(* actors are those the guards let through.                                *)
(***************************************************************************)
EXTENDS DeskData

Begin(t, p) ==
  /\ proc[t].pc = "idle"
  /\ p.op \in Ops
  /\ requests < MaxRequests
  /\ requests' = requests + 1
  /\ proc' = [proc EXCEPT ![t] = p]

Become(t, p) == proc' = [proc EXCEPT ![t] = p] /\ UNCHANGED requests

Goto(t, pc) == Become(t, [proc[t] EXCEPT !.pc = pc])

Finish(t) == Become(t, Idle)

\* Next: emit `state` on the LED of desk d.
ThenEmit(t, d, state) ==
  Become(t, [proc[t] EXCEPT !.pc = "emit", !.desk = d, !.led = state])

SetStatus(r, status) == reservations' = [reservations EXCEPT ![r].status = status]

InsertRow(r, d, u, slot, type, known) ==
  /\ version[r] = 0
  /\ deskStatus[d] # "DELETED"
  /\ reservations' = [reservations EXCEPT ![r] =
       [desk |-> d, user |-> u, slot |-> slot, type |-> type, status |-> "CONFIRMED"]]
  /\ version' = [version EXCEPT ![r] = 1]
  /\ seen' = [seen EXCEPT ![r] = known]

-----------------------------------------------------------------------------
(***************************************************************************)
(* Reserving: create, createRecurring and the Teams bot.                   *)
(***************************************************************************)

\* create: the desk was read and its status and opening hours were checked.
StartCreate(t) ==
  /\ \E d \in Desks, u \in Users, slot \in Slots, type \in Types :
       /\ deskStatus[d] = "ACTIVE"
       /\ WithinOpeningHours(slot)
       /\ Begin(t, [Idle EXCEPT !.op = "create", !.pc = "conflict", !.desk = d,
                                !.user = u, !.slots = <<slot>>, !.type = type])
  /\ UNCHANGED <<tables, led, jobs, bounds, history>>

\* createRecurring: the desk's status and the opening hours are not looked at.
StartRecurring(t) ==
  /\ \E d \in Desks, u \in Users, slots \in Series, type \in Types :
       /\ deskStatus[d] # "DELETED"
       /\ Begin(t, [Idle EXCEPT !.op = "recurring", !.pc = "conflict", !.desk = d,
                                !.user = u, !.slots = slots, !.type = type])
  /\ UNCHANGED <<tables, led, jobs, bounds, history>>

\* The bot's createReservation: only end <= start is refused.
StartTeams(t) ==
  /\ \E d \in Desks, u \in Users, slot \in Slots :
       /\ slot.start < slot.end
       /\ Begin(t, [Idle EXCEPT !.op = "teams", !.pc = "conflict", !.desk = d,
                                !.user = u, !.slots = <<slot>>])
  /\ UNCHANGED <<tables, led, jobs, bounds, history>>

\* The next date of a recurring series, or the end of the request.
NextSlot(t) ==
  IF Len(proc[t].slots) > 1
  THEN Become(t, [proc[t] EXCEPT !.pc = "conflict", !.slots = Tail(@), !.seen = {}])
  ELSE Finish(t)

\* The conflict query; a recurring request skips the date it finds taken.
FindConflict(t) ==
  /\ proc[t].pc = "conflict"
  /\ IF Conflicts(proc[t].desk, Head(proc[t].slots), proc[t].op # "teams") # {}
     THEN NextSlot(t)
     ELSE Become(t, [proc[t] EXCEPT !.pc = "insert", !.seen = Snapshot])
  /\ UNCHANGED <<tables, led, jobs, bounds, history>>

\* The INSERT, a statement of its own: it does not look at the slot again.
InsertReservation(t) ==
  /\ proc[t].pc = "insert"
  /\ \E r \in Ids : InsertRow(r, proc[t].desk, proc[t].user, Head(proc[t].slots),
                              proc[t].type, proc[t].seen)
  /\ CASE proc[t].op = "recurring" -> NextSlot(t)
       [] proc[t].op = "teams"     -> Finish(t)
       [] OTHER -> IF VisibleNow(Head(proc[t].slots).start)
                   THEN Become(t, [proc[t] EXCEPT !.pc = "visible", !.seen = {}])
                   ELSE Finish(t)
  /\ UNCHANGED <<deskStatus, checkins, led, jobs, bounds>>

\* The row cannot be inserted: its desk was deleted (foreign key).
InsertFails(t) ==
  /\ proc[t].pc \in {"insert", "walkin"}
  /\ deskStatus[proc[t].desk] = "DELETED"
  /\ Finish(t)
  /\ UNCHANGED <<tables, led, jobs, bounds, history>>

\* create shows the reservation on the LED unless somebody sits at the desk.
ReadOccupant(t) ==
  /\ proc[t].pc = "visible"
  /\ IF DeskOccupied(proc[t].desk)
     THEN Finish(t)
     ELSE ThenEmit(t, proc[t].desk, LedOfType(proc[t].type))
  /\ UNCHANGED <<tables, led, jobs, bounds, history>>

-----------------------------------------------------------------------------
(***************************************************************************)
(* Cancelling: cancel, the Teams bot, an event deleted in Outlook.         *)
(***************************************************************************)
Cancellable(op, r) ==
  CASE op = "cancel"      -> reservations[r].status \notin {"CANCELLED", "COMPLETED"}
    [] op = "teamsCancel" -> reservations[r].status = "CONFIRMED"
    [] OTHER              -> TRUE

StartCancel(t) ==
  /\ \E r \in Ids, op \in {"cancel", "teamsCancel", "graphDelete"} :
       /\ Exists(r)
       /\ Cancellable(op, r)
       /\ Begin(t, [Idle EXCEPT !.op = op, !.pc = "cancel", !.res = r,
                                !.desk = reservations[r].desk])
  /\ UNCHANGED <<tables, led, jobs, bounds, history>>

\* The UPDATE by id; the status read by StartCancel is not compared again.
CancelReservation(t) ==
  /\ proc[t].pc = "cancel"
  /\ IF Exists(proc[t].res)
     THEN /\ SetStatus(proc[t].res, "CANCELLED")
          /\ IF proc[t].op = "cancel" THEN Goto(t, "close") ELSE Finish(t)
     ELSE UNCHANGED reservations /\ Finish(t)
  /\ UNCHANGED <<deskStatus, checkins, led, jobs, bounds, history>>

\* Mutated form of CloseCancelledCheckin: an occupied desk keeps its LED.
CloseCancelledCheckinSilent(t) ==
  /\ proc[t].pc = "close"
  /\ IF Open(proc[t].res)
     THEN checkins' = [checkins EXCEPT ![proc[t].res].out = TRUE] /\ Finish(t)
     ELSE UNCHANGED checkins /\ ThenEmit(t, proc[t].desk, "FREE")
  /\ UNCHANGED <<deskStatus, reservations, led, jobs, bounds, history>>

\* The second UPDATE of cancel; what follows it emits FREE whatever it closed.
CloseCancelledCheckin(t) ==
  /\ proc[t].pc = "close"
  /\ checkins' = IF Open(proc[t].res)
                 THEN [checkins EXCEPT ![proc[t].res].out = TRUE]
                 ELSE checkins
  /\ ThenEmit(t, proc[t].desk, "FREE")
  /\ UNCHANGED <<deskStatus, reservations, led, jobs, bounds, history>>

-----------------------------------------------------------------------------
(***************************************************************************)
(* The Outlook webhook: a new time for a reservation.                      *)
(***************************************************************************)
StartGraphSync(t) ==
  /\ \E r \in Ids, slot \in Slots :
       /\ Active(r)
       /\ slot.start < slot.end
       /\ Begin(t, [Idle EXCEPT !.op = "graphSync", !.pc = "syncConflict", !.res = r,
                                !.desk = reservations[r].desk, !.slots = <<slot>>])
  /\ UNCHANGED <<tables, led, jobs, bounds, history>>

SyncFindConflict(t) ==
  /\ proc[t].pc = "syncConflict"
  /\ IF Conflicts(proc[t].desk, Head(proc[t].slots), FALSE) \ {proc[t].res} # {}
     THEN Finish(t)
     ELSE Become(t, [proc[t] EXCEPT !.pc = "move", !.seen = Snapshot])
  /\ UNCHANGED <<tables, led, jobs, bounds, history>>

\* Mutated form of MoveReservation: the row is saved as it was first read.
MoveReservationSavesRow(t) ==
  /\ proc[t].pc = "move"
  /\ Exists(proc[t].res)
  /\ reservations' = [reservations EXCEPT ![proc[t].res].status = "CONFIRMED"]
  /\ Finish(t)
  /\ UNCHANGED <<deskStatus, checkins, led, jobs, bounds, history>>

\* startTime and endTime are updated; the `date` column keeps the old day.
MoveReservation(t) ==
  /\ proc[t].pc = "move"
  /\ LET r == proc[t].res
         slot == Head(proc[t].slots)
     IN IF Exists(r)
        THEN /\ reservations' = [reservations EXCEPT ![r].slot =
                  [date |-> @.date, start |-> slot.start, end |-> slot.end]]
             /\ version' = [version EXCEPT ![r] = @ + 1]
             /\ seen' = [seen EXCEPT ![r] = proc[t].seen]
        ELSE UNCHANGED <<reservations, history>>
  /\ Finish(t)
  /\ UNCHANGED <<deskStatus, checkins, led, jobs, bounds>>

-----------------------------------------------------------------------------
(***************************************************************************)
(* Checking in.  NFC, QR and web look for a reservation of the user at the *)
(* desk; the staff's manual check-in takes any reservation id, with the    *)
(* desk of the request, and looks at neither.                              *)
(***************************************************************************)
Eligible(op, r) ==
  CASE op = "nfc" -> /\ Active(r)
                     /\ reservations[r].slot.start <= now + NfcGrace
                     /\ reservations[r].slot.end >= now - NfcGrace
    [] op = "qr"  -> Active(r) /\ reservations[r].slot.end >= now
    [] op = "web" -> /\ Active(r)
                     /\ reservations[r].slot.end >= now
                     /\ now >= reservations[r].slot.start - WebEarly

StartCheckin(t) ==
  /\ \E r \in Ids, op \in {"nfc", "qr", "web"}, viaMqtt \in BOOLEAN :
       /\ Eligible(op, r)
       /\ viaMqtt => op = "nfc"
       /\ Begin(t, [Idle EXCEPT !.op = op, !.pc = "existing", !.res = r, !.mqtt = viaMqtt,
                                !.desk = reservations[r].desk])
  /\ UNCHANGED <<tables, led, jobs, bounds, history>>

StartManual(t) ==
  /\ \E r \in Ids, d \in Desks :
       /\ Exists(r)
       /\ deskStatus[d] # "DELETED"
       /\ Begin(t, [Idle EXCEPT !.op = "manual", !.pc = "checkin", !.res = r, !.desk = d])
  /\ UNCHANGED <<tables, led, jobs, bounds, history>>

\* A card nobody has, or whose owner has no reservation now: the beacon blinks.
RejectScan(t) ==
  /\ \E d \in Desks : Begin(t, [Idle EXCEPT !.op = "nfc", !.pc = "emit", !.desk = d,
                                            !.mqtt = TRUE, !.led = "ERROR"])
  /\ UNCHANGED <<tables, led, jobs, bounds, history>>

\* handleCheckin emits OCCUPIED for an authorized scan, ERROR for any failure.
AnswerScan(t, state) ==
  IF proc[t].mqtt THEN ThenEmit(t, proc[t].desk, state) ELSE Finish(t)

\* Already checked in: the existing check-in is the answer.
ReadCheckin(t) ==
  /\ proc[t].pc = "existing"
  /\ IF Open(proc[t].res) THEN AnswerScan(t, "OCCUPIED") ELSE Goto(t, "checkin")
  /\ UNCHANGED <<tables, led, jobs, bounds, history>>

\* Mutated form of CreateCheckin: an upsert instead of the INSERT.
CreateCheckinUpsert(t) ==
  /\ proc[t].pc = "checkin"
  /\ Exists(proc[t].res) /\ deskStatus[proc[t].desk] # "DELETED"
  /\ checkins' = [checkins EXCEPT ![proc[t].res] = [desk |-> proc[t].desk, out |-> FALSE]]
  /\ ThenEmit(t, proc[t].desk, "OCCUPIED")
  /\ UNCHANGED <<deskStatus, reservations, led, jobs, bounds, history>>

\* The transaction.  reservationId is unique: a second check-in, even after a
\* check-out, fails, as it does when the reservation or the desk is gone.
CreateCheckin(t) ==
  /\ proc[t].pc = "checkin"
  /\ LET r == proc[t].res
         d == proc[t].desk
     IN IF checkins[r] = NoRow /\ Exists(r) /\ deskStatus[d] # "DELETED"
        THEN /\ checkins' = [checkins EXCEPT ![r] = [desk |-> d, out |-> FALSE]]
             /\ ThenEmit(t, d, "OCCUPIED")
        ELSE UNCHANGED checkins /\ AnswerScan(t, "ERROR")
  /\ UNCHANGED <<deskStatus, reservations, led, jobs, bounds, history>>

-----------------------------------------------------------------------------
(***************************************************************************)
(* The walk-in: a reservation from now and its check-in in one go.         *)
(***************************************************************************)
StartWalkin(t) ==
  /\ \E d \in Desks, u \in Users :
       /\ deskStatus[d] = "ACTIVE"
       /\ Begin(t, [Idle EXCEPT !.op = "walkin", !.pc = "walkActive", !.desk = d, !.user = u,
                      !.slots = <<[date |-> DayOf(now), start |-> now,
                                   end |-> EndOfWork(now)]>>])
  /\ UNCHANGED <<tables, led, jobs, bounds, history>>

WalkinReadOccupant(t) ==
  /\ proc[t].pc = "walkActive"
  /\ IF DeskOccupied(proc[t].desk) THEN Finish(t) ELSE Goto(t, "walkNext")
  /\ UNCHANGED <<tables, led, jobs, bounds, history>>

\* Reservations of others that start later today; one that covers this very
\* moment, or is the user's own, is not asked for.
NextReservations(d, u, slot) ==
  {r \in Ids : /\ Active(r)
               /\ reservations[r].desk = d
               /\ reservations[r].user # u
               /\ reservations[r].slot.start > slot.start
               /\ reservations[r].slot.start <= slot.end}

WalkinReadNext(t) ==
  /\ proc[t].pc = "walkNext"
  /\ LET slot == Head(proc[t].slots)
         next == NextReservations(proc[t].desk, proc[t].user, slot)
         known == {<<r, version[r]>> : r \in next}
     IN IF next = {}
        THEN Goto(t, "walkin")
        ELSE \E first \in next :
               /\ \A r \in next :
                    reservations[first].slot.start <= reservations[r].slot.start
               /\ Become(t, [proc[t] EXCEPT !.pc = "walkin", !.seen = known,
                    !.slots = <<[slot EXCEPT !.end =
                                   reservations[first].slot.start - WalkinGap]>>])
  /\ UNCHANGED <<tables, led, jobs, bounds, history>>

CreateWalkin(t) ==
  /\ proc[t].pc = "walkin"
  /\ \E r \in Ids :
       /\ InsertRow(r, proc[t].desk, proc[t].user, Head(proc[t].slots), "STANDARD",
                    proc[t].seen)
       /\ checkins' = [checkins EXCEPT ![r] = [desk |-> proc[t].desk, out |-> FALSE]]
  /\ ThenEmit(t, proc[t].desk, "OCCUPIED")
  /\ UNCHANGED <<deskStatus, led, jobs, bounds>>

-----------------------------------------------------------------------------
(***************************************************************************)
(* Checking out.                                                           *)
(***************************************************************************)
StartCheckout(t) ==
  /\ \E r \in Ids :
       /\ Open(r)
       /\ Exists(r)
       /\ Begin(t, [Idle EXCEPT !.op = "checkout", !.pc = "checkout", !.res = r,
                                !.desk = checkins[r].desk])
  /\ UNCHANGED <<tables, led, jobs, bounds, history>>

\* Mutated form of Checkout: the status is written, the check-in is not closed.
CheckoutStatusOnly(t) ==
  /\ proc[t].pc = "checkout"
  /\ Exists(proc[t].res)
  /\ SetStatus(proc[t].res, "COMPLETED")
  /\ Goto(t, "after")
  /\ UNCHANGED <<deskStatus, checkins, led, jobs, bounds, history>>

\* The transaction; it looks neither at checkedOutAt nor at the status again.
Checkout(t) ==
  /\ proc[t].pc = "checkout"
  /\ LET r == proc[t].res
     IN IF Exists(r) /\ checkins[r] # NoRow
        THEN /\ checkins' = [checkins EXCEPT ![r].out = TRUE]
             /\ SetStatus(r, "COMPLETED")
             /\ Goto(t, "after")
        ELSE UNCHANGED <<reservations, checkins>> /\ Finish(t)
  /\ UNCHANGED <<deskStatus, led, jobs, bounds, history>>

CheckoutReadLed(t) ==
  /\ proc[t].pc = "after"
  /\ \E state \in DeskLedAfterFree(proc[t].desk) : ThenEmit(t, proc[t].desk, state)
  /\ UNCHANGED <<tables, led, jobs, bounds, history>>

-----------------------------------------------------------------------------
(***************************************************************************)
(* The LED: the event of a handler, and restoreDeskLed, which a beacon's   *)
(* return and a refused scan (3 s later) start.                            *)
(***************************************************************************)
Emit(t) ==
  /\ proc[t].pc = "emit"
  /\ led' = [led EXCEPT ![proc[t].desk] = proc[t].led]
  /\ IF proc[t].mqtt /\ proc[t].led = "ERROR" THEN Goto(t, "restoreCheckin") ELSE Finish(t)
  /\ UNCHANGED <<tables, jobs, bounds, history>>

StartRestore(t) ==
  /\ \E d \in Desks : Begin(t, [Idle EXCEPT !.op = "restore", !.pc = "restoreCheckin",
                                            !.desk = d])
  /\ UNCHANGED <<tables, led, jobs, bounds, history>>

RestoreReadCheckin(t) ==
  /\ proc[t].pc = "restoreCheckin"
  /\ IF DeskOccupied(proc[t].desk)
     THEN ThenEmit(t, proc[t].desk, "OCCUPIED")
     ELSE Goto(t, "restoreReservation")
  /\ UNCHANGED <<tables, led, jobs, bounds, history>>

\* A guest's reservation is restored as RESERVED.
RestoreReadReservation(t) ==
  /\ proc[t].pc = "restoreReservation"
  /\ \E state \in DeskLedAfterFree(proc[t].desk) :
       ThenEmit(t, proc[t].desk, IF state = "FREE" THEN "FREE" ELSE "RESERVED")
  /\ UNCHANGED <<tables, led, jobs, bounds, history>>

-----------------------------------------------------------------------------
(***************************************************************************)
(* Administering desks.                                                    *)
(***************************************************************************)

\* update with status MAINTENANCE or ACTIVE, which signals the LED.
UpdateDesk(t) ==
  /\ \E d \in Desks, status \in {"MAINTENANCE", "ACTIVE"} :
       /\ deskStatus[d] # "DELETED"
       /\ deskStatus' = [deskStatus EXCEPT ![d] = status]
       /\ Begin(t, [Idle EXCEPT !.op = "desk", !.pc = "emit", !.desk = d,
                      !.led = IF status = "ACTIVE" THEN "FREE" ELSE "ERROR"])
  /\ UNCHANGED <<reservations, checkins, led, jobs, bounds, history>>

\* remove, activate, and update with status INACTIVE: no LED event, and the
\* desk's reservations and check-ins stay as they are.
SetDeskStatus(t) ==
  /\ \E d \in Desks, status \in {"INACTIVE", "ACTIVE"} :
       /\ deskStatus[d] # "DELETED"
       /\ deskStatus' = [deskStatus EXCEPT ![d] = status]
  /\ Begin(t, Idle)
  /\ UNCHANGED <<reservations, checkins, led, jobs, bounds, history>>

\* hardDelete, first statement: cancel what is reserved.
StartHardDelete(t) ==
  /\ \E d \in Desks :
       /\ deskStatus[d] # "DELETED"
       /\ reservations' = [r \in Ids |-> IF Active(r) /\ reservations[r].desk = d
                                         THEN [reservations[r] EXCEPT !.status = "CANCELLED"]
                                         ELSE reservations[r]]
       /\ Begin(t, [Idle EXCEPT !.op = "hardDelete", !.pc = "deleteClose", !.desk = d])
  /\ UNCHANGED <<deskStatus, checkins, led, jobs, bounds, history>>

\* Second statement: close its open check-ins.
DeleteCloseCheckins(t) ==
  /\ proc[t].pc = "deleteClose"
  /\ checkins' = [r \in Ids |-> IF Open(r) /\ checkins[r].desk = proc[t].desk
                                THEN [checkins[r] EXCEPT !.out = TRUE]
                                ELSE checkins[r]]
  /\ Goto(t, "delete")
  /\ UNCHANGED <<deskStatus, reservations, led, jobs, bounds, history>>

\* Mutated form of DeleteDesk: the check-ins are kept, as for a reservation.
DeleteDeskKeepsCheckins(t) ==
  /\ proc[t].pc = "delete"
  /\ deskStatus' = [deskStatus EXCEPT ![proc[t].desk] = "DELETED"]
  /\ reservations' = [r \in Ids |-> IF Exists(r) /\ reservations[r].desk = proc[t].desk
                                    THEN NoRow ELSE reservations[r]]
  /\ Finish(t)
  /\ UNCHANGED <<checkins, led, jobs, bounds, history>>

\* Third statement: the row goes, and with it (ON DELETE CASCADE) the desk's
\* reservations and check-ins.
DeleteDesk(t) ==
  /\ proc[t].pc = "delete"
  /\ LET d == proc[t].desk
     IN /\ deskStatus' = [deskStatus EXCEPT ![d] = "DELETED"]
        /\ reservations' = [r \in Ids |-> IF Exists(r) /\ reservations[r].desk = d
                                          THEN NoRow ELSE reservations[r]]
        /\ checkins' = [r \in Ids |-> IF checkins[r] # NoRow /\ checkins[r].desk = d
                                      THEN NoRow ELSE checkins[r]]
  /\ Finish(t)
  /\ UNCHANGED <<led, jobs, bounds, history>>

-----------------------------------------------------------------------------
Start(t) ==
  \/ StartCreate(t) \/ StartRecurring(t) \/ StartTeams(t) \/ StartCancel(t)
  \/ StartGraphSync(t) \/ StartCheckin(t) \/ StartManual(t) \/ RejectScan(t)
  \/ StartWalkin(t) \/ StartCheckout(t) \/ StartRestore(t) \/ UpdateDesk(t)
  \/ SetDeskStatus(t) \/ StartHardDelete(t)

Continue(t) ==
  \/ FindConflict(t) \/ InsertReservation(t) \/ InsertFails(t) \/ ReadOccupant(t)
  \/ CancelReservation(t) \/ CloseCancelledCheckin(t)
  \/ SyncFindConflict(t) \/ MoveReservation(t)
  \/ ReadCheckin(t) \/ CreateCheckin(t)
  \/ WalkinReadOccupant(t) \/ WalkinReadNext(t) \/ CreateWalkin(t)
  \/ Checkout(t) \/ CheckoutReadLed(t)
  \/ Emit(t) \/ RestoreReadCheckin(t) \/ RestoreReadReservation(t)
  \/ DeleteCloseCheckins(t) \/ DeleteDesk(t)

=============================================================================
