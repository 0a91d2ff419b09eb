------------------------ MODULE DeskLifecycleProofs ------------------------
(***************************************************************************)
(* DeskBooking implements DeskLifecycle, for every value of the constants, *)
(* and with it CompletedImpliesCheckedOut and DeletedDeskHasNoRows; and    *)
(* with requests and jobs one at a time no desk stays red after its guest. *)
(*                                                                         *)
(* A step of the backend is described by what it does to the rows: either  *)
(* it deletes a desk, or it is a ServeStep, which moves the status and the *)
(* check-in of each reservation as the lifecycle allows.  RowsInv is what  *)
(* the cron job's late write rests on: the check-ins it read are there.    *)
(***************************************************************************)
EXTENDS DeskConflictProofs

Purged == \E d \in Desks : deskStatus[d] = "DELETED"

Completed(r) == Exists(r) /\ reservations[r].status = "COMPLETED"
Left(r)      == checkins[r] # NoRow /\ checkins[r].out

\* No check-in stands at an id that no reservation had.
CheckinsUsed == \A r \in Ids : version[r] = 0 => checkins[r] = NoRow

CompletedLeft == ~Purged => \A r \in Ids : Completed(r) => Left(r)

\* The check-ins autoCheckout read are still there when it closes them.
CheckoutHolds ==
  ~Purged /\ jobs["autoCheckout"].pc = "update" =>
    \A r \in Ids : r \in jobs["autoCheckout"].ids => checkins[r] # NoRow

RowsInv ==
  /\ UsedIds
  /\ CheckinsUsed
  /\ CompletedLeft
  /\ CheckoutHolds
  /\ DeletedDeskHasNoRows

-----------------------------------------------------------------------------
(***************************************************************************)
(* What a step that deletes no desk may do to a reservation.               *)
(***************************************************************************)
StatusMove(r) ==
  \/ /\ Exists(r)' <=> Exists(r)
     /\ version'[r] = 0 <=> version[r] = 0
     /\ Exists(r) => /\ reservations'[r].desk = reservations[r].desk
                     /\ \/ reservations'[r].status = reservations[r].status
                        \/ reservations'[r].status \in {"CANCELLED", "EXPIRED", "COMPLETED"}
  \/ /\ version[r] = 0 /\ version'[r] # 0
     /\ Exists(r)'
     /\ reservations'[r].status = "CONFIRMED"
     /\ deskStatus[reservations'[r].desk] # "DELETED"

PresenceMove(r) ==
  \/ checkins'[r] = checkins[r]
  \/ /\ checkins[r] = NoRow /\ checkins'[r] # NoRow /\ ~checkins'[r].out
     /\ Exists(r)'
     /\ deskStatus[checkins'[r].desk] # "DELETED"
  \/ checkins[r] # NoRow /\ Left(r)' /\ checkins'[r].desk = checkins[r].desk

CompletionMove(r) == Completed(r)' => Completed(r) \/ Left(r)' \/ Purged

DesksKept == \A d \in Desks : deskStatus'[d] = "DELETED" <=> deskStatus[d] = "DELETED"

JobsKept ==
  \/ jobs'["autoCheckout"] = jobs["autoCheckout"]
  \/ jobs'["autoCheckout"].pc # "update"
  \/ \A r \in Ids : r \in jobs'["autoCheckout"].ids => checkins'[r] # NoRow

RowsMove == \A r \in Ids : StatusMove(r) /\ PresenceMove(r) /\ CompletionMove(r)

ServeStep == DesksKept /\ JobsKept /\ RowsMove

LEMMA RowTyped ==
  ASSUME TypeInv, NEW r \in Ids
  PROVE  /\ Exists(r) => reservations[r] \in ReservationRow
         /\ checkins[r] # NoRow => checkins[r] \in CheckinRow
  BY DEF TypeInv, TypeOK, Exists

LEMMA ServeInv ==
  ASSUME TypeInv, RowsInv, ServeStep
  PROVE  RowsInv'
<1>1. Purged' <=> Purged
  BY DEF ServeStep, DesksKept, Purged
<1>2. UsedIds'
  BY DEF RowsInv, UsedIds, ServeStep, RowsMove, StatusMove
<1>3. CheckinsUsed'
  BY <1>2 DEF RowsInv, UsedIds, CheckinsUsed, ServeStep, RowsMove, StatusMove, PresenceMove
<1>4. CompletedLeft'
  <2> SUFFICES ASSUME ~Purged, NEW r \in Ids, Completed(r)' PROVE Left(r)'
    BY <1>1 DEF CompletedLeft
  <2>1. StatusMove(r) /\ PresenceMove(r) /\ CompletionMove(r)
    BY DEF ServeStep, RowsMove
  <2>2. CASE Completed(r)
    BY <2>1, <2>2 DEF RowsInv, CompletedLeft, PresenceMove, Left
  <2>3. QED BY <2>1, <2>2 DEF CompletionMove
<1>5. CheckoutHolds'
  BY <1>1 DEF RowsInv, CheckoutHolds, ServeStep, JobsKept, RowsMove, PresenceMove, Left
<1>6. DeletedDeskHasNoRows'
  <2> SUFFICES ASSUME NEW d \in Desks, NEW r \in Ids, deskStatus'[d] = "DELETED"
               PROVE  /\ Exists(r)' => reservations'[r].desk # d
                      /\ checkins'[r] # NoRow => checkins'[r].desk # d
    BY DEF DeletedDeskHasNoRows
  <2>1. deskStatus[d] = "DELETED"
    BY DEF ServeStep, DesksKept
  <2>2. /\ Exists(r) => reservations[r].desk # d
        /\ checkins[r] # NoRow => checkins[r].desk # d
    BY <2>1 DEF RowsInv, DeletedDeskHasNoRows
  <2>3. StatusMove(r) /\ PresenceMove(r)
    BY DEF ServeStep, RowsMove
  <2>4. Exists(r)' => reservations'[r].desk # d
    BY <2>1, <2>2, <2>3 DEF StatusMove
  <2>5. checkins'[r] # NoRow => checkins'[r].desk # d
    BY <2>1, <2>2, <2>3 DEF PresenceMove
  <2>6. QED BY <2>4, <2>5
<1>7. QED BY <1>2, <1>3, <1>4, <1>5, <1>6 DEF RowsInv

-----------------------------------------------------------------------------
(***************************************************************************)
(* The refinement mapping.                                                 *)
(***************************************************************************)
LEMMA ServeRefines ==
  ASSUME TypeInv, TypeInv', RowsInv, ServeStep
  PROVE  Lifecycle!Serve
<1>1. Purged' <=> Purged
  BY DEF ServeStep, DesksKept, Purged
<1>2. ASSUME NEW r \in Ids
      PROVE  \/ StatusOf(r)' = StatusOf(r)
             \/ StatusOf(r) = "NONE" /\ StatusOf(r)' = "CONFIRMED"
             \/ StatusOf(r) \notin {"NONE", "GONE"}
                /\ StatusOf(r)' \in {"CANCELLED", "EXPIRED", "COMPLETED"}
  <2>1. StatusMove(r) /\ (Exists(r) => reservations[r].status \in ReservationStatuses)
    BY RowTyped DEF ServeStep, RowsMove, ReservationRow
  <2>2. Exists(r) => version[r] # 0
    BY DEF RowsInv, UsedIds
  <2>3. QED BY <2>1, <2>2 DEF StatusMove, StatusOf, ReservationStatuses
<1>3. ASSUME NEW r \in Ids
      PROVE  \/ PresenceOf(r)' = PresenceOf(r)
             \/ /\ PresenceOf(r) = "out" /\ PresenceOf(r)' = "in"
                /\ StatusOf(r)' \notin {"NONE", "GONE"}
                /\ StatusOf(r) = "COMPLETED" => Purged
             \/ PresenceOf(r) = "in" /\ PresenceOf(r)' = "left"
  <2>1. PresenceMove(r)
    BY DEF ServeStep, RowsMove
  <2>2. /\ checkins[r] # NoRow => checkins[r].out \in BOOLEAN
        /\ checkins'[r] # NoRow => checkins'[r].out \in BOOLEAN
    BY DEF TypeInv, TypeOK, CheckinRow
  <2>3. CASE checkins'[r] = checkins[r]
    BY <2>3 DEF PresenceOf, Open
  <2>4. CASE checkins[r] = NoRow /\ checkins'[r] # NoRow /\ ~checkins'[r].out /\ Exists(r)'
    <3>1. PresenceOf(r) = "out" /\ PresenceOf(r)' = "in"
      BY <2>4 DEF PresenceOf, Open
    <3>2. reservations'[r].status \in ReservationStatuses
      BY <2>4 DEF TypeInv, TypeOK, Exists, ReservationRow
    <3>3. StatusOf(r)' \notin {"NONE", "GONE"}
      BY <2>4, <3>2 DEF StatusOf, ReservationStatuses
    <3>4. StatusOf(r) = "COMPLETED" => Completed(r)
      BY DEF StatusOf, Completed
    <3>5. StatusOf(r) = "COMPLETED" => Purged
      BY <2>4, <3>4 DEF RowsInv, CompletedLeft, Left
    <3>6. QED BY <3>1, <3>3, <3>5
  <2>5. CASE checkins[r] # NoRow /\ Left(r)'
    BY <2>2, <2>5 DEF PresenceOf, Open, Left
  <2>6. QED BY <2>1, <2>3, <2>4, <2>5 DEF PresenceMove
<1>4. ASSUME NEW r \in Ids
      PROVE  StatusOf(r)' = "COMPLETED" /\ StatusOf(r) # "COMPLETED" =>
               PresenceOf(r)' = "left" \/ Purged
  <2>1. CompletionMove(r)
    BY DEF ServeStep, RowsMove
  <2>2. StatusOf(r)' = "COMPLETED" => Completed(r)'
    BY DEF StatusOf, Completed
  <2>3. Completed(r) => StatusOf(r) = "COMPLETED"
    BY DEF StatusOf, Completed
  <2>4. Left(r)' => PresenceOf(r)' = "left"
    BY DEF PresenceOf, Left, Open
  <2>5. QED BY <2>1, <2>2, <2>3, <2>4 DEF CompletionMove
<1>5. QED
  BY <1>1, <1>2, <1>3, <1>4 DEF Lifecycle!Serve, Lifecycle!StatusStep,
     Lifecycle!PresenceStep, Lifecycle!CompletedWithCheckout, Lifecycle!Settled, Purged

-----------------------------------------------------------------------------
(***************************************************************************)
(* Steps that leave the rows alone.                                        *)
(***************************************************************************)
LEMMA ServeTables ==
  ASSUME UNCHANGED <<reservations, checkins, version>>, DesksKept, JobsKept
  PROVE  ServeStep
<1>1. ASSUME NEW r \in Ids PROVE StatusMove(r) /\ PresenceMove(r) /\ CompletionMove(r)
  BY DEF StatusMove, PresenceMove, CompletionMove, Completed, Exists
<1>2. QED BY <1>1 DEF ServeStep, RowsMove

LEMMA SameDesks == UNCHANGED deskStatus => DesksKept
  BY DEF DesksKept

LEMMA SameJobs == UNCHANGED jobs => JobsKept
  BY DEF JobsKept

LEMMA ServeStarts ==
  ASSUME TypeInv, NEW t \in Threads,
         \/ StartCreate(t) \/ StartRecurring(t) \/ StartTeams(t) \/ StartCancel(t)
         \/ StartGraphSync(t) \/ StartCheckin(t) \/ StartManual(t) \/ RejectScan(t)
         \/ StartWalkin(t) \/ StartCheckout(t) \/ StartRestore(t)
  PROVE  ServeStep
<1>1. UNCHANGED <<tables, jobs, history>>
  BY DEF StartCreate, StartRecurring, StartTeams, StartCancel, StartGraphSync, StartCheckin,
         StartManual, RejectScan, StartWalkin, StartCheckout, StartRestore
<1>2. QED BY <1>1, ServeTables, SameDesks, SameJobs DEF tables, history

LEMMA ServeDeskUpdates ==
  ASSUME TypeInv, NEW t \in Threads, UpdateDesk(t) \/ SetDeskStatus(t)
  PROVE  ServeStep
<1>1. PICK d \in Desks, status \in {"MAINTENANCE", "ACTIVE", "INACTIVE"} :
        deskStatus[d] # "DELETED" /\ deskStatus' = [deskStatus EXCEPT ![d] = status]
  BY DEF UpdateDesk, SetDeskStatus
<1>2. DesksKept
  BY <1>1 DEF DesksKept, TypeInv, TypeOK
<1>3. UNCHANGED <<reservations, checkins, jobs, history>>
  BY DEF UpdateDesk, SetDeskStatus
<1>4. QED BY <1>2, <1>3, ServeTables, SameJobs DEF history

LEMMA ServeReads ==
  ASSUME TypeInv, NEW t \in Threads,
         \/ FindConflict(t) \/ InsertFails(t) \/ ReadOccupant(t) \/ SyncFindConflict(t)
         \/ ReadCheckin(t) \/ WalkinReadOccupant(t) \/ WalkinReadNext(t)
         \/ CheckoutReadLed(t) \/ Emit(t) \/ RestoreReadCheckin(t)
         \/ RestoreReadReservation(t)
  PROVE  ServeStep
<1>1. UNCHANGED <<tables, jobs, history>>
  BY DEF FindConflict, InsertFails, ReadOccupant, SyncFindConflict, ReadCheckin,
         WalkinReadOccupant, WalkinReadNext, CheckoutReadLed, Emit, RestoreReadCheckin,
         RestoreReadReservation
<1>2. QED BY <1>1, ServeTables, SameDesks, SameJobs DEF tables, history

-----------------------------------------------------------------------------
(***************************************************************************)
(* Steps that settle reservations without their check-ins.                 *)
(***************************************************************************)
LEMMA SettleMoves ==
  ASSUME TypeInv, NEW S, NEW status \in {"CANCELLED", "EXPIRED"},
         \A r \in Ids \cap S : Exists(r),
         reservations' = [r \in Ids |-> IF r \in S
                                        THEN [reservations[r] EXCEPT !.status = status]
                                        ELSE reservations[r]],
         UNCHANGED <<checkins, version>>
  PROVE  RowsMove
<1> SUFFICES ASSUME NEW r \in Ids
             PROVE  StatusMove(r) /\ PresenceMove(r) /\ CompletionMove(r)
  BY DEF RowsMove
<1>1. CASE r \in S
  <2>1. Exists(r) /\ reservations[r] \in ReservationRow
    BY <1>1, RowTyped
  <2>2. /\ reservations'[r].status = status
        /\ reservations'[r].desk = reservations[r].desk
        /\ reservations'[r] \in ReservationRow
    BY <1>1, <2>1 DEF ReservationRow, ReservationStatuses
  <2>3. Exists(r)'
    BY <2>2 DEF Exists, NoRow, ReservationRow
  <2>4. QED BY <2>1, <2>2, <2>3 DEF StatusMove, PresenceMove, CompletionMove, Completed
<1>2. CASE r \notin S
  BY <1>2 DEF StatusMove, PresenceMove, CompletionMove, Completed, Exists
<1>3. QED BY <1>1, <1>2

LEMMA ServeHardDelete ==
  ASSUME TypeInv, NEW t \in Threads, StartHardDelete(t)
  PROVE  ServeStep
<1>1. PICK d \in Desks :
        reservations' = [r \in Ids |-> IF Active(r) /\ reservations[r].desk = d
                                       THEN [reservations[r] EXCEPT !.status = "CANCELLED"]
                                       ELSE reservations[r]]
  BY DEF StartHardDelete
<1> DEFINE S == {r \in Ids : Active(r) /\ reservations[r].desk = d}
<1>2. \A r \in Ids \cap S : Exists(r)
  BY DEF Active
<1>3. reservations' = [r \in Ids |-> IF r \in S
                                     THEN [reservations[r] EXCEPT !.status = "CANCELLED"]
                                     ELSE reservations[r]]
  BY <1>1
<1>4. UNCHANGED <<deskStatus, checkins, jobs, version>>
  BY DEF StartHardDelete, history
<1> HIDE DEF S
<1>5. RowsMove
  BY <1>2, <1>3, <1>4, SettleMoves
<1>6. QED BY <1>4, <1>5, SameDesks, SameJobs DEF ServeStep

LEMMA ServeCancel ==
  ASSUME TypeInv, NEW t \in Threads, CancelReservation(t)
  PROVE  ServeStep
<1> DEFINE r == proc[t].res
<1>1. r \in Ids
  BY Carried DEF CancelReservation, TypeInv, Ready
<1>2. UNCHANGED <<deskStatus, checkins, jobs, version>>
  BY DEF CancelReservation, history
<1>3. CASE Exists(r)
  <2> DEFINE S == {r}
  <2>1. reservations' = [x \in Ids |-> IF x \in S
                                       THEN [reservations[x] EXCEPT !.status = "CANCELLED"]
                                       ELSE reservations[x]]
    BY <1>1, <1>3 DEF CancelReservation, SetStatus, TypeInv, TypeOK
  <2>2. \A x \in Ids \cap S : Exists(x)
    BY <1>3
  <2> HIDE DEF S
  <2>3. RowsMove
    BY <1>2, <2>1, <2>2, SettleMoves
  <2>4. QED BY <1>2, <2>3, SameDesks, SameJobs DEF ServeStep
<1>4. CASE ~Exists(r)
  BY <1>2, <1>4, ServeTables, SameDesks, SameJobs DEF CancelReservation
<1>5. QED BY <1>3, <1>4

LEMMA ServeExpireOld ==
  ASSUME TypeInv, ExpireOld
  PROVE  ServeStep
<1>1. jobs'["autoCheckout"] = jobs["autoCheckout"]
  BY DEF ExpireOld, ExpireOldRead, ExpireOldUpdate, ExpireOldEmit, Job, TypeInv, TypeOK,
         JobNames
<1>2. UNCHANGED <<deskStatus, checkins, version>>
  BY DEF ExpireOld, ExpireOldRead, ExpireOldUpdate, ExpireOldEmit, tables, history
<1>3. CASE ExpireOldUpdate
  <2> DEFINE S == {r \in Ids : r \in jobs["expireOld"].ids /\ Exists(r)}
  <2>1. reservations' = [r \in Ids |-> IF r \in S
                                       THEN [reservations[r] EXCEPT !.status = "EXPIRED"]
                                       ELSE reservations[r]]
    BY <1>3 DEF ExpireOldUpdate
  <2>2. \A r \in Ids \cap S : Exists(r)
    OBVIOUS
  <2> HIDE DEF S
  <2>3. RowsMove
    BY <1>2, <2>1, <2>2, SettleMoves
  <2>4. QED BY <1>1, <1>2, <2>3, SameDesks DEF ServeStep, JobsKept
<1>4. CASE ExpireOldRead \/ ExpireOldEmit
  <2>1. UNCHANGED reservations
    BY <1>4 DEF ExpireOldRead, ExpireOldEmit, tables
  <2>2. QED BY <1>1, <1>2, <2>1, ServeTables, SameDesks DEF JobsKept
<1>5. QED BY <1>3, <1>4 DEF ExpireOld

-----------------------------------------------------------------------------
(***************************************************************************)
(* Steps that open or close check-ins.                                     *)
(***************************************************************************)
LEMMA ClosedRow ==
  ASSUME TypeInv, NEW r \in Ids, checkins[r] # NoRow,
         checkins'[r] = [checkins[r] EXCEPT !.out = TRUE]
  PROVE  checkins'[r] # NoRow /\ Left(r)' /\ checkins'[r].desk = checkins[r].desk
<1>1. checkins[r] \in CheckinRow
  BY RowTyped
<1>2. checkins'[r] = [desk |-> checkins[r].desk, out |-> TRUE]
  BY <1>1 DEF CheckinRow
<1>3. QED BY <1>2 DEF Left, NoRow

\* Closing any set of check-ins, with the reservations as they are.
LEMMA CloseMoves ==
  ASSUME TypeInv, NEW S, \A r \in Ids \cap S : checkins[r] # NoRow,
         checkins' = [r \in Ids |-> IF r \in S THEN [checkins[r] EXCEPT !.out = TRUE]
                                    ELSE checkins[r]],
         UNCHANGED <<reservations, version>>
  PROVE  RowsMove
<1> SUFFICES ASSUME NEW r \in Ids
             PROVE  StatusMove(r) /\ PresenceMove(r) /\ CompletionMove(r)
  BY DEF RowsMove
<1>1. StatusMove(r) /\ CompletionMove(r)
  BY DEF StatusMove, CompletionMove, Completed, Exists
<1>2. PresenceMove(r)
  BY ClosedRow DEF PresenceMove
<1>3. QED BY <1>1, <1>2

LEMMA ServeClose ==
  ASSUME TypeInv, NEW t \in Threads, CloseCancelledCheckin(t) \/ DeleteCloseCheckins(t)
  PROVE  ServeStep
<1>1. PICK S \in SUBSET {r \in Ids : Open(r)} :
        checkins' = [r \in Ids |-> IF r \in S THEN [checkins[r] EXCEPT !.out = TRUE]
                                   ELSE checkins[r]]
  <2>1. CASE CloseCancelledCheckin(t)
    <3> DEFINE S == {r \in Ids : r = proc[t].res /\ Open(r)}
    <3>1. proc[t].res \in Ids
      BY <2>1, Carried DEF CloseCancelledCheckin, TypeInv, Ready
    <3>2. checkins' = [r \in Ids |-> IF r \in S THEN [checkins[r] EXCEPT !.out = TRUE]
                                     ELSE checkins[r]]
      BY <2>1, <3>1 DEF CloseCancelledCheckin, TypeInv, TypeOK
    <3>3. QED BY <3>2
  <2>2. CASE DeleteCloseCheckins(t)
    <3> DEFINE S == {r \in Ids : Open(r) /\ checkins[r].desk = proc[t].desk}
    <3>1. checkins' = [r \in Ids |-> IF r \in S THEN [checkins[r] EXCEPT !.out = TRUE]
                                     ELSE checkins[r]]
      BY <2>2 DEF DeleteCloseCheckins
    <3>2. QED BY <3>1
  <2>3. QED BY <2>1, <2>2
<1>2. \A r \in Ids \cap S : checkins[r] # NoRow
  BY DEF Open
<1>3. UNCHANGED <<deskStatus, reservations, jobs, version>>
  BY DEF CloseCancelledCheckin, DeleteCloseCheckins, history
<1>4. RowsMove
  BY <1>1, <1>2, <1>3, CloseMoves
<1>5. QED BY <1>3, <1>4, SameDesks, SameJobs DEF ServeStep

LEMMA ServeCreateCheckin ==
  ASSUME TypeInv, NEW t \in Threads, CreateCheckin(t)
  PROVE  ServeStep
<1> DEFINE x == proc[t].res
           d == proc[t].desk
<1>1. x \in Ids
  BY Carried DEF CreateCheckin, TypeInv, Ready
<1>2. UNCHANGED <<deskStatus, reservations, jobs, version>>
  BY DEF CreateCheckin, history
<1>3. CASE checkins[x] = NoRow /\ Exists(x) /\ deskStatus[d] # "DELETED"
  <2>1. checkins' = [checkins EXCEPT ![x] = [desk |-> d, out |-> FALSE]]
    BY <1>3 DEF CreateCheckin
  <2>2. checkins'[x] = [desk |-> d, out |-> FALSE]
    BY <1>1, <2>1 DEF TypeInv, TypeOK
  <2>3. checkins'[x] # NoRow /\ ~checkins'[x].out /\ checkins'[x].desk = d
    BY <2>2 DEF NoRow
  <2>4. \A r \in Ids \ {x} : checkins'[r] = checkins[r]
    BY <2>1 DEF TypeInv, TypeOK
  <2>5. RowsMove
    <3> SUFFICES ASSUME NEW r \in Ids
                 PROVE  StatusMove(r) /\ PresenceMove(r) /\ CompletionMove(r)
      BY DEF RowsMove
    <3>1. StatusMove(r) /\ CompletionMove(r)
      BY <1>2 DEF StatusMove, CompletionMove, Completed, Exists
    <3>2. PresenceMove(r)
      BY <1>2, <1>3, <2>3, <2>4 DEF PresenceMove, Exists
    <3>3. QED BY <3>1, <3>2
  <2>6. QED BY <1>2, <2>5, SameDesks, SameJobs DEF ServeStep
<1>4. CASE ~(checkins[x] = NoRow /\ Exists(x) /\ deskStatus[d] # "DELETED")
  <2>1. UNCHANGED checkins
    BY <1>4 DEF CreateCheckin
  <2>2. QED BY <1>2, <2>1, ServeTables, SameDesks, SameJobs
<1>5. QED BY <1>3, <1>4

\* Checkout and autoCheckout: check-ins are closed and, where the reservation
\* exists, it is completed in the same transaction.
LEMMA CompleteMoves ==
  ASSUME TypeInv, NEW S,
         \A r \in Ids \cap S : checkins[r] # NoRow \/ Purged,
         reservations' = [r \in Ids |-> IF r \in S /\ Exists(r)
                                        THEN [reservations[r] EXCEPT !.status = "COMPLETED"]
                                        ELSE reservations[r]],
         checkins' = [r \in Ids |-> IF r \in S /\ checkins[r] # NoRow
                                    THEN [checkins[r] EXCEPT !.out = TRUE]
                                    ELSE checkins[r]],
         UNCHANGED version
  PROVE  RowsMove
<1> SUFFICES ASSUME NEW r \in Ids
             PROVE  StatusMove(r) /\ PresenceMove(r) /\ CompletionMove(r)
  BY DEF RowsMove
<1>1. PresenceMove(r)
  BY ClosedRow DEF PresenceMove
<1>2. CASE r \in S /\ Exists(r)
  <2>1. reservations[r] \in ReservationRow
    BY <1>2, RowTyped
  <2>2. /\ reservations'[r].status = "COMPLETED"
        /\ reservations'[r].desk = reservations[r].desk
        /\ reservations'[r] \in ReservationRow
    BY <1>2, <2>1 DEF ReservationRow, ReservationStatuses
  <2>3. Exists(r)'
    BY <2>2 DEF Exists, NoRow, ReservationRow
  <2>4. checkins[r] # NoRow => Left(r)'
    BY <1>2, ClosedRow
  <2>5. QED BY <1>1, <1>2, <2>2, <2>3, <2>4 DEF StatusMove, CompletionMove
<1>3. CASE ~(r \in S /\ Exists(r))
  BY <1>1, <1>3 DEF StatusMove, CompletionMove, Completed, Exists
<1>4. QED BY <1>2, <1>3

LEMMA ServeCheckout ==
  ASSUME TypeInv, NEW t \in Threads, Checkout(t)
  PROVE  ServeStep
<1> DEFINE x == proc[t].res
<1>1. x \in Ids
  BY Carried DEF Checkout, TypeInv, Ready
<1>2. UNCHANGED <<deskStatus, jobs, version>>
  BY DEF Checkout, history
<1>3. CASE Exists(x) /\ checkins[x] # NoRow
  <2> DEFINE S == {x}
  <2>1. reservations' = [r \in Ids |-> IF r \in S /\ Exists(r)
                                       THEN [reservations[r] EXCEPT !.status = "COMPLETED"]
                                       ELSE reservations[r]]
    BY <1>1, <1>3 DEF Checkout, SetStatus, TypeInv, TypeOK
  <2>2. checkins' = [r \in Ids |-> IF r \in S /\ checkins[r] # NoRow
                                   THEN [checkins[r] EXCEPT !.out = TRUE]
                                   ELSE checkins[r]]
    BY <1>1, <1>3 DEF Checkout, TypeInv, TypeOK
  <2>3. \A r \in Ids \cap S : checkins[r] # NoRow \/ Purged
    BY <1>3
  <2> HIDE DEF S
  <2>4. RowsMove
    BY <1>2, <2>1, <2>2, <2>3, CompleteMoves
  <2>5. QED BY <1>2, <2>4, SameDesks, SameJobs DEF ServeStep
<1>4. CASE ~(Exists(x) /\ checkins[x] # NoRow)
  <2>1. UNCHANGED <<reservations, checkins>>
    BY <1>4 DEF Checkout
  <2>2. QED BY <1>2, <2>1, ServeTables, SameDesks, SameJobs
<1>5. QED BY <1>3, <1>4

LEMMA ServeAutoCheckout ==
  ASSUME TypeInv, RowsInv, AutoCheckout
  PROVE  ServeStep
<1> DEFINE job == jobs["autoCheckout"]
<1>1. UNCHANGED <<deskStatus, version>>
  BY DEF AutoCheckout, AutoCheckoutRead, AutoCheckoutUpdate, AutoCheckoutReadLed,
         AutoCheckoutEmit, tables, history
<1>2. \A j \in JobRecord : Job("autoCheckout", j) => jobs'["autoCheckout"] = j
  BY DEF Job, TypeInv, TypeOK, JobNames
<1>3. job \in JobRecord
  BY DEF TypeInv, TypeOK, JobNames
<1>4. CASE AutoCheckoutRead
  <2>1. PICK stale \in SUBSET {r \in Ids : Open(r) /\ ~Exists(r)} :
          Job("autoCheckout",
              [IdleJob EXCEPT !.pc = "update",
                 !.ids = {r \in Ids : Open(r) /\ Ended(r)} \cup stale,
                 !.desks = {checkins[r].desk :
                              r \in {r \in Ids : Open(r) /\ Ended(r)} \cup stale}])
    BY <1>4 DEF AutoCheckoutRead
  <2>2. jobs'["autoCheckout"].ids = {r \in Ids : Open(r) /\ Ended(r)} \cup stale
    BY <2>1 DEF Job, IdleJob, TypeInv, TypeOK, JobNames
  <2>3. UNCHANGED <<reservations, checkins>>
    BY <1>4 DEF AutoCheckoutRead, tables
  <2>4. \A r \in Ids : r \in jobs'["autoCheckout"].ids => checkins'[r] # NoRow
    BY <2>2, <2>3 DEF Open
  <2>5. QED BY <1>1, <2>3, <2>4, ServeTables, SameDesks DEF JobsKept
<1>5. CASE AutoCheckoutUpdate
  <2> DEFINE S == job.ids
  <2>1. \A r \in Ids \cap S : checkins[r] # NoRow \/ Purged
    BY <1>5 DEF AutoCheckoutUpdate, RowsInv, CheckoutHolds
  <2>2. /\ reservations' = [r \in Ids |-> IF r \in S /\ Exists(r)
                                          THEN [reservations[r] EXCEPT !.status = "COMPLETED"]
                                          ELSE reservations[r]]
        /\ checkins' = [r \in Ids |-> IF r \in S /\ checkins[r] # NoRow
                                      THEN [checkins[r] EXCEPT !.out = TRUE]
                                      ELSE checkins[r]]
    BY <1>5 DEF AutoCheckoutUpdate
  <2> HIDE DEF S
  <2>3. RowsMove
    BY <1>1, <2>1, <2>2, CompleteMoves
  <2>4. jobs'["autoCheckout"].pc = "after"
    BY <1>3, <1>5 DEF AutoCheckoutUpdate, Job, TypeInv, TypeOK, JobNames, JobRecord
  <2>5. QED BY <1>1, <2>3, <2>4, SameDesks DEF ServeStep, JobsKept
<1>6. CASE AutoCheckoutReadLed
  <2>1. jobs'["autoCheckout"].pc = "emit"
    BY <1>3, <1>6 DEF AutoCheckoutReadLed, Job, TypeInv, TypeOK, JobNames, JobRecord
  <2>2. UNCHANGED <<reservations, checkins>>
    BY <1>6 DEF AutoCheckoutReadLed, tables
  <2>3. QED BY <1>1, <2>1, <2>2, ServeTables, SameDesks DEF JobsKept
<1>7. CASE AutoCheckoutEmit
  <2>1. jobs'["autoCheckout"].pc # "update"
    BY <1>3, <1>7 DEF AutoCheckoutEmit, Job, IdleJob, TypeInv, TypeOK, JobNames, JobRecord
  <2>2. UNCHANGED <<reservations, checkins>>
    BY <1>7 DEF AutoCheckoutEmit, tables
  <2>3. QED BY <1>1, <2>1, <2>2, ServeTables, SameDesks DEF JobsKept
<1>8. QED BY <1>4, <1>5, <1>6, <1>7 DEF AutoCheckout

-----------------------------------------------------------------------------
(***************************************************************************)
(* Steps that book or move a reservation.                                  *)
(***************************************************************************)

\* The row of an INSERT, with or without its check-in.
LEMMA InsertMoves ==
  ASSUME TypeInv, RowsInv, NEW x \in Ids, NEW d, NEW u, NEW slot, NEW type, NEW known,
         InsertRow(x, d, u, slot, type, known),
         \/ UNCHANGED checkins
         \/ checkins' = [checkins EXCEPT ![x] = [desk |-> d, out |-> FALSE]]
  PROVE  RowsMove
<1> DEFINE row == [desk |-> d, user |-> u, slot |-> slot, type |-> type,
                   status |-> "CONFIRMED"]
<1>1. /\ reservations'[x] = row /\ version[x] = 0 /\ version'[x] = 1
      /\ deskStatus[d] # "DELETED"
      /\ \A r \in Ids \ {x} : reservations'[r] = reservations[r] /\ version'[r] = version[r]
  BY DEF InsertRow, TypeInv, TypeOK
<1>2. row # NoRow /\ row.status = "CONFIRMED" /\ row.desk = d
  BY DEF NoRow
<1> HIDE DEF row
<1>3. /\ StatusMove(x) /\ CompletionMove(x) /\ Exists(x)'
      /\ checkins[x] = NoRow
  BY <1>1, <1>2 DEF StatusMove, CompletionMove, Completed, Exists, RowsInv, CheckinsUsed
<1>4. PresenceMove(x)
  <2>1. CASE UNCHANGED checkins
    BY <2>1 DEF PresenceMove
  <2>2. CASE checkins' = [checkins EXCEPT ![x] = [desk |-> d, out |-> FALSE]]
    <3>1. checkins'[x] = [desk |-> d, out |-> FALSE]
      BY <2>2 DEF TypeInv, TypeOK
    <3>2. checkins'[x] # NoRow /\ ~checkins'[x].out /\ checkins'[x].desk = d
      BY <3>1 DEF NoRow
    <3>3. QED BY <1>1, <1>3, <3>2 DEF PresenceMove
  <2>3. QED BY <2>1, <2>2
<1>5. ASSUME NEW r \in Ids \ {x}
      PROVE  StatusMove(r) /\ PresenceMove(r) /\ CompletionMove(r)
  <2>1. checkins'[r] = checkins[r]
    BY DEF TypeInv, TypeOK
  <2>2. QED BY <1>1, <2>1 DEF StatusMove, PresenceMove, CompletionMove, Completed, Exists
<1>6. QED BY <1>3, <1>4, <1>5 DEF RowsMove

LEMMA ServeInserts ==
  ASSUME TypeInv, RowsInv, NEW t \in Threads, InsertReservation(t) \/ CreateWalkin(t)
  PROVE  ServeStep
<1>1. RowsMove
  BY InsertMoves DEF InsertReservation, CreateWalkin
<1>2. UNCHANGED <<deskStatus, jobs>>
  BY DEF InsertReservation, CreateWalkin
<1>3. QED BY <1>1, <1>2, SameDesks, SameJobs DEF ServeStep

LEMMA ServeMoveReservation ==
  ASSUME TypeInv, RowsInv, NEW t \in Threads, MoveReservation(t)
  PROVE  ServeStep
<1>1. PICK x \in Ids : x = proc[t].res
  BY Carried DEF MoveReservation, TypeInv, Ready
<1> DEFINE slot == Head(proc[t].slots)
           moved == [date |-> reservations[x].slot.date, start |-> slot.start,
                     end |-> slot.end]
           row == [reservations[x] EXCEPT !.slot = moved]
<1>2. UNCHANGED <<deskStatus, checkins, jobs>>
  BY DEF MoveReservation
<1>3. CASE Exists(x)
  <2>1. reservations[x] \in ReservationRow
    BY <1>1, <1>3, RowTyped
  <2>2. reservations' = [reservations EXCEPT ![x] = row]
    BY <1>1, <1>3 DEF MoveReservation
  <2>3. /\ row.status = reservations[x].status /\ row.desk = reservations[x].desk
        /\ row # NoRow
    <3>1. row.user = reservations[x].user /\ row.status = reservations[x].status
          /\ row.desk = reservations[x].desk
      BY <2>1 DEF ReservationRow
    <3>2. row = [desk |-> reservations[x].desk, user |-> reservations[x].user,
                 slot |-> moved, type |-> reservations[x].type,
                 status |-> reservations[x].status]
      BY <2>1 DEF ReservationRow
    <3> HIDE DEF row, moved
    <3>3. row # NoRow
      BY <3>2 DEF NoRow
    <3>4. QED BY <3>1, <3>3
  <2> HIDE DEF row
  <2>4. version[x] \in Nat /\ version[x] # 0
    BY <1>1, <1>3 DEF TypeInv, TypeOK, RowsInv, UsedIds
  <2>5. version' = [version EXCEPT ![x] = @ + 1]
    BY <1>1, <1>3 DEF MoveReservation
  <2>6. version'[x] # 0
    BY <1>1, <2>4, <2>5 DEF TypeInv, TypeOK
  <2>7. StatusMove(x) /\ PresenceMove(x) /\ CompletionMove(x)
    <3>1. reservations'[x] = row
      BY <1>1, <2>2 DEF TypeInv, TypeOK
    <3>2. /\ reservations'[x] # NoRow /\ reservations'[x].desk = reservations[x].desk
          /\ reservations'[x].status = reservations[x].status
      BY <2>3, <3>1
    <3>3. StatusMove(x)
      BY <1>3, <2>4, <2>6, <3>2 DEF StatusMove, Exists
    <3>4. PresenceMove(x) /\ CompletionMove(x)
      BY <1>2, <1>3, <3>2 DEF PresenceMove, CompletionMove, Completed
    <3>5. QED BY <3>3, <3>4
  <2>8. ASSUME NEW r \in Ids \ {x}
        PROVE  StatusMove(r) /\ PresenceMove(r) /\ CompletionMove(r)
    <3>1. reservations'[r] = reservations[r] /\ version'[r] = version[r]
      BY <2>2, <2>5 DEF TypeInv, TypeOK
    <3>2. QED BY <1>2, <3>1 DEF StatusMove, PresenceMove, CompletionMove, Completed, Exists
  <2>9. QED BY <1>2, <2>7, <2>8, SameDesks, SameJobs DEF ServeStep, RowsMove
<1>4. CASE ~Exists(x)
  <2>1. UNCHANGED <<reservations, version>>
    BY <1>1, <1>4 DEF MoveReservation, history
  <2>2. QED BY <1>2, <2>1, ServeTables, SameDesks, SameJobs
<1>5. QED BY <1>3, <1>4

-----------------------------------------------------------------------------
(***************************************************************************)
(* Deleting a desk, the one step that removes rows.                        *)
(***************************************************************************)
LEMMA DeleteDeskRows ==
  ASSUME TypeInv, RowsInv, NEW t \in Threads, DeleteDesk(t)
  PROVE  RowsInv' /\ Lifecycle!Purge
<1> DEFINE d == proc[t].desk
<1>1. d \in Desks
  BY Carried DEF DeleteDesk, TypeInv, Ready
<1>2. deskStatus'[d] = "DELETED" /\ \A e \in Desks \ {d} : deskStatus'[e] = deskStatus[e]
  BY <1>1 DEF DeleteDesk, TypeInv, TypeOK
<1>3. Purged'
  BY <1>1, <1>2 DEF Purged
<1>4. \A r \in Ids :
        /\ reservations'[r] = IF Exists(r) /\ reservations[r].desk = d
                              THEN NoRow ELSE reservations[r]
        /\ checkins'[r] = IF checkins[r] # NoRow /\ checkins[r].desk = d
                          THEN NoRow ELSE checkins[r]
  BY DEF DeleteDesk
<1>5. version' = version
  BY DEF DeleteDesk, history
<1>6. UsedIds' /\ CheckinsUsed'
  BY <1>4, <1>5 DEF RowsInv, UsedIds, CheckinsUsed, Exists
<1>7. CompletedLeft' /\ CheckoutHolds'
  BY <1>3 DEF CompletedLeft, CheckoutHolds
<1>8. DeletedDeskHasNoRows'
  <2> SUFFICES ASSUME NEW e \in Desks, NEW r \in Ids, deskStatus'[e] = "DELETED"
               PROVE  /\ reservations'[r] # NoRow => reservations'[r].desk # e
                      /\ checkins'[r] # NoRow => checkins'[r].desk # e
    BY DEF DeletedDeskHasNoRows, Exists
  <2>1. CASE e = d
    BY <1>4, <2>1 DEF Exists
  <2>2. CASE e # d
    BY <1>2, <1>4, <2>2 DEF RowsInv, DeletedDeskHasNoRows, Exists
  <2>3. QED BY <2>1, <2>2
<1>9. ASSUME NEW r \in Ids
      PROVE  /\ \/ StatusOf(r)' = StatusOf(r)
                \/ StatusOf(r) # "NONE" /\ StatusOf(r)' = "GONE"
             /\ PresenceOf(r)' \in {PresenceOf(r), "out"}
  <2>1. CASE Exists(r) /\ reservations[r].desk = d
    <3>1. reservations'[r] = NoRow /\ version'[r] # 0
      BY <1>4, <1>5, <2>1 DEF RowsInv, UsedIds
    <3>2. StatusOf(r) # "NONE" /\ StatusOf(r)' = "GONE"
      BY <2>1, <3>1, RowTyped DEF StatusOf, Exists, ReservationRow, ReservationStatuses
    <3>3. QED BY <1>4, <3>2 DEF PresenceOf, Open
  <2>2. CASE ~(Exists(r) /\ reservations[r].desk = d)
    BY <1>4, <1>5, <2>2 DEF StatusOf, PresenceOf, Open, Exists
  <2>3. QED BY <2>1, <2>2
<1>10. Lifecycle!Purge
  BY <1>3, <1>9 DEF Lifecycle!Purge, Purged
<1>11. QED BY <1>6, <1>7, <1>8, <1>10 DEF RowsInv

-----------------------------------------------------------------------------
LEMMA StepServes ==
  ASSUME TypeInv, RowsInv, [Next]_vars
  PROVE  ServeStep \/ \E t \in Threads : DeleteDesk(t)
<1>1. ASSUME NEW t \in Threads, Start(t) PROVE ServeStep
  BY <1>1, ServeStarts, ServeDeskUpdates, ServeHardDelete DEF Start
<1>2. ASSUME NEW t \in Threads, Continue(t) PROVE ServeStep \/ DeleteDesk(t)
  BY <1>2, ServeReads, ServeCancel, ServeClose, ServeCreateCheckin, ServeCheckout,
     ServeInserts, ServeMoveReservation DEF Continue
<1>3. CASE AutoReserved
  <2>1. UNCHANGED <<tables, history>>
    BY <1>3 DEF AutoReserved, AutoReservedRead, AutoReservedReadCheckins, AutoReservedEmit
  <2>2. jobs'["autoCheckout"] = jobs["autoCheckout"]
    BY <1>3 DEF AutoReserved, AutoReservedRead, AutoReservedReadCheckins, AutoReservedEmit,
                Job, TypeInv, TypeOK, JobNames
  <2>3. QED BY <2>1, <2>2, ServeTables, SameDesks DEF tables, history, JobsKept
<1>4. CASE Tick
  BY <1>4, ServeTables, SameDesks, SameJobs DEF Tick, tables, history
<1>5. CASE Crash
  <2>1. jobs'["autoCheckout"].pc # "update"
    BY <1>5 DEF Crash, JobNames, IdleJob
  <2>2. QED BY <1>5, <2>1, ServeTables, SameDesks DEF Crash, tables, history, JobsKept
<1>6. CASE UNCHANGED vars
  BY <1>6, ServeTables, SameDesks, SameJobs DEF vars
<1>7. QED BY <1>1, <1>2, <1>3, <1>4, <1>5, <1>6, ServeExpireOld, ServeAutoCheckout
          DEF Next, Handle

LEMMA InitRows == Init => RowsInv /\ Lifecycle!Init
<1> SUFFICES ASSUME Init PROVE RowsInv /\ Lifecycle!Init
  OBVIOUS
<1>1. /\ \A r \in Ids : ~Exists(r) /\ version[r] = 0 /\ checkins[r] = NoRow
      /\ ~Purged
  BY DEF Init, Exists, Purged
<1>2. jobs["autoCheckout"].pc # "update"
  BY DEF Init, JobNames, IdleJob
<1>3. RowsInv
  BY <1>1, <1>2 DEF RowsInv, UsedIds, CheckinsUsed, CompletedLeft, Completed, CheckoutHolds,
                   DeletedDeskHasNoRows
<1>4. QED BY <1>1, <1>3 DEF Lifecycle!Init, StatusOf, PresenceOf, Purged

LEMMA StepRows ==
  ASSUME TypeInv, TypeInv', RowsInv, [Next]_vars
  PROVE  RowsInv' /\ (Lifecycle!Serve \/ Lifecycle!Purge)
  BY StepServes, ServeInv, ServeRefines, DeleteDeskRows

\* The rows agree with each other and with what autoCheckout is about to write.
THEOREM RowsCorrect == Spec => []RowsInv
<1>1. TypeInv /\ TypeInv' /\ RowsInv /\ [Next]_vars => RowsInv'
  BY StepRows
<1>2. QED BY <1>1, InitRows, TypeCorrect, PTL DEF Spec

(***************************************************************************)
(* Whatever requests and cron jobs interleave, what clients see of a       *)
(* reservation and of its check-in is a behaviour of DeskLifecycle: no     *)
(* late INSERT, UPDATE or cron write revives one or reopens the other.     *)
(***************************************************************************)
THEOREM ImplementsLifecycle == Spec => LifecycleSpec
<1>1. TypeInv /\ TypeInv' /\ RowsInv /\ [Next]_vars =>
        [Lifecycle!Serve \/ Lifecycle!Purge]_(Lifecycle!vars)
  BY StepRows
<1>2. QED BY <1>1, InitRows, TypeCorrect, RowsCorrect, PTL
          DEF Spec, LifecycleSpec, Lifecycle!Spec

\* A completed reservation has nobody sitting on it: checkout and autoCheckout
\* close the check-in in the transaction that completes it.
THEOREM CompletedAreOut == Spec => []CompletedImpliesCheckedOut
<1>1. RowsInv => CompletedImpliesCheckedOut
  BY DEF RowsInv, CompletedLeft, Completed, Left, Purged, CompletedImpliesCheckedOut, Open
<1>2. QED BY <1>1, RowsCorrect, PTL

\* Nothing is left of a desk that hardDelete removed, and nothing comes back.
THEOREM DeletedDesksStayEmpty == Spec => []DeletedDeskHasNoRows
<1>1. RowsInv => DeletedDeskHasNoRows
  BY DEF RowsInv
<1>2. QED BY <1>1, RowsCorrect, PTL

-----------------------------------------------------------------------------
(***************************************************************************)
(* Requests and jobs one at a time.  A desk is red for a reason, or what   *)
(* runs is about to turn its LED; what runs knows of its reservation and   *)
(* its check-in what it read, because nothing comes in between.            *)
(***************************************************************************)
Excused(d) == DeskOccupied(d) \/ Misfiled(d) \/ deskStatus[d] = "DELETED"

\* The request p, or the job, is going to turn the LED of desk d.
Turns(p, d) ==
  /\ p.desk = d
  /\ \/ p.pc \in {"after", "delete"}
     \/ p.pc = "emit" /\ p.led # "OCCUPIED"
JobTurns(job, d) ==
  \/ job.pc \in {"after", "emit"} /\ d \in job.desks
  \/ job.pc = "emit" /\ job.leds[d] # "none"

OwnDesk(p) == Exists(p.res) /\ reservations[p.res].desk = p.desk

Knows(p) ==
  /\ p.pc \in {"existing", "cancel", "close"} => OwnDesk(p)
  /\ (p.pc = "checkin" /\ p.op # "manual") => OwnDesk(p)
  /\ p.pc = "existing" => p.op # "manual"
  /\ (p.pc = "checkin" /\ p.op = "manual") => "manual" \in Ops
  /\ p.mqtt = TRUE => "nfc" \in Ops
  /\ (p.pc = "checkout" /\ checkins[p.res] # NoRow) => checkins[p.res].desk = p.desk
  /\ (p.pc = "emit" /\ p.led = "OCCUPIED") => Excused(p.desk)

\* Without the staff's check-ins every check-in is at its reservation's desk.
Filed ==
  "manual" \notin Ops =>
    \A r \in Ids : (checkins[r] # NoRow /\ Exists(r)) => checkins[r].desk = reservations[r].desk

JobKnows ==
  /\ jobs["autoCheckout"].pc = "update" =>
       \A r \in jobs["autoCheckout"].ids :
         checkins[r] # NoRow => checkins[r].desk \in jobs["autoCheckout"].desks
  /\ \A j \in JobNames, d \in Desks : jobs[j].leds[d] # "OCCUPIED"

RedInv ==
  /\ OneAtATime /\ Filed /\ JobKnows
  /\ \A t \in Threads : Knows(proc[t])
  /\ \A d \in Desks : led[d] = "OCCUPIED" =>
       \/ Excused(d)
       \/ JobTurns(jobs["autoCheckout"], d)
       \/ \E t \in Threads : Turns(proc[t], d)

Others(t) == \A x \in Threads \ {t} : proc'[x] = proc[x]

\* A step of thread t while nothing else runs, which leaves the LEDs alone.
LEMMA HandlerKeeps ==
  ASSUME RedInv, NEW t \in Threads, Others(t),
         \A x \in Threads \ {t} : proc[x].pc = "idle",
         \A j \in JobNames : jobs[j].pc = "idle",
         UNCHANGED <<jobs, led>>, OneAtATime', Filed', Knows(proc[t])',
         \A d \in Desks : Excused(d) \/ Turns(proc[t], d) => Excused(d)' \/ Turns(proc'[t], d)
  PROVE  RedInv'
  <1>1. \A x \in Threads : Knows(proc[x])'
    <2>1. ASSUME NEW x \in Threads \ {t} PROVE Knows(proc[x])'
      <3>1. proc'[x] = proc[x] /\ proc[x].pc = "idle" /\ Knows(proc[x])
        BY DEF Others, RedInv
      <3> QED BY <3>1 DEF Knows
    <2> QED BY <2>1
  <1>2. jobs["autoCheckout"].pc = "idle"
    BY DEF JobNames
  <1>3. JobKnows'
    BY <1>2 DEF RedInv, JobKnows
  <1>4. ASSUME NEW d \in Desks, led'[d] = "OCCUPIED"
        PROVE  Excused(d)' \/ \E x \in Threads : Turns(proc[x], d)'
    <2>1. Excused(d) \/ \E x \in Threads : Turns(proc[x], d)
      BY <1>2, <1>4 DEF RedInv, JobTurns
    <2>2. \A x \in Threads \ {t} : ~Turns(proc[x], d)
      BY DEF Turns
    <2>3. Excused(d)' \/ Turns(proc'[t], d)
      BY <2>1, <2>2
    <2> QED BY <2>3 DEF Turns
  <1> QED BY <1>1, <1>3, <1>4 DEF RedInv

LEMMA ThreadsAlone ==
  ASSUME OneAtATime, OneAtATime', NEW t \in Threads, Others(t), UNCHANGED jobs,
         proc[t].pc # "idle" \/ proc'[t].pc # "idle"
  PROVE  /\ \A x \in Threads \ {t} : proc[x].pc = "idle"
         /\ \A j \in JobNames : jobs[j].pc = "idle"
  BY DEF OneAtATime, Others

\* What the ways to go on leave in the record of the request.
LEMMA Fields ==
  ASSUME TypeInv, NEW t \in Threads
  PROVE  /\ \A p : Begin(t, p) \/ Become(t, p) => Others(t) /\ proc'[t] = p
         /\ Finish(t) => Others(t) /\ proc'[t].pc = "idle" /\ proc'[t].mqtt = FALSE
         /\ \A pc : Goto(t, pc) =>
              /\ Others(t) /\ proc'[t].pc = pc /\ proc'[t].desk = proc[t].desk
              /\ proc'[t].res = proc[t].res /\ proc'[t].op = proc[t].op
              /\ proc'[t].led = proc[t].led /\ proc'[t].mqtt = proc[t].mqtt
         /\ \A d, state : ThenEmit(t, d, state) =>
              /\ Others(t) /\ proc'[t].pc = "emit" /\ proc'[t].desk = d
              /\ proc'[t].led = state /\ proc'[t].mqtt = proc[t].mqtt
         /\ proc[t] \in ProcRecord
  <1>1. proc \in [Threads -> ProcRecord] /\ proc[t] \in ProcRecord
    BY DEF TypeInv, TypeOK
  <1>2. ASSUME NEW p, Begin(t, p) \/ Become(t, p) PROVE Others(t) /\ proc'[t] = p
    BY <1>1, <1>2 DEF Begin, Become, Others
  <1>3. ASSUME Finish(t) PROVE Others(t) /\ proc'[t].pc = "idle" /\ proc'[t].mqtt = FALSE
    BY <1>2, <1>3 DEF Finish, Idle
  <1>4. ASSUME NEW pc, Goto(t, pc)
        PROVE  /\ Others(t) /\ proc'[t].pc = pc /\ proc'[t].desk = proc[t].desk
               /\ proc'[t].res = proc[t].res /\ proc'[t].op = proc[t].op
               /\ proc'[t].led = proc[t].led /\ proc'[t].mqtt = proc[t].mqtt
    <2>1. Others(t) /\ proc'[t] = [proc[t] EXCEPT !.pc = pc]
      BY <1>2, <1>4 DEF Goto
    <2> QED BY <1>1, <2>1 DEF ProcRecord
  <1>5. ASSUME NEW d, NEW state, ThenEmit(t, d, state)
        PROVE  /\ Others(t) /\ proc'[t].pc = "emit" /\ proc'[t].desk = d
               /\ proc'[t].led = state /\ proc'[t].mqtt = proc[t].mqtt
    <2>1. Others(t) /\ proc'[t] = [proc[t] EXCEPT !.pc = "emit", !.desk = d, !.led = state]
      BY <1>2, <1>5 DEF ThenEmit
    <2> QED BY <1>1, <2>1 DEF ProcRecord
  <1> QED BY <1>1, <1>2, <1>3, <1>4, <1>5

LEMMA EmitFields ==
  ASSUME TypeInv, NEW t \in Threads, NEW d, NEW state, ThenEmit(t, d, state)
  PROVE  /\ Others(t) /\ proc'[t].pc = "emit" /\ proc'[t].desk = d
         /\ proc'[t].led = state /\ proc'[t].mqtt = proc[t].mqtt
  <1>1. \A e, s : ThenEmit(t, e, s) =>
          /\ Others(t) /\ proc'[t].pc = "emit" /\ proc'[t].desk = e
          /\ proc'[t].led = s /\ proc'[t].mqtt = proc[t].mqtt
    BY Fields
  <1> QED BY <1>1

LEMMA ReadsKeep ==
  ASSUME TypeInv, RedInv, OneAtATime', NEW t \in Threads, Others(t),
         UNCHANGED <<tables, led, jobs>>,
         proc[t].pc # "idle" \/ proc'[t].pc # "idle", Knows(proc'[t]),
         \A d \in Desks : Turns(proc[t], d) => Turns(proc'[t], d)
  PROVE  RedInv'
  <1>1. deskStatus' = deskStatus /\ reservations' = reservations /\ checkins' = checkins
        /\ jobs' = jobs /\ led' = led
    BY DEF tables
  <1>2. OneAtATime /\ Filed
    BY DEF RedInv
  <1>3. /\ \A x \in Threads \ {t} : proc[x].pc = "idle"
        /\ \A j \in JobNames : jobs[j].pc = "idle"
    BY <1>1, <1>2, ThreadsAlone
  <1>4. \A d : Excused(d)' <=> Excused(d)
    BY <1>1 DEF Excused, DeskOccupied, Misfiled, Open, Exists
  <1>5. Filed'
    BY <1>1, <1>2 DEF Filed, Exists
  <1>6. Knows(proc[t])'
    BY <1>1, <1>4 DEF Knows, OwnDesk, Exists
  <1> QED BY <1>1, <1>3, <1>4, <1>5, <1>6, HandlerKeeps

\* A request that goes on to nothing it would have to know anything for.
Light(p) ==
  /\ p.pc \notin {"existing", "cancel", "close", "checkin", "checkout"}
  /\ p.pc = "emit" => p.led # "OCCUPIED"
  /\ p.mqtt = TRUE => "nfc" \in Ops

LEMMA LightKnows == \A p : Light(p) => Knows(p)
  BY DEF Light, Knows

\* No reservation is shown as an occupied desk.
LEMMA FreeLeds ==
  /\ \A type : LedOfType(type) # "OCCUPIED"
  /\ \A d : \A state \in DeskLedAfterFree(d) : state # "OCCUPIED" /\ state # "none"
  <1>1. \A type : LedOfType(type) # "OCCUPIED" /\ LedOfType(type) # "none"
    BY DEF LedOfType
  <1> QED BY <1>1 DEF DeskLedAfterFree

LEMMA BookingStarts ==
  ASSUME TypeInv, RedInv, OneAtATime', NEW t \in Threads,
         StartCreate(t) \/ StartRecurring(t) \/ StartTeams(t) \/ StartGraphSync(t) \/ StartWalkin(t)
  PROVE  RedInv'
  <1>1. PICK p : /\ Begin(t, p)
                 /\ p.pc \in {"conflict", "syncConflict", "walkActive"} /\ p.mqtt = FALSE
    <2>1. CASE StartCreate(t)
      <3>1. PICK d \in Desks, u \in Users, slot \in Slots, type \in Types :
              Begin(t, [Idle EXCEPT !.op = "create", !.pc = "conflict", !.desk = d,
                       !.user = u, !.slots = <<slot>>, !.type = type])
        BY <2>1 DEF StartCreate
      <3>2. PICK p : p = [Idle EXCEPT !.op = "create", !.pc = "conflict", !.desk = d,
                       !.user = u, !.slots = <<slot>>, !.type = type]
        OBVIOUS
      <3>3. p.pc = "conflict" /\ p.mqtt = FALSE
        BY <3>2 DEF Idle
      <3> QED BY <3>1, <3>2, <3>3
    <2>2. CASE StartRecurring(t)
      <3>1. PICK d \in Desks, u \in Users, slots \in Series, type \in Types :
              Begin(t, [Idle EXCEPT !.op = "recurring", !.pc = "conflict", !.desk = d,
                       !.user = u, !.slots = slots, !.type = type])
        BY <2>2 DEF StartRecurring
      <3>2. PICK p : p = [Idle EXCEPT !.op = "recurring", !.pc = "conflict", !.desk = d,
                       !.user = u, !.slots = slots, !.type = type]
        OBVIOUS
      <3>3. p.pc = "conflict" /\ p.mqtt = FALSE
        BY <3>2 DEF Idle
      <3> QED BY <3>1, <3>2, <3>3
    <2>3. CASE StartTeams(t)
      <3>1. PICK d \in Desks, u \in Users, slot \in Slots :
              Begin(t, [Idle EXCEPT !.op = "teams", !.pc = "conflict", !.desk = d,
                       !.user = u, !.slots = <<slot>>])
        BY <2>3 DEF StartTeams
      <3>2. PICK p : p = [Idle EXCEPT !.op = "teams", !.pc = "conflict", !.desk = d,
                       !.user = u, !.slots = <<slot>>]
        OBVIOUS
      <3>3. p.pc = "conflict" /\ p.mqtt = FALSE
        BY <3>2 DEF Idle
      <3> QED BY <3>1, <3>2, <3>3
    <2>4. CASE StartGraphSync(t)
      <3>1. PICK r \in Ids, slot \in Slots :
              Begin(t, [Idle EXCEPT !.op = "graphSync", !.pc = "syncConflict", !.res = r,
                       !.desk = reservations[r].desk, !.slots = <<slot>>])
        BY <2>4 DEF StartGraphSync
      <3>2. PICK p : p = [Idle EXCEPT !.op = "graphSync", !.pc = "syncConflict", !.res = r,
                       !.desk = reservations[r].desk, !.slots = <<slot>>]
        OBVIOUS
      <3>3. p.pc = "syncConflict" /\ p.mqtt = FALSE
        BY <3>2 DEF Idle
      <3> QED BY <3>1, <3>2, <3>3
    <2>5. CASE StartWalkin(t)
      <3>1. PICK d \in Desks, u \in Users :
              Begin(t, [Idle EXCEPT !.op = "walkin", !.pc = "walkActive", !.desk = d, !.user = u,
                       !.slots = <<[date |-> DayOf(now), start |-> now,
                                    end |-> EndOfWork(now)]>>])
        BY <2>5 DEF StartWalkin
      <3>2. PICK p : p = [Idle EXCEPT !.op = "walkin", !.pc = "walkActive", !.desk = d, !.user = u,
                       !.slots = <<[date |-> DayOf(now), start |-> now,
                                    end |-> EndOfWork(now)]>>]
        OBVIOUS
      <3>3. p.pc = "walkActive" /\ p.mqtt = FALSE
        BY <3>2 DEF Idle
      <3> QED BY <3>1, <3>2, <3>3
    <2> QED BY <2>1, <2>2, <2>3, <2>4, <2>5
  <1>2. Others(t) /\ proc'[t] = p /\ proc[t].pc = "idle"
    BY <1>1, Fields DEF Begin
  <1>3. UNCHANGED <<tables, led, jobs>>
    BY DEF StartCreate, StartRecurring, StartTeams, StartGraphSync, StartWalkin
  <1>4. Knows(proc'[t])
    BY <1>1, <1>2, LightKnows DEF Light
  <1>5. \A d : ~Turns(proc[t], d)
    BY <1>2 DEF Turns
  <1> QED BY <1>1, <1>2, <1>3, <1>4, <1>5, ReadsKeep

LEMMA RowStarts ==
  ASSUME TypeInv, RedInv, OneAtATime', NEW t \in Threads,
         StartCancel(t) \/ StartCheckin(t) \/ StartManual(t) \/ StartCheckout(t)
  PROVE  RedInv'
  <1>1. PICK p : Begin(t, p) /\ Knows(p) /\ p.pc # "idle"
    <2>1. CASE StartCancel(t)
      <3>1. PICK r \in Ids, op \in {"cancel", "teamsCancel", "graphDelete"} :
              /\ Exists(r)
              /\ Begin(t, [Idle EXCEPT !.op = op, !.pc = "cancel", !.res = r,
                                       !.desk = reservations[r].desk])
        BY <2>1 DEF StartCancel
      <3>2. PICK p : p = [Idle EXCEPT !.op = op, !.pc = "cancel", !.res = r,
                                      !.desk = reservations[r].desk]
        OBVIOUS
      <3>3. p.pc = "cancel" /\ p.mqtt = FALSE /\ p.res = r /\ p.desk = reservations[r].desk
        BY <3>2 DEF Idle
      <3>4. Knows(p)
        BY <3>1, <3>3 DEF Knows, OwnDesk
      <3> QED BY <3>1, <3>2, <3>3, <3>4
    <2>2. CASE StartCheckin(t)
      <3>1. PICK r \in Ids, op \in {"nfc", "qr", "web"}, viaMqtt \in BOOLEAN :
              /\ Eligible(op, r)
              /\ viaMqtt => op = "nfc"
              /\ Begin(t, [Idle EXCEPT !.op = op, !.pc = "existing", !.res = r,
                                       !.mqtt = viaMqtt, !.desk = reservations[r].desk])
        BY <2>2 DEF StartCheckin
      <3>2. Exists(r)
        BY <3>1 DEF Eligible, Active
      <3>3. op \in Ops
        <4>1. PICK q : q = [Idle EXCEPT !.op = op, !.pc = "existing", !.res = r,
                                        !.mqtt = viaMqtt, !.desk = reservations[r].desk]
          OBVIOUS
        <4>2. q.op = op
          BY <4>1 DEF Idle
        <4> QED BY <3>1, <4>1, <4>2 DEF Begin
      <3>4. PICK p : p = [Idle EXCEPT !.op = op, !.pc = "existing", !.res = r,
                                      !.mqtt = viaMqtt, !.desk = reservations[r].desk]
        OBVIOUS
      <3>5. /\ p.op = op /\ p.pc = "existing" /\ p.res = r /\ p.mqtt = viaMqtt
            /\ p.desk = reservations[r].desk
        BY <3>4 DEF Idle
      <3>6. Knows(p)
        BY <3>1, <3>2, <3>3, <3>5 DEF Knows, OwnDesk
      <3> QED BY <3>1, <3>4, <3>5, <3>6
    <2>3. CASE StartManual(t)
      <3>1. PICK r \in Ids, d \in Desks :
              Begin(t, [Idle EXCEPT !.op = "manual", !.pc = "checkin", !.res = r, !.desk = d])
        BY <2>3 DEF StartManual
      <3>2. PICK p : p = [Idle EXCEPT !.op = "manual", !.pc = "checkin", !.res = r, !.desk = d]
        OBVIOUS
      <3>3. p.op = "manual" /\ p.pc = "checkin" /\ p.mqtt = FALSE
        BY <3>2 DEF Idle
      <3>4. "manual" \in Ops
        BY <3>1, <3>2, <3>3 DEF Begin
      <3>5. Knows(p)
        BY <3>3, <3>4 DEF Knows
      <3> QED BY <3>1, <3>2, <3>3, <3>5
    <2>4. CASE StartCheckout(t)
      <3>1. PICK r \in Ids : Begin(t, [Idle EXCEPT !.op = "checkout", !.pc = "checkout",
                                                   !.res = r, !.desk = checkins[r].desk])
        BY <2>4 DEF StartCheckout
      <3>2. PICK p : p = [Idle EXCEPT !.op = "checkout", !.pc = "checkout",
                                      !.res = r, !.desk = checkins[r].desk]
        OBVIOUS
      <3>3. p.pc = "checkout" /\ p.mqtt = FALSE /\ p.res = r /\ p.desk = checkins[r].desk
        BY <3>2 DEF Idle
      <3>4. Knows(p)
        BY <3>3 DEF Knows
      <3> QED BY <3>1, <3>2, <3>3, <3>4
    <2> QED BY <2>1, <2>2, <2>3, <2>4
  <1>2. Others(t) /\ proc'[t] = p /\ proc[t].pc = "idle"
    BY <1>1, Fields DEF Begin
  <1>3. UNCHANGED <<tables, led, jobs>>
    BY DEF StartCancel, StartCheckin, StartManual, StartCheckout
  <1>4. \A d : ~Turns(proc[t], d)
    BY <1>2 DEF Turns
  <1> QED BY <1>1, <1>2, <1>3, <1>4, ReadsKeep

LEMMA LedStarts ==
  ASSUME TypeInv, RedInv, OneAtATime', NEW t \in Threads, RejectScan(t) \/ StartRestore(t)
  PROVE  RedInv'
  <1>1. PICK p : /\ Begin(t, p) /\ p.pc \in {"emit", "restoreCheckin"}
                 /\ p.led # "OCCUPIED" /\ (p.mqtt = TRUE => p.op = "nfc")
    <2>1. CASE RejectScan(t)
      <3>1. PICK d \in Desks : Begin(t, [Idle EXCEPT !.op = "nfc", !.pc = "emit", !.desk = d,
                                                     !.mqtt = TRUE, !.led = "ERROR"])
        BY <2>1 DEF RejectScan
      <3>2. PICK p : p = [Idle EXCEPT !.op = "nfc", !.pc = "emit", !.desk = d,
                                      !.mqtt = TRUE, !.led = "ERROR"]
        OBVIOUS
      <3>3. p.op = "nfc" /\ p.pc = "emit" /\ p.led = "ERROR"
        BY <3>2 DEF Idle
      <3> QED BY <3>1, <3>2, <3>3
    <2>2. CASE StartRestore(t)
      <3>1. PICK d \in Desks : Begin(t, [Idle EXCEPT !.op = "restore", !.pc = "restoreCheckin",
                                                     !.desk = d])
        BY <2>2 DEF StartRestore
      <3>2. PICK p : p = [Idle EXCEPT !.op = "restore", !.pc = "restoreCheckin", !.desk = d]
        OBVIOUS
      <3>3. p.pc = "restoreCheckin" /\ p.led = "FREE" /\ p.mqtt = FALSE
        BY <3>2 DEF Idle
      <3> QED BY <3>1, <3>2, <3>3
    <2> QED BY <2>1, <2>2
  <1>2. Others(t) /\ proc'[t] = p /\ proc[t].pc = "idle"
    BY <1>1, Fields DEF Begin
  <1>3. UNCHANGED <<tables, led, jobs>>
    BY DEF RejectScan, StartRestore
  <1>4. Knows(proc'[t])
    BY <1>1, <1>2, LightKnows DEF Light, Begin
  <1>5. \A d : ~Turns(proc[t], d)
    BY <1>2 DEF Turns
  <1> QED BY <1>1, <1>2, <1>3, <1>4, <1>5, ReadsKeep

\* The ways to go on that leave a request nothing it has to know.
LEMMA LightSteps ==
  ASSUME TypeInv, RedInv, NEW t \in Threads
  PROVE  /\ Finish(t) => Light(proc'[t])
         /\ \A pc : (Goto(t, pc) /\ pc \notin {"existing", "cancel", "close", "checkin",
                                               "checkout", "emit"}) => Light(proc'[t])
         /\ \A d, state : (ThenEmit(t, d, state) /\ state # "OCCUPIED") => Light(proc'[t])
  <1>1. proc[t].mqtt = TRUE => "nfc" \in Ops
    BY DEF RedInv, Knows
  <1>2. Finish(t) => Light(proc'[t])
    BY Fields DEF Light
  <1>3. ASSUME NEW pc, Goto(t, pc),
               pc \notin {"existing", "cancel", "close", "checkin", "checkout", "emit"}
        PROVE  Light(proc'[t])
    BY <1>1, <1>3, Fields DEF Light
  <1>4. ASSUME NEW d, NEW state, ThenEmit(t, d, state), state # "OCCUPIED" PROVE Light(proc'[t])
    <2>1. proc'[t].pc = "emit" /\ proc'[t].led = state /\ proc'[t].mqtt = proc[t].mqtt
      BY <1>4, EmitFields
    <2> QED BY <1>1, <1>4, <2>1 DEF Light
  <1> QED BY <1>2, <1>3, <1>4

LEMMA NextSlotLight ==
  ASSUME TypeInv, RedInv, NEW t \in Threads, NextSlot(t)
  PROVE  Others(t) /\ Light(proc'[t]) /\ proc'[t].pc # "emit"
  <1>1. CASE Finish(t)
    BY <1>1, Fields, LightSteps
  <1>2. CASE Become(t, [proc[t] EXCEPT !.pc = "conflict", !.slots = Tail(@), !.seen = {}])
    <2>1. PICK p : p = [proc[t] EXCEPT !.pc = "conflict", !.slots = Tail(@), !.seen = {}]
      OBVIOUS
    <2>2. p.pc = "conflict" /\ p.mqtt = proc[t].mqtt
      BY <2>1, Fields DEF ProcRecord
    <2>3. Others(t) /\ proc'[t] = p
      BY <1>2, <2>1, Fields
    <2> QED BY <2>2, <2>3 DEF RedInv, Knows, Light
  <1> QED BY <1>1, <1>2 DEF NextSlot

\* The reads that end a request or lead to another read, an INSERT or an
\* LED that is not red.
LEMMA ReadsGoOn ==
  ASSUME TypeInv, RedInv, OneAtATime', NEW t \in Threads,
         \/ FindConflict(t) \/ InsertFails(t) \/ ReadOccupant(t) \/ SyncFindConflict(t)
         \/ WalkinReadOccupant(t) \/ WalkinReadNext(t) \/ CheckoutReadLed(t)
         \/ RestoreReadReservation(t)
  PROVE  RedInv'
  <1>0. proc[t] \in ProcRecord /\ (proc[t].mqtt = TRUE => "nfc" \in Ops)
    BY Fields DEF RedInv, Knows
  <1>1. UNCHANGED <<tables, led, jobs>> /\ proc[t].pc \notin {"idle", "emit", "delete"}
    BY DEF FindConflict, InsertFails, ReadOccupant, SyncFindConflict, WalkinReadOccupant,
           WalkinReadNext, CheckoutReadLed, RestoreReadReservation
  <1>2. \A p : (Become(t, p) /\ p.pc \in {"insert", "move", "walkin"} /\ p.mqtt = proc[t].mqtt)
                 => Others(t) /\ Light(proc'[t]) /\ proc'[t].pc # "emit"
    BY <1>0, Fields DEF Light
  <1>3. ASSUME proc[t].pc # "after" PROVE \A d : ~Turns(proc[t], d)
    BY <1>1, <1>3 DEF Turns
  <1>4. CASE FindConflict(t)
    <2>1. PICK p : p = [proc[t] EXCEPT !.pc = "insert", !.seen = Snapshot]
      OBVIOUS
    <2>2. p.pc = "insert" /\ p.mqtt = proc[t].mqtt
      BY <1>0, <2>1 DEF ProcRecord
    <2>3. NextSlot(t) \/ Become(t, p)
      BY <1>4, <2>1 DEF FindConflict
    <2>4. Others(t) /\ Light(proc'[t])
      BY <1>2, <2>2, <2>3, NextSlotLight
    <2>5. proc[t].pc # "after"
      BY <1>4 DEF FindConflict
    <2> QED BY <1>1, <1>3, <2>4, <2>5, LightKnows, ReadsKeep
  <1>5. CASE SyncFindConflict(t)
    <2>1. PICK p : p = [proc[t] EXCEPT !.pc = "move", !.seen = Snapshot]
      OBVIOUS
    <2>2. p.pc = "move" /\ p.mqtt = proc[t].mqtt
      BY <1>0, <2>1 DEF ProcRecord
    <2>3. Finish(t) \/ Become(t, p)
      BY <1>5, <2>1 DEF SyncFindConflict
    <2>4. Others(t) /\ Light(proc'[t])
      BY <1>2, <2>2, <2>3, Fields, LightSteps
    <2>5. proc[t].pc # "after"
      BY <1>5 DEF SyncFindConflict
    <2> QED BY <1>1, <1>3, <2>4, <2>5, LightKnows, ReadsKeep
  <1>6. CASE InsertFails(t) \/ WalkinReadOccupant(t)
    <2>1. Finish(t) \/ Goto(t, "walkNext")
      BY <1>6 DEF InsertFails, WalkinReadOccupant
    <2>2. Others(t) /\ Light(proc'[t])
      BY <2>1, Fields, LightSteps
    <2>3. proc[t].pc # "after"
      BY <1>6 DEF InsertFails, WalkinReadOccupant
    <2> QED BY <1>1, <1>3, <2>2, <2>3, LightKnows, ReadsKeep
  <1>7. CASE WalkinReadNext(t)
    <2>1. \/ Goto(t, "walkin")
          \/ \E p : Become(t, p) /\ p.pc = "walkin" /\ p.mqtt = proc[t].mqtt
      <3>1. CASE Goto(t, "walkin")
        BY <3>1
      <3>2. ASSUME NEW known, NEW slots,
                   Become(t, [proc[t] EXCEPT !.pc = "walkin", !.seen = known, !.slots = slots])
            PROVE  \E p : Become(t, p) /\ p.pc = "walkin" /\ p.mqtt = proc[t].mqtt
        <4>1. PICK p : p = [proc[t] EXCEPT !.pc = "walkin", !.seen = known, !.slots = slots]
          OBVIOUS
        <4>2. p.pc = "walkin" /\ p.mqtt = proc[t].mqtt
          BY <1>0, <4>1 DEF ProcRecord
        <4> QED BY <3>2, <4>1, <4>2
      <3> QED BY <1>7, <3>1, <3>2 DEF WalkinReadNext
    <2>2. Others(t) /\ Light(proc'[t])
      BY <1>2, <2>1, Fields, LightSteps
    <2>3. proc[t].pc # "after"
      BY <1>7 DEF WalkinReadNext
    <2> QED BY <1>1, <1>3, <2>2, <2>3, LightKnows, ReadsKeep
  <1>8. CASE ReadOccupant(t) \/ RestoreReadReservation(t)
    <2>1. Finish(t) \/ \E d, state : ThenEmit(t, d, state) /\ state # "OCCUPIED"
      <3>1. CASE ReadOccupant(t)
        BY <3>1, FreeLeds DEF ReadOccupant
      <3>2. CASE RestoreReadReservation(t)
        <4>1. PICK state : ThenEmit(t, proc[t].desk, IF state = "FREE" THEN "FREE" ELSE "RESERVED")
          BY <3>2 DEF RestoreReadReservation
        <4> QED BY <4>1
      <3> QED BY <1>8, <3>1, <3>2
    <2>2. Others(t) /\ Light(proc'[t])
      BY <2>1, Fields, LightSteps
    <2>3. proc[t].pc # "after"
      BY <1>8 DEF ReadOccupant, RestoreReadReservation
    <2> QED BY <1>1, <1>3, <2>2, <2>3, LightKnows, ReadsKeep
  <1>9. CASE CheckoutReadLed(t)
    <2>1. PICK state \in DeskLedAfterFree(proc[t].desk) : ThenEmit(t, proc[t].desk, state)
      BY <1>9 DEF CheckoutReadLed
    <2>2. Others(t) /\ Light(proc'[t])
      BY <2>1, Fields, LightSteps, FreeLeds
    <2>3. \A d : Turns(proc[t], d) => Turns(proc'[t], d)
      <3>1. /\ proc'[t].pc = "emit" /\ proc'[t].led = state /\ proc'[t].desk = proc[t].desk
            /\ state # "OCCUPIED"
        BY <2>1, EmitFields, FreeLeds
      <3> QED BY <3>1 DEF Turns
    <2> QED BY <1>1, <2>2, <2>3, LightKnows, ReadsKeep
  <1> QED BY <1>4, <1>5, <1>6, <1>7, <1>8, <1>9

\* An open check-in makes its desk occupied.
LEMMA OpenOccupies == \A r \in Ids : Open(r) => Excused(checkins[r].desk)
  BY DEF Excused, DeskOccupied

\* The scan of a guest who is checked in, and a beacon that comes back.
LEMMA OccupantReads ==
  ASSUME TypeInv, RedInv, OneAtATime', ~({"manual", "nfc"} \subseteq Ops), NEW t \in Threads,
         ReadCheckin(t) \/ RestoreReadCheckin(t)
  PROVE  RedInv'
  <1>0. /\ proc[t] \in GoodProc /\ Knows(proc[t]) /\ proc[t] \in ProcRecord
        /\ (proc[t].mqtt = TRUE => "nfc" \in Ops)
    BY Fields DEF TypeInv, ProcsGood, RedInv, Knows
  <1>1. /\ UNCHANGED <<tables, led, jobs>>
        /\ proc[t].pc \in {"existing", "restoreCheckin"}
    BY DEF ReadCheckin, RestoreReadCheckin
  <1>2. \A d : ~Turns(proc[t], d)
    BY <1>1 DEF Turns
  <1>3. CASE ReadCheckin(t)
    <2>1. proc[t].pc = "existing" /\ proc[t].res \in Ids /\ OwnDesk(proc[t])
      BY <1>0, <1>3 DEF ReadCheckin, GoodProc, Ready, Knows
    <2>2. CASE Open(proc[t].res) /\ proc[t].mqtt
      <3>1. ThenEmit(t, proc[t].desk, "OCCUPIED")
        BY <1>3, <2>2 DEF ReadCheckin, AnswerScan
      <3>2. "manual" \notin Ops
        BY <1>0, <2>2
      <3>3. checkins[proc[t].res].desk = proc[t].desk
        BY <2>1, <2>2, <3>2 DEF RedInv, Filed, OwnDesk, Open
      <3>4. Excused(proc[t].desk)
        BY <2>1, <2>2, <3>3, OpenOccupies
      <3>5. /\ Others(t) /\ proc'[t].pc = "emit" /\ proc'[t].desk = proc[t].desk
            /\ proc'[t].mqtt = proc[t].mqtt
        BY <3>1, Fields
      <3>6. Knows(proc'[t])
        BY <1>0, <3>4, <3>5 DEF Knows
      <3> QED BY <1>1, <1>2, <3>5, <3>6, ReadsKeep
    <2>3. CASE Open(proc[t].res) /\ ~proc[t].mqtt
      <3>1. Finish(t)
        BY <1>3, <2>3 DEF ReadCheckin, AnswerScan
      <3> QED BY <1>1, <1>2, <3>1, Fields, LightSteps, LightKnows, ReadsKeep
    <2>4. CASE ~Open(proc[t].res)
      <3>1. Goto(t, "checkin")
        BY <1>3, <2>4 DEF ReadCheckin
      <3>2. /\ Others(t) /\ proc'[t].pc = "checkin" /\ proc'[t].desk = proc[t].desk
            /\ proc'[t].res = proc[t].res /\ proc'[t].op = proc[t].op
            /\ proc'[t].mqtt = proc[t].mqtt
        BY <3>1, Fields
      <3>3. Knows(proc'[t])
        BY <1>0, <2>1, <3>2 DEF Knows, OwnDesk
      <3> QED BY <1>1, <1>2, <3>2, <3>3, ReadsKeep
    <2> QED BY <2>2, <2>3, <2>4
  <1>4. CASE RestoreReadCheckin(t)
    <2>1. CASE DeskOccupied(proc[t].desk)
      <3>1. ThenEmit(t, proc[t].desk, "OCCUPIED")
        BY <1>4, <2>1 DEF RestoreReadCheckin
      <3>2. /\ Others(t) /\ proc'[t].pc = "emit" /\ proc'[t].desk = proc[t].desk
            /\ proc'[t].mqtt = proc[t].mqtt
        BY <3>1, Fields
      <3>3. Knows(proc'[t])
        BY <1>0, <2>1, <3>2 DEF Knows, Excused
      <3> QED BY <1>1, <1>2, <3>2, <3>3, ReadsKeep
    <2>2. CASE ~DeskOccupied(proc[t].desk)
      <3>1. Goto(t, "restoreReservation")
        BY <1>4, <2>2 DEF RestoreReadCheckin
      <3> QED BY <1>1, <1>2, <3>1, Fields, LightSteps, LightKnows, ReadsKeep
    <2> QED BY <2>1, <2>2
  <1> QED BY <1>3, <1>4

\* A write of thread t that knows nothing afterwards.
LEMMA WritesKeep ==
  ASSUME TypeInv, RedInv, OneAtATime', NEW t \in Threads, Others(t), UNCHANGED <<jobs, led>>,
         proc[t].pc # "idle" \/ proc'[t].pc # "idle", Knows(proc[t])', Filed',
         \A d \in Desks : Excused(d) \/ Turns(proc[t], d) => Excused(d)' \/ Turns(proc'[t], d)
  PROVE  RedInv'
  <1>1. OneAtATime
    BY DEF RedInv
  <1>2. /\ \A x \in Threads \ {t} : proc[x].pc = "idle"
        /\ \A j \in JobNames : jobs[j].pc = "idle"
    BY <1>1, ThreadsAlone
  <1> QED BY <1>2, HandlerKeeps

\* What a step that deletes no desk does to the reasons a desk is red for.
LEMMA ReasonsMove ==
  ASSUME TypeInv, RowsInv, ServeStep
  PROVE  /\ \A r \in Ids : Exists(r) => Exists(r)' /\ reservations'[r].desk = reservations[r].desk
         /\ \A d \in Desks : Misfiled(d) => Misfiled(d)'
         /\ \A d \in Desks : Excused(d) =>
              Excused(d)' \/ \E r \in Ids : Open(r) /\ Left(r)' /\ checkins[r].desk = d
         /\ (/\ Filed
             /\ "manual" \notin Ops =>
                  \A r \in Ids : (checkins[r] = NoRow /\ checkins'[r] # NoRow) =>
                    checkins'[r].desk = reservations'[r].desk) => Filed'
  <1>1. ASSUME NEW r \in Ids
        PROVE  /\ Exists(r) => Exists(r)' /\ reservations'[r].desk = reservations[r].desk
               /\ checkins[r] # NoRow => (Exists(r)' => Exists(r))
               /\ checkins[r] # NoRow =>
                    /\ checkins'[r] # NoRow /\ checkins'[r].desk = checkins[r].desk
                    /\ checkins'[r] = checkins[r] \/ Left(r)'
    <2>1. StatusMove(r) /\ PresenceMove(r)
      BY DEF ServeStep, RowsMove
    <2>2. Exists(r) \/ checkins[r] # NoRow => version[r] # 0
      BY DEF RowsInv, UsedIds, CheckinsUsed
    <2>3. Exists(r) => Exists(r)' /\ reservations'[r].desk = reservations[r].desk
      BY <2>1, <2>2 DEF StatusMove
    <2>4. checkins[r] # NoRow => (Exists(r)' => Exists(r))
      BY <2>1, <2>2 DEF StatusMove
    <2>5. checkins[r] # NoRow =>
            /\ checkins'[r] # NoRow /\ checkins'[r].desk = checkins[r].desk
            /\ checkins'[r] = checkins[r] \/ Left(r)'
      BY <2>1 DEF PresenceMove, Left
    <2> QED BY <2>3, <2>4, <2>5
  <1>2. ASSUME NEW d \in Desks, Misfiled(d) PROVE Misfiled(d)'
    <2>1. PICK r \in Ids : /\ checkins[r] # NoRow /\ checkins[r].desk = d
                           /\ Exists(r) => reservations[r].desk # d
      BY <1>2 DEF Misfiled
    <2> QED BY <1>1, <2>1 DEF Misfiled
  <1>3. ASSUME NEW d \in Desks, Excused(d)
        PROVE  Excused(d)' \/ \E r \in Ids : Open(r) /\ Left(r)' /\ checkins[r].desk = d
    <2>1. CASE DeskOccupied(d)
      <3>1. PICK r \in Ids : Open(r) /\ checkins[r].desk = d
        BY <2>1 DEF DeskOccupied
      <3>2. CASE checkins'[r] = checkins[r]
        BY <3>1, <3>2 DEF Excused, DeskOccupied, Open
      <3>3. CASE Left(r)'
        BY <3>1, <3>3
      <3> QED BY <1>1, <3>1, <3>2, <3>3 DEF Open
    <2>2. CASE deskStatus[d] = "DELETED"
      BY <2>2 DEF ServeStep, DesksKept, Excused
    <2> QED BY <1>2, <1>3, <2>1, <2>2 DEF Excused
  <1>4. ASSUME Filed,
               "manual" \notin Ops =>
                 \A r \in Ids : (checkins[r] = NoRow /\ checkins'[r] # NoRow) =>
                   checkins'[r].desk = reservations'[r].desk
        PROVE  Filed'
    BY <1>1, <1>4 DEF Filed
  <1> QED BY <1>1, <1>2, <1>3, <1>4

\* Bookings that come, move and go without a check-in: nothing turns red or
\* free of guests.
LEMMA BookingWrites ==
  ASSUME TypeInv, RowsInv, ServeStep, RedInv, OneAtATime', NEW t \in Threads,
         \/ InsertReservation(t) \/ MoveReservation(t) \/ CancelReservation(t)
         \/ StartHardDelete(t) \/ UpdateDesk(t)
  PROVE  RedInv'
  <1>0. /\ proc[t] \in ProcRecord /\ Ready(proc[t]) /\ Knows(proc[t])
        /\ (proc[t].mqtt = TRUE => "nfc" \in Ops)
    BY Carried DEF TypeInv, RedInv, Knows
  <1>1. /\ UNCHANGED <<checkins, jobs, led>>
        /\ proc[t].pc \in {"idle", "insert", "move", "cancel"}
    BY DEF InsertReservation, MoveReservation, CancelReservation, StartHardDelete, UpdateDesk, Begin
  <1>2. Filed'
    BY <1>1, ReasonsMove DEF RedInv
  <1>3. \A d \in Desks : Excused(d) => Excused(d)'
    BY <1>1, ReasonsMove DEF Open, Left
  <1>4. \A d : ~Turns(proc[t], d)
    BY <1>1 DEF Turns
  <1>5. ASSUME Light(proc'[t]), Others(t), proc[t].pc # "idle" \/ proc'[t].pc # "idle"
        PROVE  RedInv'
    <2>1. Knows(proc[t])'
      BY <1>5 DEF Light, Knows
    <2> QED BY <1>1, <1>2, <1>3, <1>4, <1>5, <2>1, WritesKeep
  <1>6. CASE InsertReservation(t)
    <2>1. PICK p : p = [proc[t] EXCEPT !.pc = "visible", !.seen = {}]
      OBVIOUS
    <2>2. p.pc = "visible" /\ p.mqtt = proc[t].mqtt
      BY <1>0, <2>1 DEF ProcRecord
    <2>3. NextSlot(t) \/ Finish(t) \/ Become(t, p)
      BY <1>6, <2>1 DEF InsertReservation
    <2>4. Become(t, p) => Others(t) /\ Light(proc'[t])
      BY <1>0, <2>2, Fields DEF Light
    <2>5. proc[t].pc # "idle"
      BY <1>6 DEF InsertReservation
    <2> QED BY <1>5, <2>3, <2>4, <2>5, NextSlotLight, Fields, LightSteps
  <1>7. CASE MoveReservation(t)
    <2>1. Finish(t) /\ proc[t].pc # "idle"
      BY <1>7 DEF MoveReservation
    <2> QED BY <1>5, <2>1, Fields, LightSteps
  <1>8. CASE CancelReservation(t)
    <2>1. proc[t].pc = "cancel" /\ proc[t].res \in Ids
      BY <1>0, <1>8 DEF CancelReservation, Ready
    <2>2. CASE Finish(t)
      BY <1>5, <2>1, <2>2, Fields, LightSteps
    <2>3. CASE Goto(t, "close")
      <3>1. /\ Others(t) /\ proc'[t].pc = "close" /\ proc'[t].desk = proc[t].desk
            /\ proc'[t].res = proc[t].res /\ proc'[t].mqtt = proc[t].mqtt
        BY <2>3, Fields
      <3>2. OwnDesk(proc[t])
        BY <1>0, <2>1 DEF Knows
      <3>3. OwnDesk(proc[t])'
        BY <2>1, <3>1, <3>2, ReasonsMove DEF OwnDesk
      <3>4. Knows(proc[t])'
        BY <1>0, <3>1, <3>3 DEF Knows
      <3> QED BY <1>1, <1>2, <1>3, <1>4, <2>1, <3>1, <3>4, WritesKeep
    <2> QED BY <1>8, <2>2, <2>3 DEF CancelReservation
  <1>9. CASE StartHardDelete(t) \/ UpdateDesk(t)
    <2>1. PICK p : Begin(t, p) /\ p.pc \in {"deleteClose", "emit"} /\ p.led # "OCCUPIED"
                   /\ p.mqtt = FALSE
      <3>1. CASE StartHardDelete(t)
        <4>1. PICK d \in Desks : Begin(t, [Idle EXCEPT !.op = "hardDelete",
                                                       !.pc = "deleteClose", !.desk = d])
          BY <3>1 DEF StartHardDelete
        <4>2. PICK p : p = [Idle EXCEPT !.op = "hardDelete", !.pc = "deleteClose", !.desk = d]
          OBVIOUS
        <4>3. p.pc = "deleteClose" /\ p.led = "FREE" /\ p.mqtt = FALSE
          BY <4>2 DEF Idle
        <4> QED BY <4>1, <4>2, <4>3
      <3>2. CASE UpdateDesk(t)
        <4>1. PICK d \in Desks, status \in {"MAINTENANCE", "ACTIVE"} :
                Begin(t, [Idle EXCEPT !.op = "desk", !.pc = "emit", !.desk = d,
                            !.led = IF status = "ACTIVE" THEN "FREE" ELSE "ERROR"])
          BY <3>2 DEF UpdateDesk
        <4>2. PICK p : p = [Idle EXCEPT !.op = "desk", !.pc = "emit", !.desk = d,
                              !.led = IF status = "ACTIVE" THEN "FREE" ELSE "ERROR"]
          OBVIOUS
        <4>3. p.pc = "emit" /\ p.led # "OCCUPIED" /\ p.mqtt = FALSE
          BY <4>2 DEF Idle
        <4> QED BY <4>1, <4>2, <4>3
      <3> QED BY <1>9, <3>1, <3>2
    <2>2. Others(t) /\ proc'[t] = p
      BY <2>1, Fields
    <2> QED BY <1>5, <2>1, <2>2 DEF Light
  <1> QED BY <1>6, <1>7, <1>8, <1>9

\* Check-ins that are closed, all at desks whose LED is about to turn.
LEMMA CheckinsClosed ==
  ASSUME TypeInv, RowsInv, ServeStep, RedInv, OneAtATime', NEW t \in Threads,
         CloseCancelledCheckin(t) \/ Checkout(t) \/ DeleteCloseCheckins(t)
  PROVE  RedInv'
  <1>0. /\ proc[t] \in ProcRecord /\ Ready(proc[t]) /\ Knows(proc[t])
        /\ (proc[t].mqtt = TRUE => "nfc" \in Ops)
        /\ checkins \in [Ids -> CheckinRow \cup {NoRow}]
    BY Carried DEF TypeInv, TypeOK, RedInv, Knows
  <1>1. /\ UNCHANGED <<jobs, led>> /\ proc[t].pc \in {"close", "checkout", "deleteClose"}
    BY DEF CloseCancelledCheckin, Checkout, DeleteCloseCheckins
  <1>2. \A r \in Ids : checkins[r] = NoRow => checkins'[r] = NoRow
    <2>1. CASE DeleteCloseCheckins(t)
      BY <2>1 DEF DeleteCloseCheckins, Open
    <2>2. CASE CloseCancelledCheckin(t)
      BY <1>0, <2>2 DEF CloseCancelledCheckin, Open, Ready
    <2>3. CASE Checkout(t)
      BY <1>0, <2>3 DEF Checkout, Ready
    <2> QED BY <2>1, <2>2, <2>3
  <1>3. Filed'
    BY <1>2, ReasonsMove DEF RedInv
  <1>4. \A d : ~Turns(proc[t], d)
    BY <1>1 DEF Turns
  <1>5. CASE CloseCancelledCheckin(t)
    <2>1. ThenEmit(t, proc[t].desk, "FREE") /\ OwnDesk(proc[t]) /\ proc[t].res \in Ids
      BY <1>0, <1>5 DEF CloseCancelledCheckin, Knows, Ready
    <2>2. /\ Others(t) /\ proc'[t].pc = "emit" /\ proc'[t].desk = proc[t].desk
          /\ proc'[t].led = "FREE" /\ proc'[t].mqtt = proc[t].mqtt
      BY <2>1, EmitFields
    <2>3. Knows(proc[t])'
      BY <1>0, <2>2 DEF Knows
    <2>4. ASSUME NEW d \in Desks, Excused(d) PROVE Excused(d)' \/ Turns(proc'[t], d)
      <3>1. CASE d = proc[t].desk
        BY <2>2, <3>1 DEF Turns
      <3>2. CASE d # proc[t].desk
        <4>1. SUFFICES ASSUME NEW r \in Ids, Open(r), Left(r)', checkins[r].desk = d
                       PROVE  Excused(d)'
          BY <2>4, ReasonsMove
        <4>2. r = proc[t].res
          BY <1>0, <1>5, <4>1 DEF CloseCancelledCheckin, Open, Left
        <4>3. Misfiled(d)
          BY <2>1, <3>2, <4>1, <4>2 DEF Misfiled, OwnDesk, Open
        <4> QED BY <4>3, ReasonsMove DEF Excused
      <3> QED BY <3>1, <3>2
    <2> QED BY <1>1, <1>3, <1>4, <2>2, <2>3, <2>4, WritesKeep
  <1>6. CASE Checkout(t)
    <2>1. proc[t].res \in Ids /\ proc[t].pc = "checkout"
      BY <1>0, <1>6 DEF Checkout, Ready
    <2>2. CASE Exists(proc[t].res) /\ checkins[proc[t].res] # NoRow
      <3>1. Goto(t, "after") /\ checkins' = [checkins EXCEPT ![proc[t].res].out = TRUE]
        BY <1>6, <2>2 DEF Checkout
      <3>2. /\ Others(t) /\ proc'[t].pc = "after" /\ proc'[t].desk = proc[t].desk
            /\ proc'[t].mqtt = proc[t].mqtt
        BY <3>1, Fields
      <3>3. checkins[proc[t].res].desk = proc[t].desk
        BY <1>0, <2>1, <2>2 DEF Knows
      <3>4. Knows(proc[t])'
        BY <1>0, <3>2 DEF Knows
      <3>5. ASSUME NEW d \in Desks, Excused(d) PROVE Excused(d)' \/ Turns(proc'[t], d)
        <4>1. SUFFICES ASSUME NEW r \in Ids, Open(r), Left(r)', checkins[r].desk = d
                       PROVE  Turns(proc'[t], d)
          BY <3>5, ReasonsMove
        <4>2. r = proc[t].res
          BY <1>0, <3>1, <4>1 DEF Open, Left
        <4> QED BY <3>2, <3>3, <4>1, <4>2 DEF Turns
      <3> QED BY <1>1, <1>3, <1>4, <3>2, <3>4, <3>5, WritesKeep
    <2>3. CASE ~(Exists(proc[t].res) /\ checkins[proc[t].res] # NoRow)
      <3>1. Finish(t) /\ checkins' = checkins
        BY <1>6, <2>3 DEF Checkout
      <3>2. Others(t) /\ Light(proc'[t])
        BY <3>1, Fields, LightSteps
      <3>3. Knows(proc[t])'
        BY <3>2 DEF Light, Knows
      <3>4. \A d \in Desks : Excused(d) => Excused(d)'
        BY <3>1, ReasonsMove DEF Open, Left
      <3> QED BY <1>1, <1>3, <1>4, <3>2, <3>3, <3>4, WritesKeep
    <2> QED BY <2>2, <2>3
  <1>7. CASE DeleteCloseCheckins(t)
    <2>1. Goto(t, "delete")
      BY <1>7 DEF DeleteCloseCheckins
    <2>2. /\ Others(t) /\ proc'[t].pc = "delete" /\ proc'[t].desk = proc[t].desk
          /\ proc'[t].mqtt = proc[t].mqtt
      BY <2>1, Fields
    <2>3. Knows(proc[t])'
      BY <1>0, <2>2 DEF Knows
    <2>4. ASSUME NEW d \in Desks, Excused(d) PROVE Excused(d)' \/ Turns(proc'[t], d)
      <3>1. SUFFICES ASSUME NEW r \in Ids, Open(r), Left(r)', checkins[r].desk = d
                     PROVE  Turns(proc'[t], d)
        BY <2>4, ReasonsMove
      <3>2. checkins[r].desk = proc[t].desk
        BY <1>7, <3>1 DEF DeleteCloseCheckins, Open, Left
      <3> QED BY <2>2, <3>1, <3>2 DEF Turns
    <2> QED BY <1>1, <1>3, <1>4, <2>2, <2>3, <2>4, WritesKeep
  <1> QED BY <1>5, <1>6, <1>7

\* A check-in that is opened makes its desk red for a reason.
LEMMA CheckinsOpened ==
  ASSUME TypeInv, RowsInv, ServeStep, RedInv, OneAtATime', NEW t \in Threads,
         CreateCheckin(t) \/ CreateWalkin(t)
  PROVE  RedInv'
  <1>0. /\ proc[t] \in ProcRecord /\ Ready(proc[t]) /\ Knows(proc[t])
        /\ (proc[t].mqtt = TRUE => "nfc" \in Ops)
        /\ checkins \in [Ids -> CheckinRow \cup {NoRow}]
        /\ reservations \in [Ids -> ReservationRow \cup {NoRow}]
    BY Carried DEF TypeInv, TypeOK, RedInv, Knows
  <1>1. UNCHANGED <<jobs, led>> /\ proc[t].pc \in {"checkin", "walkin"}
    BY DEF CreateCheckin, CreateWalkin
  <1>2. \A d : ~Turns(proc[t], d)
    BY <1>1 DEF Turns
  <1>3. ASSUME NEW r \in Ids, \A x \in Ids \ {r} : checkins'[x] = checkins[x],
               checkins[r] = NoRow, checkins'[r] = [desk |-> proc[t].desk, out |-> FALSE],
               "manual" \notin Ops => reservations'[r].desk = proc[t].desk,
               ThenEmit(t, proc[t].desk, "OCCUPIED")
        PROVE  RedInv'
    <2>1. checkins'[r].desk = proc[t].desk /\ checkins'[r].out = FALSE /\ checkins'[r] # NoRow
      BY <1>3 DEF NoRow
    <2>2. /\ Others(t) /\ proc'[t].pc = "emit" /\ proc'[t].desk = proc[t].desk
          /\ proc'[t].mqtt = proc[t].mqtt
      BY <1>3, EmitFields
    <2>3. Excused(proc[t].desk)'
      <3>1. Open(r)' /\ checkins'[r].desk = proc[t].desk
        BY <2>1 DEF Open
      <3> QED BY <2>2, <3>1 DEF Excused, DeskOccupied
    <2>4. Knows(proc[t])'
      BY <1>0, <2>2, <2>3 DEF Knows
    <2>5. Filed'
      BY <1>3, <2>1, ReasonsMove DEF RedInv
    <2>6. \A d \in Desks : Excused(d) => Excused(d)'
      BY <1>3, ReasonsMove DEF Open, Left
    <2> QED BY <1>1, <1>2, <2>2, <2>4, <2>5, <2>6, WritesKeep
  <1>4. CASE CreateCheckin(t)
    <2>1. proc[t].res \in Ids /\ proc[t].pc = "checkin"
      BY <1>0, <1>4 DEF CreateCheckin, Ready
    <2>2. CASE /\ checkins[proc[t].res] = NoRow /\ Exists(proc[t].res)
               /\ deskStatus[proc[t].desk] # "DELETED"
      <3>1. PICK r \in Ids : r = proc[t].res
        BY <2>1
      <3>2. /\ checkins' = [checkins EXCEPT ![r] = [desk |-> proc[t].desk, out |-> FALSE]]
            /\ ThenEmit(t, proc[t].desk, "OCCUPIED") /\ reservations' = reservations
        BY <1>4, <2>2, <3>1 DEF CreateCheckin
      <3>3. "manual" \notin Ops => reservations[r].desk = proc[t].desk
        BY <1>0, <2>1, <3>1 DEF Knows, OwnDesk
      <3> QED BY <1>0, <1>3, <2>2, <3>1, <3>2, <3>3
    <2>3. CASE ~(/\ checkins[proc[t].res] = NoRow /\ Exists(proc[t].res)
                 /\ deskStatus[proc[t].desk] # "DELETED")
      <3>1. checkins' = checkins /\ (ThenEmit(t, proc[t].desk, "ERROR") \/ Finish(t))
        BY <1>4, <2>3 DEF CreateCheckin, AnswerScan
      <3>2. Others(t) /\ Light(proc'[t])
        BY <3>1, Fields, EmitFields, LightSteps
      <3>3. Knows(proc[t])'
        BY <3>2 DEF Light, Knows
      <3>4. Filed' /\ \A d \in Desks : Excused(d) => Excused(d)'
        BY <3>1, ReasonsMove DEF RedInv, Open, Left
      <3> QED BY <1>1, <1>2, <3>2, <3>3, <3>4, WritesKeep
    <2> QED BY <2>2, <2>3
  <1>5. CASE CreateWalkin(t)
    <2>1. PICK r \in Ids :
            /\ InsertRow(r, proc[t].desk, proc[t].user, Head(proc[t].slots), "STANDARD",
                         proc[t].seen)
            /\ checkins' = [checkins EXCEPT ![r] = [desk |-> proc[t].desk, out |-> FALSE]]
      BY <1>5 DEF CreateWalkin
    <2>2. checkins[r] = NoRow /\ reservations'[r].desk = proc[t].desk
      BY <1>0, <2>1 DEF InsertRow, RowsInv, CheckinsUsed
    <2>3. ThenEmit(t, proc[t].desk, "OCCUPIED")
      BY <1>5 DEF CreateWalkin
    <2> QED BY <1>0, <1>3, <2>1, <2>2, <2>3
  <1> QED BY <1>4, <1>5

\* The desk is gone; what pointed at it from other desks still does.
LEMMA DeskGone ==
  ASSUME TypeInv, RowsInv, RedInv, OneAtATime', NEW t \in Threads, DeleteDesk(t)
  PROVE  RedInv'
  <1>0. /\ proc[t] \in ProcRecord /\ Ready(proc[t])
        /\ deskStatus \in [Desks -> DeskStatuses]
    BY Carried DEF TypeInv, TypeOK
  <1>1. /\ UNCHANGED <<jobs, led>> /\ proc[t].pc = "delete" /\ Finish(t)
    BY DEF DeleteDesk
  <1>2. PICK d \in Desks : d = proc[t].desk
    BY <1>0, <1>1 DEF Ready
  <1>3. /\ deskStatus'[d] = "DELETED" /\ \A e \in Desks \ {d} : deskStatus'[e] = deskStatus[e]
        /\ \A r \in Ids :
             /\ reservations'[r] = IF Exists(r) /\ reservations[r].desk = d
                                   THEN NoRow ELSE reservations[r]
             /\ checkins'[r] = IF checkins[r] # NoRow /\ checkins[r].desk = d
                               THEN NoRow ELSE checkins[r]
    BY <1>0, <1>2 DEF DeleteDesk
  <1>4. Others(t) /\ Light(proc'[t])
    BY <1>1, Fields, LightSteps
  <1>5. Knows(proc[t])'
    BY <1>4 DEF Light, Knows
  <1>6. Filed'
    BY <1>3 DEF RedInv, Filed, Exists
  <1>7. ASSUME NEW e \in Desks, Excused(e) \/ Turns(proc[t], e) PROVE Excused(e)'
    <2>1. CASE e = d
      BY <1>3, <2>1 DEF Excused
    <2>2. CASE e # d /\ DeskOccupied(e)
      <3>1. PICK r \in Ids : Open(r) /\ checkins[r].desk = e
        BY <2>2 DEF DeskOccupied
      <3>2. checkins'[r] = checkins[r]
        BY <1>3, <2>2, <3>1
      <3> QED BY <3>1, <3>2 DEF Excused, DeskOccupied, Open
    <2>3. CASE e # d /\ Misfiled(e)
      <3>1. PICK r \in Ids : /\ checkins[r] # NoRow /\ checkins[r].desk = e
                             /\ Exists(r) => reservations[r].desk # e
        BY <2>3 DEF Misfiled
      <3>2. checkins'[r] = checkins[r] /\ (Exists(r)' => Exists(r) /\ reservations'[r] = reservations[r])
        BY <1>3, <2>3, <3>1 DEF Exists
      <3> QED BY <3>1, <3>2 DEF Excused, Misfiled
    <2>4. CASE e # d /\ deskStatus[e] = "DELETED"
      BY <1>3, <2>4 DEF Excused
    <2>5. Turns(proc[t], e) => e = d
      BY <1>2 DEF Turns
    <2> QED BY <1>7, <2>1, <2>2, <2>3, <2>4, <2>5 DEF Excused
  <1> QED BY <1>1, <1>4, <1>5, <1>6, <1>7, WritesKeep

\* The one statement that may come while a request or a job is under way.
LEMMA StatusSet ==
  ASSUME TypeInv, RowsInv, ServeStep, RedInv, OneAtATime', NEW t \in Threads, SetDeskStatus(t)
  PROVE  RedInv'
  <1>1. UNCHANGED <<reservations, checkins, jobs, led>> /\ Begin(t, Idle) /\ proc[t].pc = "idle"
    BY DEF SetDeskStatus, Begin
  <1>2. Others(t) /\ proc'[t] = Idle
    BY <1>1, Fields
  <1>3. Filed' /\ \A d \in Desks : Excused(d) => Excused(d)'
    BY <1>1, ReasonsMove DEF RedInv, Open, Left
  <1>4. ASSUME NEW x \in Threads PROVE Knows(proc[x])'
    <2>1. CASE x = t
      BY <1>2, <2>1 DEF Knows, Idle
    <2>2. CASE x # t
      <3>1. Knows(proc[x]) /\ proc'[x] = proc[x] /\ Ready(proc[x])
        BY <1>2, <2>2, Carried DEF RedInv, Others, TypeInv
      <3>2. (proc[x].pc = "emit" /\ proc[x].led = "OCCUPIED") => Excused(proc[x].desk)'
        BY <1>3, <3>1 DEF Knows, Ready
      <3> QED BY <1>1, <3>1, <3>2 DEF Knows, OwnDesk, Exists
    <2> QED BY <2>1, <2>2
  <1>5. JobKnows'
    BY <1>1 DEF RedInv, JobKnows
  <1>6. ASSUME NEW d \in Desks, led'[d] = "OCCUPIED"
        PROVE  \/ Excused(d)' \/ JobTurns(jobs'["autoCheckout"], d)
               \/ \E x \in Threads : Turns(proc'[x], d)
    <2>1. ~Turns(proc[t], d)
      BY <1>1 DEF Turns
    <2>2. \A x \in Threads \ {t} : proc'[x] = proc[x]
      BY <1>2 DEF Others
    <2> QED BY <1>1, <1>3, <1>6, <2>1, <2>2 DEF RedInv
  <1> QED BY <1>3, <1>4, <1>5, <1>6 DEF RedInv, Turns, JobTurns

\* An LED event: a red one has its reason, another one turns its desk.
LEMMA EmitKeeps ==
  ASSUME TypeInv, RedInv, OneAtATime', NEW t \in Threads, Emit(t)
  PROVE  RedInv'
  <1>0. /\ proc[t] \in ProcRecord /\ Ready(proc[t]) /\ Knows(proc[t])
        /\ led \in [Desks -> LedStates]
    BY Carried DEF TypeInv, TypeOK, RedInv
  <1>1. /\ UNCHANGED <<deskStatus, reservations, checkins, jobs>> /\ proc[t].pc = "emit"
        /\ led' = [led EXCEPT ![proc[t].desk] = proc[t].led]
        /\ Goto(t, "restoreCheckin") \/ Finish(t)
    BY DEF Emit, tables
  <1>2. Others(t) /\ Light(proc'[t])
    BY <1>1, Fields, LightSteps
  <1>3. /\ \A x \in Threads \ {t} : proc[x].pc = "idle"
        /\ \A j \in JobNames : jobs[j].pc = "idle"
    BY <1>1, <1>2, ThreadsAlone DEF RedInv
  <1>4. Filed'
    BY <1>1 DEF RedInv, Filed, Exists
  <1>5. ASSUME NEW x \in Threads PROVE Knows(proc[x])'
    <2>1. CASE x = t
      BY <1>2, <2>1 DEF Light, Knows
    <2>2. CASE x # t
      <3>1. proc'[x] = proc[x] /\ proc[x].pc = "idle" /\ Knows(proc[x])
        BY <1>2, <1>3, <2>2 DEF Others, RedInv
      <3> QED BY <3>1 DEF Knows
    <2> QED BY <2>1, <2>2
  <1>6. jobs["autoCheckout"].pc = "idle"
    BY <1>3 DEF JobNames
  <1>7. JobKnows'
    BY <1>1, <1>6 DEF RedInv, JobKnows
  <1>8. ASSUME NEW d \in Desks, led'[d] = "OCCUPIED" PROVE Excused(d)'
    <2>1. Excused(d)
      <3>1. CASE d = proc[t].desk
        BY <1>0, <1>1, <1>8, <3>1 DEF Knows
      <3>2. CASE d # proc[t].desk
        <4>1. led[d] = "OCCUPIED"
          BY <1>0, <1>1, <1>8, <3>2
        <4>2. \A x \in Threads : ~Turns(proc[x], d)
          BY <1>3, <3>2 DEF Turns
        <4> QED BY <1>6, <4>1, <4>2 DEF RedInv, JobTurns
      <3> QED BY <3>1, <3>2
    <2> QED BY <1>1, <2>1 DEF Excused, DeskOccupied, Misfiled, Open, Exists
  <1> QED BY <1>4, <1>5, <1>7, <1>8 DEF RedInv

\* A step of job k while nothing else runs.
LEMMA JobKeeps ==
  ASSUME TypeInv, RowsInv, ServeStep, RedInv, OneAtATime', NEW k \in JobNames, NEW rec,
         UNCHANGED proc, jobs' = [jobs EXCEPT ![k] = rec],
         jobs[k].pc # "idle" \/ rec.pc # "idle",
         \A r \in Ids : checkins[r] = NoRow => checkins'[r] = NoRow,
         \A d \in Desks : rec.leds[d] # "OCCUPIED",
         (k = "autoCheckout" /\ rec.pc = "update") =>
           \A r \in rec.ids : checkins'[r] # NoRow => checkins'[r].desk \in rec.desks,
         \A d \in Desks : led'[d] = "OCCUPIED" => led[d] = "OCCUPIED",
         \A d \in Desks :
           (/\ led'[d] = "OCCUPIED"
            /\ Excused(d) \/ (k = "autoCheckout" /\ JobTurns(jobs[k], d)))
           => Excused(d)' \/ (k = "autoCheckout" /\ JobTurns(rec, d))
  PROVE  RedInv'
  <1>1. jobs \in [JobNames -> JobRecord] /\ OneAtATime
    BY DEF TypeInv, TypeOK, RedInv
  <1>2. jobs'[k] = rec /\ \A j \in JobNames \ {k} : jobs'[j] = jobs[j]
    BY <1>1
  <1>3. /\ \A x \in Threads : proc[x].pc = "idle"
        /\ \A j \in JobNames \ {k} : jobs[j].pc = "idle"
    BY <1>1, <1>2 DEF OneAtATime
  <1>4. Filed'
    BY ReasonsMove DEF RedInv
  <1>5. \A x \in Threads : Knows(proc[x])'
    BY <1>3 DEF RedInv, Knows
  <1>6. "autoCheckout" \in JobNames
    BY DEF JobNames
  <1>7. JobKnows'
    <2>1. \A j \in JobNames, d \in Desks : jobs'[j].leds[d] # "OCCUPIED"
      BY <1>2 DEF RedInv, JobKnows
    <2>2. CASE k = "autoCheckout"
      BY <1>2, <2>1, <2>2 DEF JobKnows
    <2>3. CASE k # "autoCheckout"
      BY <1>2, <1>3, <1>6, <2>1, <2>3 DEF JobKnows
    <2> QED BY <2>2, <2>3
  <1>8. ASSUME NEW d \in Desks, led'[d] = "OCCUPIED"
        PROVE  Excused(d)' \/ JobTurns(jobs'["autoCheckout"], d)
    <2>1. \A x \in Threads : ~Turns(proc[x], d)
      BY <1>3 DEF Turns
    <2>2. Excused(d) \/ JobTurns(jobs["autoCheckout"], d)
      BY <1>8, <2>1 DEF RedInv
    <2>3. CASE k = "autoCheckout"
      BY <1>2, <1>8, <2>2, <2>3
    <2>4. CASE k # "autoCheckout"
      <3>1. ~JobTurns(jobs["autoCheckout"], d)
        BY <1>3, <1>6, <2>4 DEF JobTurns
      <3> QED BY <1>8, <2>2, <2>4, <3>1
    <2> QED BY <2>3, <2>4
  <1> QED BY <1>4, <1>5, <1>7, <1>8 DEF RedInv, JobTurns

\* The jobs that close no check-in: their LEDs are free or of a reservation.
LEMMA BookingJobs ==
  ASSUME TypeInv, RowsInv, ServeStep, RedInv, OneAtATime', ExpireOld \/ AutoReserved
  PROVE  RedInv'
  <1>1. /\ UNCHANGED <<proc, deskStatus, checkins>>
        /\ jobs \in [JobNames -> JobRecord]
        /\ \A j \in JobNames, d \in Desks : jobs[j].leds[d] # "OCCUPIED"
    BY DEF ExpireOld, ExpireOldRead, ExpireOldUpdate, ExpireOldEmit, AutoReserved,
           AutoReservedRead, AutoReservedReadCheckins, AutoReservedEmit, tables,
           TypeInv, TypeOK, RedInv, JobKnows
  <1>2. \A d \in Desks : Excused(d) => Excused(d)'
    BY <1>1, ReasonsMove DEF Open, Left
  <1>3. \A d \in Desks : led'[d] = "OCCUPIED" => led[d] = "OCCUPIED"
    BY <1>1 DEF ExpireOld, ExpireOldRead, ExpireOldUpdate, ExpireOldEmit, AutoReserved,
                AutoReservedRead, AutoReservedReadCheckins, AutoReservedEmit, EmitAll, JobNames
  <1>4. ASSUME NEW k \in JobNames \ {"autoCheckout"}, NEW rec, Job(k, rec),
               \A d \in Desks : rec.leds[d] # "OCCUPIED",
               jobs[k].pc # "idle" \/ rec.pc # "idle"
        PROVE  RedInv'
    BY <1>1, <1>2, <1>3, <1>4, JobKeeps DEF Job
  <1>5. CASE ExpireOld
    <2>1. PICK rec : /\ Job("expireOld", rec) /\ \A d \in Desks : rec.leds[d] # "OCCUPIED"
                     /\ jobs["expireOld"].pc # "idle" \/ rec.pc # "idle"
      <3>1. CASE ExpireOldRead
        <4>1. PICK leds \in [Desks -> {"FREE", "none"}], old \in SUBSET Ids :
                Job("expireOld", [IdleJob EXCEPT !.pc = "update", !.ids = old, !.leds = leds])
          BY <3>1 DEF ExpireOldRead
        <4>2. PICK rec : rec = [IdleJob EXCEPT !.pc = "update", !.ids = old, !.leds = leds]
          OBVIOUS
        <4>3. rec.pc = "update" /\ rec.leds = leds
          BY <4>2 DEF IdleJob
        <4> QED BY <4>1, <4>2, <4>3
      <3>2. CASE ExpireOldUpdate
        <4>1. PICK rec : rec = [jobs["expireOld"] EXCEPT !.pc = "emit"]
          OBVIOUS
        <4>2. rec.leds = jobs["expireOld"].leds
          BY <1>1, <4>1 DEF JobRecord, JobNames
        <4> QED BY <1>1, <3>2, <4>1, <4>2 DEF ExpireOldUpdate, JobNames
      <3>3. CASE ExpireOldEmit
        BY <3>3 DEF ExpireOldEmit, IdleJob, NoLeds
      <3> QED BY <1>5, <3>1, <3>2, <3>3 DEF ExpireOld
    <2> QED BY <1>4, <2>1 DEF JobNames
  <1>6. CASE AutoReserved
    <2>1. PICK rec : /\ Job("autoReservedLed", rec) /\ \A d \in Desks : rec.leds[d] # "OCCUPIED"
                     /\ jobs["autoReservedLed"].pc # "idle" \/ rec.pc # "idle"
      <3>1. CASE AutoReservedRead
        <4>1. PICK leds \in [Desks -> {"RESERVED", "GUEST_RESERVED", "none"}] :
                Job("autoReservedLed", [IdleJob EXCEPT !.pc = "active", !.leds = leds])
          BY <3>1 DEF AutoReservedRead
        <4>2. PICK rec : rec = [IdleJob EXCEPT !.pc = "active", !.leds = leds]
          OBVIOUS
        <4>3. rec.pc = "active" /\ rec.leds = leds
          BY <4>2 DEF IdleJob
        <4> QED BY <4>1, <4>2, <4>3
      <3>2. CASE AutoReservedReadCheckins
        <4>1. PICK rec : rec = [jobs["autoReservedLed"] EXCEPT !.pc = "emit",
                                  !.leds = [d \in Desks |-> IF DeskOccupied(d) THEN "none"
                                              ELSE jobs["autoReservedLed"].leds[d]]]
          OBVIOUS
        <4>2. rec.leds = [d \in Desks |-> IF DeskOccupied(d) THEN "none"
                                          ELSE jobs["autoReservedLed"].leds[d]]
          BY <1>1, <4>1 DEF JobRecord, JobNames
        <4>3. \A d \in Desks : rec.leds[d] # "OCCUPIED"
          BY <1>1, <4>2 DEF JobNames
        <4>4. jobs["autoReservedLed"].pc = "active" /\ Job("autoReservedLed", rec)
          BY <3>2, <4>1 DEF AutoReservedReadCheckins
        <4> QED BY <4>3, <4>4
      <3>3. CASE AutoReservedEmit
        BY <3>3 DEF AutoReservedEmit, IdleJob, NoLeds
      <3> QED BY <1>6, <3>1, <3>2, <3>3 DEF AutoReserved
    <2> QED BY <1>4, <2>1 DEF JobNames
  <1> QED BY <1>5, <1>6

\* autoCheckout turns the LED of every desk it closes a check-in at.
LEMMA CheckoutJob ==
  ASSUME TypeInv, RowsInv, ServeStep, RedInv, OneAtATime', AutoCheckout
  PROVE  RedInv'
  <1> DEFINE job == jobs["autoCheckout"]
  <1>1. /\ UNCHANGED <<proc, deskStatus>> /\ job \in JobRecord
        /\ \A d \in Desks : job.leds[d] # "OCCUPIED"
        /\ "autoCheckout" \in JobNames
        /\ checkins \in [Ids -> CheckinRow \cup {NoRow}]
    BY DEF AutoCheckout, AutoCheckoutRead, AutoCheckoutUpdate, AutoCheckoutReadLed,
           AutoCheckoutEmit, tables, TypeInv, TypeOK, RedInv, JobKnows, JobNames
  <1> HIDE DEF job
  <1>2. ASSUME NEW rec, Job("autoCheckout", rec), job.pc # "idle" \/ rec.pc # "idle",
               \A r \in Ids : checkins[r] = NoRow => checkins'[r] = NoRow,
               \A d \in Desks : rec.leds[d] # "OCCUPIED",
               rec.pc = "update" =>
                 \A r \in rec.ids : checkins'[r] # NoRow => checkins'[r].desk \in rec.desks,
               \A d \in Desks : led'[d] = "OCCUPIED" => led[d] = "OCCUPIED",
               \A d \in Desks : (led'[d] = "OCCUPIED" /\ (Excused(d) \/ JobTurns(job, d)))
                                  => Excused(d)' \/ JobTurns(rec, d)
        PROVE  RedInv'
    BY <1>1, <1>2, JobKeeps DEF Job, job
  <1>3. ASSUME UNCHANGED checkins PROVE \A d \in Desks : Excused(d) => Excused(d)'
    BY <1>3, ReasonsMove DEF Open, Left
  <1>4. CASE AutoCheckoutRead
    <2>1. PICK ids, desks :
            /\ Job("autoCheckout", [IdleJob EXCEPT !.pc = "update", !.ids = ids, !.desks = desks])
            /\ \A r \in ids : checkins[r].desk \in desks
      <3>1. PICK stale \in SUBSET {r \in Ids : Open(r) /\ ~Exists(r)} :
              Job("autoCheckout",
                  [IdleJob EXCEPT !.pc = "update",
                     !.ids = {r \in Ids : Open(r) /\ Ended(r)} \cup stale,
                     !.desks = {checkins[r].desk :
                                  r \in {r \in Ids : Open(r) /\ Ended(r)} \cup stale}])
        BY <1>4 DEF AutoCheckoutRead
      <3>2. PICK ids : ids = {r \in Ids : Open(r) /\ Ended(r)} \cup stale
        OBVIOUS
      <3>3. PICK desks : desks = {checkins[r].desk : r \in ids}
        OBVIOUS
      <3>4. \A r \in ids : checkins[r].desk \in desks
        BY <3>3
      <3>5. Job("autoCheckout", [IdleJob EXCEPT !.pc = "update", !.ids = ids, !.desks = desks])
        BY <3>1, <3>2, <3>3
      <3> QED BY <3>4, <3>5
    <2>2. PICK rec : rec = [IdleJob EXCEPT !.pc = "update", !.ids = ids, !.desks = desks]
      OBVIOUS
    <2>3. rec.pc = "update" /\ rec.ids = ids /\ rec.desks = desks /\ rec.leds = NoLeds
      BY <2>2 DEF IdleJob
    <2>4. UNCHANGED <<checkins, led>> /\ job.pc = "idle" /\ Job("autoCheckout", rec)
      BY <1>4, <2>1, <2>2 DEF AutoCheckoutRead, tables, job
    <2>5. \A d \in Desks : rec.leds[d] # "OCCUPIED" /\ ~JobTurns(job, d)
      BY <2>3, <2>4 DEF NoLeds, JobTurns
    <2> QED BY <1>2, <1>3, <2>1, <2>3, <2>4, <2>5
  <1>5. CASE AutoCheckoutUpdate
    <2>1. PICK rec : rec = [job EXCEPT !.pc = "after"]
      OBVIOUS
    <2>2. rec.pc = "after" /\ rec.desks = job.desks /\ rec.leds = job.leds
      BY <1>1, <2>1 DEF JobRecord
    <2>3. /\ job.pc = "update" /\ Job("autoCheckout", rec) /\ led' = led
          /\ \A r \in Ids : checkins'[r] = IF r \in job.ids /\ checkins[r] # NoRow
                                           THEN [checkins[r] EXCEPT !.out = TRUE]
                                           ELSE checkins[r]
      BY <1>5, <2>1 DEF AutoCheckoutUpdate, job
    <2>4. \A r \in Ids : checkins[r] = NoRow => checkins'[r] = NoRow
      BY <2>3
    <2>5. ASSUME NEW d \in Desks, Excused(d) \/ JobTurns(job, d)
          PROVE  Excused(d)' \/ JobTurns(rec, d)
      <3>1. CASE JobTurns(job, d)
        BY <2>3, <3>1 DEF JobTurns
      <3>2. CASE Excused(d)
        <4>1. SUFFICES ASSUME NEW r \in Ids, Open(r), Left(r)', checkins[r].desk = d
                       PROVE  JobTurns(rec, d)
          BY <3>2, ReasonsMove
        <4>2. r \in job.ids
          BY <2>3, <4>1 DEF Open, Left
        <4>3. d \in job.desks
          BY <2>3, <4>1, <4>2 DEF RedInv, JobKnows, Open, job
        <4> QED BY <2>2, <4>3 DEF JobTurns
      <3> QED BY <2>5, <3>1, <3>2
    <2> QED BY <1>1, <1>2, <2>2, <2>3, <2>4, <2>5
  <1>6. CASE AutoCheckoutReadLed
    <2>1. PICK d \in job.desks, state \in LedStates :
            /\ state \in DeskLedAfterFree(d)
            /\ Job("autoCheckout", [job EXCEPT !.pc = "emit",
                     !.leds = [NoLeds EXCEPT ![d] = state], !.desks = @ \ {d}])
      BY <1>6 DEF AutoCheckoutReadLed, job
    <2>2. PICK rec : rec = [job EXCEPT !.pc = "emit",
                              !.leds = [NoLeds EXCEPT ![d] = state], !.desks = @ \ {d}]
      OBVIOUS
    <2>3. /\ rec.pc = "emit" /\ rec.desks = job.desks \ {d}
          /\ rec.leds = [NoLeds EXCEPT ![d] = state]
      BY <1>1, <2>2 DEF JobRecord
    <2>4. /\ UNCHANGED <<checkins, led>> /\ job.pc = "after"
      BY <1>6 DEF AutoCheckoutReadLed, tables, job
    <2>5. state # "OCCUPIED" /\ state # "none" /\ d \in Desks
      BY <1>1, <2>1, FreeLeds DEF JobRecord
    <2>6. \A e \in Desks : rec.leds[e] # "OCCUPIED"
      BY <2>3, <2>5 DEF NoLeds
    <2>7. ASSUME NEW e \in Desks, JobTurns(job, e) PROVE JobTurns(rec, e)
      <3>1. e \in job.desks
        BY <2>4, <2>7 DEF JobTurns
      <3>2. rec.leds[d] # "none"
        BY <2>3, <2>5 DEF NoLeds
      <3> QED BY <2>3, <3>1, <3>2 DEF JobTurns
    <2> QED BY <1>2, <1>3, <2>1, <2>2, <2>3, <2>4, <2>6, <2>7
  <1>7. CASE AutoCheckoutEmit
    <2>1. /\ UNCHANGED checkins /\ job.pc = "emit"
          /\ \A d \in Desks : led'[d] = IF job.leds[d] = "none" THEN led[d] ELSE job.leds[d]
      BY <1>7 DEF AutoCheckoutEmit, EmitAll, tables, job
    <2>2. \A d \in Desks : led'[d] = "OCCUPIED" => led[d] = "OCCUPIED" /\ job.leds[d] = "none"
      BY <1>1, <2>1
    <2>3. CASE job.desks = {}
      <3>1. Job("autoCheckout", IdleJob)
        BY <1>7, <2>3 DEF AutoCheckoutEmit, job
      <3>2. /\ IdleJob.pc = "idle" /\ \A d \in Desks : IdleJob.leds[d] # "OCCUPIED"
        BY DEF IdleJob, NoLeds
      <3>3. \A d \in Desks : led'[d] = "OCCUPIED" => ~JobTurns(job, d)
        BY <2>2, <2>3 DEF JobTurns
      <3> QED BY <1>2, <1>3, <2>1, <2>2, <3>1, <3>2, <3>3
    <2>4. CASE job.desks # {}
      <3>1. PICK rec : rec = [job EXCEPT !.pc = "after", !.leds = NoLeds]
        OBVIOUS
      <3>2. rec.pc = "after" /\ rec.desks = job.desks /\ rec.leds = NoLeds
        BY <1>1, <3>1 DEF JobRecord
      <3>3. Job("autoCheckout", rec)
        BY <1>7, <2>4, <3>1 DEF AutoCheckoutEmit, job
      <3>4. \A d \in Desks : rec.leds[d] # "OCCUPIED"
        BY <3>2 DEF NoLeds
      <3>5. \A d \in Desks : led'[d] = "OCCUPIED" /\ JobTurns(job, d) => JobTurns(rec, d)
        BY <2>1, <2>2, <3>2 DEF JobTurns
      <3> QED BY <1>2, <1>3, <2>1, <2>2, <3>2, <3>3, <3>4, <3>5
    <2> QED BY <2>3, <2>4
  <1> QED BY <1>4, <1>5, <1>6, <1>7 DEF AutoCheckout

-----------------------------------------------------------------------------
LEMMA StepRed ==
  ASSUME TypeInv, RowsInv, RedInv, ~({"manual", "nfc"} \subseteq Ops), [SerialNext]_vars
  PROVE  RedInv'
  <1>1. CASE UNCHANGED vars
    BY <1>1 DEF vars, RedInv, OneAtATime, Filed, JobKnows, Knows, OwnDesk, Excused, Turns,
                JobTurns, DeskOccupied, Misfiled, Open, Exists
  <1> SUFFICES ASSUME SerialNext PROVE RedInv'
    BY <1>1
  <1>2. Next /\ OneAtATime' /\ (Quiescent \/ UNCHANGED crashes)
    BY DEF SerialNext
  <1>3. ServeStep \/ \E t \in Threads : DeleteDesk(t)
    BY <1>2, StepServes
  <1>4. CASE ServeStep
    <2>1. ASSUME NEW t \in Threads, Handle(t) PROVE RedInv'
      <3>1. CASE Start(t)
        BY <1>2, <1>4, <3>1, BookingStarts, RowStarts, LedStarts, BookingWrites, StatusSet
           DEF Start
      <3>2. CASE Continue(t)
        BY <1>2, <1>4, <3>2, ReadsGoOn, OccupantReads, BookingWrites, CheckinsClosed,
           CheckinsOpened, EmitKeeps, DeskGone DEF Continue
      <3> QED BY <2>1, <3>1, <3>2 DEF Handle
    <2>2. CASE ExpireOld \/ AutoReserved
      BY <1>2, <1>4, <2>2, BookingJobs
    <2>3. CASE AutoCheckout
      BY <1>2, <1>4, <2>3, CheckoutJob
    <2>4. CASE Tick
      BY <2>4 DEF Tick, tables, RedInv, OneAtATime, Filed, JobKnows, Knows, OwnDesk, Excused,
                  Turns, JobTurns, DeskOccupied, Misfiled, Open, Exists
    <2>5. CASE Crash
      <3>1. Quiescent /\ UNCHANGED <<tables, led>>
        BY <1>2, <2>5 DEF Crash, TypeInv, TypeOK
      <3>2. /\ \A t \in Threads : proc'[t] = Idle
            /\ \A j \in JobNames : jobs'[j] = IdleJob
        BY <2>5 DEF Crash
      <3>3. \A t \in Threads : Knows(proc[t])'
        BY <3>2 DEF Knows, Idle
      <3>4. Filed' /\ JobKnows'
        BY <3>1, <3>2 DEF RedInv, Filed, JobKnows, Exists, tables, IdleJob, NoLeds, JobNames
      <3>5. ASSUME NEW d \in Desks, led'[d] = "OCCUPIED" PROVE Excused(d)'
        <4>1. /\ \A t \in Threads : ~Turns(proc[t], d)
              /\ ~JobTurns(jobs["autoCheckout"], d)
          BY <3>1 DEF Quiescent, Turns, JobTurns, JobNames
        <4> QED BY <3>1, <3>5, <4>1 DEF RedInv, tables, Excused, DeskOccupied, Misfiled, Open,
                                        Exists
      <3> QED BY <1>2, <3>3, <3>4, <3>5 DEF RedInv
    <2> QED BY <1>2, <2>1, <2>2, <2>3, <2>4, <2>5 DEF Next
  <1> QED BY <1>2, <1>3, <1>4, DeskGone

LEMMA InitRed == Init => RedInv
  <1> SUFFICES ASSUME Init PROVE RedInv
    OBVIOUS
  <1>1. \A t \in Threads : proc[t].pc = "idle" /\ Knows(proc[t])
    BY DEF Init, Idle, Knows
  <1>2. \A j \in JobNames : jobs[j].pc = "idle" /\ jobs[j].leds = NoLeds
    BY DEF Init, IdleJob
  <1>3. OneAtATime /\ Filed /\ JobKnows
    BY <1>1, <1>2 DEF OneAtATime, Filed, JobKnows, NoLeds, JobNames, Init, Exists
  <1>4. \A d \in Desks : led[d] # "OCCUPIED"
    BY DEF Init
  <1> QED BY <1>1, <1>3, <1>4 DEF RedInv

(***************************************************************************)
(* No desk stays red after its guest left: with requests and jobs one at a *)
(* time, whatever closes the last check-in of a desk turns its LED.  The   *)
(* two operations cannot both be there because the property is false with  *)
(* both: a scan at a desk answers with red for the guest of its            *)
(* reservation, wherever the staff checked that guest in.                  *)
(***************************************************************************)
THEOREM RedHasItsGuest ==
  ASSUME ~({"manual", "nfc"} \subseteq Ops)
  PROVE  SerialSpec => []RedMeansOccupied
  <1>1. RedInv => RedMeansOccupied
    BY DEF RedInv, RedMeansOccupied, Quiescent, Turns, JobTurns, JobNames, Excused
  <1>2. TypeInv /\ RowsInv /\ RedInv /\ [SerialNext]_vars => RedInv'
    BY StepRed
  <1>3. [SerialNext]_vars => [Next]_vars
    BY DEF SerialNext
  <1>4. SerialSpec => Spec
    BY <1>3, PTL DEF SerialSpec, Spec
  <1> QED BY <1>1, <1>2, <1>4, InitRed, TypeCorrect, RowsCorrect, PTL DEF SerialSpec

=============================================================================
