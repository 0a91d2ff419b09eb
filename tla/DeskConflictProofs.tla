------------------------- MODULE DeskConflictProofs -------------------------
(***************************************************************************)
(* SeenBookingsNeverClash, for every value of the constants.               *)
(*                                                                         *)
(* A conflict check and the write it allows are two statements with any    *)
(* number of other steps between them, so the invariant follows what the   *)
(* check saw: a pair <<x, v>> is the v-th version of the slot of x.  While *)
(* that version is the present one and x is active, its slot is still the  *)
(* one the check compared, since a row changes slot only with its version  *)
(* and never becomes active again.                                         *)
(***************************************************************************)
EXTENDS DeskBookingProofs

\* Only versions that exist were seen.
Past(S) == \A x \in Ids, v \in Nat : <<x, v>> \in S => v # 0 /\ v <= version[x]

UsedIds  == \A r \in Ids : Exists(r) => version[r] # 0
SeenPast == \A y \in Ids : Past(seen[y])
ProcPast == \A t \in Threads : Past(proc[t].seen)

\* The check of a request that is about to write still holds of what it saw.
Checked(p) ==
  p.pc \in {"insert", "walkin", "move"} =>
    \A x \in Ids : /\ <<x, version[x]>> \in p.seen
                   /\ Active(x)
                   /\ reservations[x].desk = p.desk
                   /\ p.pc = "move" => x # p.res
                   /\ p.pc # "move" => reservations[x].slot.date = Head(p.slots).date
                   => ~Overlap(reservations[x].slot, Head(p.slots))

\* A reservation that is being moved is at the desk that is checked.
Moving(p) ==
  p.pc \in {"syncConflict", "move"} =>
    /\ version[p.res] # 0
    /\ Exists(p.res) => reservations[p.res].desk = p.desk

\* A walk-in has seen nothing before it looks for the next reservation.
Fresh(p) == p.pc \in {"walkActive", "walkNext"} => p.seen = {}

ProcChecked == \A t \in Threads : Checked(proc[t]) /\ Moving(proc[t]) /\ Fresh(proc[t])

ConflictInv ==
  /\ UsedIds
  /\ SeenPast
  /\ ProcPast
  /\ ProcChecked
  /\ SeenBookingsNeverClash

-----------------------------------------------------------------------------
(***************************************************************************)
(* Most steps only settle or remove rows, and take their request nowhere   *)
(* the invariant speaks of.                                                *)
(***************************************************************************)
Special == {"insert", "walkin", "move", "syncConflict", "walkActive", "walkNext"}

RowsSettle ==
  \A r \in Ids : reservations'[r] # NoRow =>
    /\ reservations[r] # NoRow
    /\ reservations'[r].desk = reservations[r].desk
    /\ reservations'[r].slot = reservations[r].slot
    /\ reservations'[r].status = "CONFIRMED" => reservations[r].status = "CONFIRMED"

QuietProcs ==
  \A u \in Threads : \/ proc'[u] = proc[u]
                     \/ proc'[u].pc \notin Special /\ proc'[u].seen \subseteq proc[u].seen

Quiet == RowsSettle /\ QuietProcs /\ UNCHANGED history

LEMMA QuietStep ==
  ASSUME TypeInv, ConflictInv, Quiet
  PROVE  ConflictInv'
<1>1. version' = version /\ seen' = seen
  BY DEF Quiet, history
<1>2. UsedIds'
  BY <1>1 DEF ConflictInv, UsedIds, Quiet, RowsSettle, Exists
<1>3. SeenPast' /\ ProcPast'
  BY <1>1 DEF ConflictInv, SeenPast, ProcPast, Past, Quiet, QuietProcs
<1>4. \A x \in Ids : Active(x)' => /\ Active(x)
                                   /\ reservations'[x].desk = reservations[x].desk
                                   /\ reservations'[x].slot = reservations[x].slot
  BY DEF Quiet, RowsSettle, Active, Exists
<1>5. ProcChecked'
  <2> SUFFICES ASSUME NEW u \in Threads
               PROVE  Checked(proc[u])' /\ Moving(proc[u])' /\ Fresh(proc[u])'
    BY DEF ProcChecked
  <2>1. CASE proc'[u] = proc[u]
    <3>1. Checked(proc[u]) /\ Moving(proc[u]) /\ Fresh(proc[u])
      BY DEF ConflictInv, ProcChecked
    <3>2. Checked(proc[u])'
      BY <1>1, <1>4, <2>1, <3>1 DEF Checked
    <3>3. Moving(proc[u])'
      <4>1. CASE proc[u].pc \in {"syncConflict", "move"}
        <5>1. proc[u].res \in Ids
          BY <4>1, Carried DEF TypeInv, Ready
        <5>2. QED BY <1>1, <2>1, <3>1, <5>1 DEF Moving, Quiet, RowsSettle, Exists
      <4>2. QED BY <2>1, <4>1 DEF Moving
    <3>4. QED BY <2>1, <3>1, <3>2, <3>3 DEF Fresh
  <2>2. CASE proc'[u].pc \notin Special
    BY <2>2 DEF Special, Checked, Moving, Fresh
  <2>3. QED BY <2>1, <2>2 DEF Quiet, QuietProcs
<1>6. SeenBookingsNeverClash'
  BY <1>1, <1>4 DEF ConflictInv, SeenBookingsNeverClash, Clash, SameDate
<1>7. QED BY <1>2, <1>3, <1>5, <1>6 DEF ConflictInv

LEMMA QuietRows ==
  ASSUME UNCHANGED reservations
  PROVE  RowsSettle
  BY DEF RowsSettle

LEMMA QuietBegin ==
  ASSUME ProcsGood, NEW t \in Threads, NEW p, Begin(t, p), p.pc \notin Special, p.seen = {}
  PROVE  QuietProcs
  BY DEF ProcsGood, Begin, QuietProcs

LEMMA QuietBecome ==
  ASSUME ProcsGood, NEW t \in Threads, NEW p, Become(t, p), p.pc \notin Special,
         p.seen \subseteq proc[t].seen
  PROVE  QuietProcs
  BY DEF ProcsGood, Become, QuietProcs

LEMMA QuietFinish ==
  ASSUME ProcsGood, NEW t \in Threads, Finish(t)
  PROVE  QuietProcs
<1>1. Idle.pc \notin Special /\ Idle.seen = {}
  BY DEF Idle, Special
<1>2. QED BY <1>1, QuietBecome DEF Finish

LEMMA QuietGoto ==
  ASSUME ProcsGood, NEW t \in Threads, NEW pc, Goto(t, pc), pc \notin Special
  PROVE  QuietProcs
<1>1. /\ [proc[t] EXCEPT !.pc = pc].pc = pc
      /\ [proc[t] EXCEPT !.pc = pc].seen = proc[t].seen
  BY Carried DEF ProcRecord
<1>2. QED BY <1>1, QuietBecome DEF Goto

LEMMA QuietEmit ==
  ASSUME ProcsGood, NEW t \in Threads, NEW d, NEW state, ThenEmit(t, d, state)
  PROVE  QuietProcs
<1> DEFINE p == [proc[t] EXCEPT !.pc = "emit", !.desk = d, !.led = state]
<1>1. p.pc \notin Special /\ p.seen = proc[t].seen
  BY Carried DEF ProcRecord, Special
<1>2. QED BY <1>1, QuietBecome DEF ThenEmit

LEMMA QuietNextSlot ==
  ASSUME ProcsGood, NEW t \in Threads, NextSlot(t)
  PROVE  QuietProcs
<1> DEFINE p == [proc[t] EXCEPT !.pc = "conflict", !.slots = Tail(@), !.seen = {}]
<1>1. p.pc \notin Special /\ p.seen = {}
  BY Carried DEF ProcRecord, Special
<1>2. QED BY <1>1, QuietBecome, QuietFinish DEF NextSlot

-----------------------------------------------------------------------------
(***************************************************************************)
(* The quiet steps.                                                        *)
(***************************************************************************)
LEMMA QuietStarts ==
  ASSUME TypeInv, NEW t \in Threads,
         \/ StartCreate(t) \/ StartRecurring(t) \/ StartTeams(t) \/ StartCancel(t)
         \/ StartCheckin(t) \/ StartManual(t) \/ RejectScan(t) \/ StartCheckout(t)
         \/ StartRestore(t) \/ UpdateDesk(t) \/ SetDeskStatus(t)
  PROVE  Quiet
<1> DEFINE Begun == \E p : Begin(t, p) /\ p.pc \notin Special /\ p.seen = {}
<1>1. Begun => QuietProcs
  BY QuietBegin DEF TypeInv
<1>2. CASE StartCreate(t)
  <2>1. PICK d \in Desks, u \in Users, slot \in Slots, type \in Types :
          Begin(t, [Idle EXCEPT !.op = "create", !.pc = "conflict", !.desk = d,
                                !.user = u, !.slots = <<slot>>, !.type = type])
    BY <1>2 DEF StartCreate
  <2> DEFINE p == [Idle EXCEPT !.op = "create", !.pc = "conflict", !.desk = d,
                               !.user = u, !.slots = <<slot>>, !.type = type]
  <2>2. p.pc \notin Special /\ p.seen = {}
    BY DEF Idle, Special
  <2>3. QED BY <1>1, <1>2, <2>1, <2>2, QuietRows DEF StartCreate, Quiet, tables
<1>3. CASE StartRecurring(t)
  <2>1. PICK d \in Desks, u \in Users, slots \in Series, type \in Types :
          Begin(t, [Idle EXCEPT !.op = "recurring", !.pc = "conflict", !.desk = d,
                                !.user = u, !.slots = slots, !.type = type])
    BY <1>3 DEF StartRecurring
  <2> DEFINE p == [Idle EXCEPT !.op = "recurring", !.pc = "conflict", !.desk = d,
                               !.user = u, !.slots = slots, !.type = type]
  <2>2. p.pc \notin Special /\ p.seen = {}
    BY DEF Idle, Special
  <2>3. QED BY <1>1, <1>3, <2>1, <2>2, QuietRows DEF StartRecurring, Quiet, tables
<1>4. CASE StartTeams(t)
  <2>1. PICK d \in Desks, u \in Users, slot \in Slots :
          Begin(t, [Idle EXCEPT !.op = "teams", !.pc = "conflict", !.desk = d,
                                !.user = u, !.slots = <<slot>>])
    BY <1>4 DEF StartTeams
  <2> DEFINE p == [Idle EXCEPT !.op = "teams", !.pc = "conflict", !.desk = d,
                               !.user = u, !.slots = <<slot>>]
  <2>2. p.pc \notin Special /\ p.seen = {}
    BY DEF Idle, Special
  <2>3. QED BY <1>1, <1>4, <2>1, <2>2, QuietRows DEF StartTeams, Quiet, tables
<1>5. CASE StartCancel(t)
  <2>1. PICK r \in Ids, op \in {"cancel", "teamsCancel", "graphDelete"} :
          Begin(t, [Idle EXCEPT !.op = op, !.pc = "cancel", !.res = r,
                                !.desk = reservations[r].desk])
    BY <1>5 DEF StartCancel
  <2> DEFINE p == [Idle EXCEPT !.op = op, !.pc = "cancel", !.res = r,
                               !.desk = reservations[r].desk]
  <2>2. p.pc \notin Special /\ p.seen = {}
    BY DEF Idle, Special
  <2>3. QED BY <1>1, <1>5, <2>1, <2>2, QuietRows DEF StartCancel, Quiet, tables
<1>6. CASE StartCheckin(t)
  <2>1. PICK r \in Ids, op \in {"nfc", "qr", "web"}, viaMqtt \in BOOLEAN :
          Begin(t, [Idle EXCEPT !.op = op, !.pc = "existing", !.res = r, !.mqtt = viaMqtt,
                                !.desk = reservations[r].desk])
    BY <1>6 DEF StartCheckin
  <2> DEFINE p == [Idle EXCEPT !.op = op, !.pc = "existing", !.res = r, !.mqtt = viaMqtt,
                               !.desk = reservations[r].desk]
  <2>2. p.pc \notin Special /\ p.seen = {}
    BY DEF Idle, Special
  <2>3. QED BY <1>1, <1>6, <2>1, <2>2, QuietRows DEF StartCheckin, Quiet, tables
<1>7. CASE StartManual(t)
  <2>1. PICK r \in Ids, d \in Desks :
          Begin(t, [Idle EXCEPT !.op = "manual", !.pc = "checkin", !.res = r, !.desk = d])
    BY <1>7 DEF StartManual
  <2> DEFINE p == [Idle EXCEPT !.op = "manual", !.pc = "checkin", !.res = r, !.desk = d]
  <2>2. p.pc \notin Special /\ p.seen = {}
    BY DEF Idle, Special
  <2>3. QED BY <1>1, <1>7, <2>1, <2>2, QuietRows DEF StartManual, Quiet, tables
<1>8. CASE RejectScan(t)
  <2>1. PICK d \in Desks : Begin(t, [Idle EXCEPT !.op = "nfc", !.pc = "emit", !.desk = d,
                                                 !.mqtt = TRUE, !.led = "ERROR"])
    BY <1>8 DEF RejectScan
  <2> DEFINE p == [Idle EXCEPT !.op = "nfc", !.pc = "emit", !.desk = d,
                               !.mqtt = TRUE, !.led = "ERROR"]
  <2>2. p.pc \notin Special /\ p.seen = {}
    BY DEF Idle, Special
  <2>3. QED BY <1>1, <1>8, <2>1, <2>2, QuietRows DEF RejectScan, Quiet, tables
<1>9. CASE StartCheckout(t)
  <2>1. PICK r \in Ids :
          Begin(t, [Idle EXCEPT !.op = "checkout", !.pc = "checkout", !.res = r,
                                !.desk = checkins[r].desk])
    BY <1>9 DEF StartCheckout
  <2> DEFINE p == [Idle EXCEPT !.op = "checkout", !.pc = "checkout", !.res = r,
                               !.desk = checkins[r].desk]
  <2>2. p.pc \notin Special /\ p.seen = {}
    BY DEF Idle, Special
  <2>3. QED BY <1>1, <1>9, <2>1, <2>2, QuietRows DEF StartCheckout, Quiet, tables
<1>10. CASE StartRestore(t)
  <2>1. PICK d \in Desks :
          Begin(t, [Idle EXCEPT !.op = "restore", !.pc = "restoreCheckin", !.desk = d])
    BY <1>10 DEF StartRestore
  <2> DEFINE p == [Idle EXCEPT !.op = "restore", !.pc = "restoreCheckin", !.desk = d]
  <2>2. p.pc \notin Special /\ p.seen = {}
    BY DEF Idle, Special
  <2>3. QED BY <1>1, <1>10, <2>1, <2>2, QuietRows DEF StartRestore, Quiet, tables
<1>11. CASE UpdateDesk(t)
  <2>1. PICK d \in Desks, status \in {"MAINTENANCE", "ACTIVE"} :
          Begin(t, [Idle EXCEPT !.op = "desk", !.pc = "emit", !.desk = d,
                      !.led = IF status = "ACTIVE" THEN "FREE" ELSE "ERROR"])
    BY <1>11 DEF UpdateDesk
  <2> DEFINE p == [Idle EXCEPT !.op = "desk", !.pc = "emit", !.desk = d,
                     !.led = IF status = "ACTIVE" THEN "FREE" ELSE "ERROR"]
  <2>2. p.pc \notin Special /\ p.seen = {}
    BY DEF Idle, Special
  <2>3. QED BY <1>1, <1>11, <2>1, <2>2, QuietRows DEF UpdateDesk, Quiet
<1>12. CASE SetDeskStatus(t)
  <2>1. Idle.pc \notin Special /\ Idle.seen = {}
    BY DEF Idle, Special
  <2>2. QED BY <1>1, <1>12, <2>1, QuietRows DEF SetDeskStatus, Quiet
<1>13. QED BY <1>2, <1>3, <1>4, <1>5, <1>6, <1>7, <1>8, <1>9, <1>10, <1>11, <1>12

\* Writing a status other than CONFIRMED settles a row.
LEMMA SettleRows ==
  ASSUME RestOK, NEW S, NEW status, status # "CONFIRMED", \A r \in Ids \cap S : Exists(r),
         reservations' = [r \in Ids |-> IF r \in S
                                        THEN [reservations[r] EXCEPT !.status = status]
                                        ELSE reservations[r]]
  PROVE  RowsSettle
<1> SUFFICES ASSUME NEW r \in Ids, r \in S
             PROVE  /\ reservations[r] # NoRow
                    /\ reservations'[r].desk = reservations[r].desk
                    /\ reservations'[r].slot = reservations[r].slot
                    /\ reservations'[r].status = status
  BY DEF RowsSettle
<1>1. Exists(r) /\ reservations[r] \in ReservationRow
  BY RowGood
<1>2. QED BY <1>1 DEF Exists, ReservationRow

LEMMA SettleRow ==
  ASSUME RestOK, NEW r \in Ids, Exists(r), NEW status, status # "CONFIRMED",
         SetStatus(r, status)
  PROVE  RowsSettle
<1>1. reservations' = [x \in Ids |-> IF x \in {r}
                                     THEN [reservations[x] EXCEPT !.status = status]
                                     ELSE reservations[x]]
  BY DEF SetStatus, RestOK
<1>2. \A x \in Ids \cap {r} : Exists(x)
  OBVIOUS
<1> DEFINE S == {r}
<1> HIDE DEF S
<1>3. QED BY <1>1, <1>2, SettleRows DEF S

LEMMA QuietHardDelete ==
  ASSUME TypeInv, NEW t \in Threads, StartHardDelete(t)
  PROVE  Quiet
<1>1. PICK d \in Desks :
        /\ reservations' = [r \in Ids |-> IF Active(r) /\ reservations[r].desk = d
                                          THEN [reservations[r] EXCEPT !.status = "CANCELLED"]
                                          ELSE reservations[r]]
        /\ Begin(t, [Idle EXCEPT !.op = "hardDelete", !.pc = "deleteClose", !.desk = d])
  BY DEF StartHardDelete
<1> DEFINE p == [Idle EXCEPT !.op = "hardDelete", !.pc = "deleteClose", !.desk = d]
           S == {r \in Ids : Active(r) /\ reservations[r].desk = d}
<1>2. p.pc \notin Special /\ p.seen = {}
  BY DEF Idle, Special
<1>3. \A r \in Ids \cap S : Exists(r)
  BY DEF Active
<1>4. reservations' = [r \in Ids |-> IF r \in S
                                     THEN [reservations[r] EXCEPT !.status = "CANCELLED"]
                                     ELSE reservations[r]]
  BY <1>1
<1> HIDE DEF S
<1>5. RowsSettle
  BY <1>3, <1>4, SettleRows, TypeInvSplit
<1>6. QED BY <1>1, <1>2, <1>5, QuietBegin DEF Quiet, TypeInv, StartHardDelete

LEMMA QuietContinues ==
  ASSUME TypeInv, NEW t \in Threads,
         \/ InsertFails(t) \/ ReadOccupant(t) \/ CancelReservation(t)
         \/ CloseCancelledCheckin(t) \/ ReadCheckin(t) \/ CreateCheckin(t)
         \/ Checkout(t) \/ CheckoutReadLed(t) \/ Emit(t) \/ RestoreReadCheckin(t)
         \/ RestoreReadReservation(t) \/ DeleteCloseCheckins(t) \/ DeleteDesk(t)
  PROVE  Quiet
<1> USE QuietFinish, QuietGoto, QuietEmit, QuietRows DEF TypeInv, Quiet, Special
<1>1. CASE InsertFails(t)
  BY <1>1 DEF InsertFails, tables
<1>2. CASE ReadOccupant(t)
  BY <1>2 DEF ReadOccupant, tables
<1>3. CASE CancelReservation(t)
  <2>1. proc[t].res \in Ids
    BY <1>3, Carried DEF CancelReservation, Ready
  <2>2. RowsSettle
    BY <1>3, <2>1, SettleRow, TypeInvSplit DEF CancelReservation
  <2>3. QED BY <1>3, <2>2 DEF CancelReservation
<1>4. CASE CloseCancelledCheckin(t)
  BY <1>4 DEF CloseCancelledCheckin
<1>5. CASE ReadCheckin(t)
  BY <1>5 DEF ReadCheckin, AnswerScan, tables
<1>6. CASE CreateCheckin(t)
  BY <1>6 DEF CreateCheckin, AnswerScan
<1>7. CASE Checkout(t)
  <2>1. proc[t].res \in Ids
    BY <1>7, Carried DEF Checkout, Ready
  <2>2. RowsSettle
    BY <1>7, <2>1, SettleRow, TypeInvSplit DEF Checkout
  <2>3. QED BY <1>7, <2>2 DEF Checkout
<1>8. CASE CheckoutReadLed(t)
  BY <1>8 DEF CheckoutReadLed, tables
<1>9. CASE Emit(t)
  BY <1>9 DEF Emit, tables
<1>10. CASE RestoreReadCheckin(t)
  BY <1>10 DEF RestoreReadCheckin, tables
<1>11. CASE RestoreReadReservation(t)
  BY <1>11 DEF RestoreReadReservation, tables
<1>12. CASE DeleteCloseCheckins(t)
  BY <1>12 DEF DeleteCloseCheckins
<1>13. CASE DeleteDesk(t)
  <2>1. RowsSettle
    BY <1>13 DEF DeleteDesk, RowsSettle
  <2>2. QED BY <1>13, <2>1 DEF DeleteDesk
<1>14. QED BY <1>1, <1>2, <1>3, <1>4, <1>5, <1>6, <1>7, <1>8, <1>9, <1>10, <1>11, <1>12,
             <1>13

LEMMA QuietJobs ==
  ASSUME TypeInv, ExpireOld \/ AutoCheckout \/ AutoReserved \/ Tick \/ Crash
  PROVE  Quiet
<1>1. proc' = proc \/ proc' = [t \in Threads |-> Idle]
  BY DEF ExpireOld, ExpireOldRead, ExpireOldUpdate, ExpireOldEmit, AutoCheckout,
         AutoCheckoutRead, AutoCheckoutUpdate, AutoCheckoutReadLed, AutoCheckoutEmit,
         AutoReserved, AutoReservedRead, AutoReservedReadCheckins, AutoReservedEmit,
         Tick, Crash
<1>2. Idle.pc \notin Special /\ Idle.seen = {}
  BY DEF Idle, Special
<1>3. QuietProcs
  BY <1>1, <1>2 DEF QuietProcs
<1>4. UNCHANGED history
  BY DEF ExpireOld, ExpireOldRead, ExpireOldUpdate, ExpireOldEmit, AutoCheckout,
         AutoCheckoutRead, AutoCheckoutUpdate, AutoCheckoutReadLed, AutoCheckoutEmit,
         AutoReserved, AutoReservedRead, AutoReservedReadCheckins, AutoReservedEmit,
         Tick, Crash
<1>5. \/ UNCHANGED reservations
      \/ ExpireOldUpdate
      \/ AutoCheckoutUpdate
  BY DEF ExpireOld, ExpireOldRead, ExpireOldEmit, AutoCheckout, AutoCheckoutRead,
         AutoCheckoutReadLed, AutoCheckoutEmit, AutoReserved, AutoReservedRead,
         AutoReservedReadCheckins, AutoReservedEmit, Tick, Crash, tables
<1>6. CASE ExpireOldUpdate
  <2> DEFINE S == {r \in Ids : r \in jobs["expireOld"].ids /\ Exists(r)}
  <2>1. \A r \in Ids \cap S : Exists(r)
    OBVIOUS
  <2>2. reservations' = [r \in Ids |-> IF r \in S
                                       THEN [reservations[r] EXCEPT !.status = "EXPIRED"]
                                       ELSE reservations[r]]
    BY <1>6 DEF ExpireOldUpdate
  <2> HIDE DEF S
  <2>3. RowsSettle
    BY <2>1, <2>2, SettleRows, TypeInvSplit
  <2>4. QED BY <1>3, <1>4, <2>3 DEF Quiet
<1>7. CASE AutoCheckoutUpdate
  <2> DEFINE S == {r \in Ids : r \in jobs["autoCheckout"].ids /\ Exists(r)}
  <2>1. \A r \in Ids \cap S : Exists(r)
    OBVIOUS
  <2>2. reservations' = [r \in Ids |-> IF r \in S
                                       THEN [reservations[r] EXCEPT !.status = "COMPLETED"]
                                       ELSE reservations[r]]
    BY <1>7 DEF AutoCheckoutUpdate
  <2> HIDE DEF S
  <2>3. RowsSettle
    BY <2>1, <2>2, SettleRows, TypeInvSplit
  <2>4. QED BY <1>3, <1>4, <2>3 DEF Quiet
<1>8. QED BY <1>3, <1>4, <1>5, <1>6, <1>7, QuietRows DEF Quiet

-----------------------------------------------------------------------------
(***************************************************************************)
(* The steps of a check and of the write it allows.                        *)
(***************************************************************************)

\* The rows and the history stay; one request takes a step.
LEMMA CheckStep ==
  ASSUME TypeInv, ConflictInv, NEW t \in Threads,
         UNCHANGED <<reservations, version, seen>>,
         \A u \in Threads \ {t} : proc'[u] = proc[u],
         Past(proc'[t].seen), Checked(proc'[t]), Moving(proc'[t]), Fresh(proc'[t])
  PROVE  ConflictInv'
<1>1. UsedIds' /\ SeenPast' /\ SeenBookingsNeverClash'
  BY DEF ConflictInv, UsedIds, SeenPast, Past, SeenBookingsNeverClash, Clash, SameDate,
         Active, Exists
<1>2. ProcPast'
  BY DEF ConflictInv, ProcPast, Past
<1>3. ASSUME NEW u \in Threads
      PROVE  Checked(proc[u])' /\ Moving(proc[u])' /\ Fresh(proc[u])'
  <2>1. Checked(proc'[u]) /\ Moving(proc'[u]) /\ Fresh(proc'[u])
    BY DEF ConflictInv, ProcChecked
  <2>2. QED BY <2>1 DEF Checked, Moving, Fresh, Active, Exists
<1>4. QED BY <1>1, <1>2, <1>3 DEF ConflictInv, ProcChecked

LEMMA SnapshotPast ==
  ASSUME TypeInv, ConflictInv
  PROVE  /\ Past(Snapshot)
         /\ \A x \in Ids : <<x, version[x]>> \in Snapshot => Active(x)
<1>1. \A x \in Ids : version[x] \in Nat /\ (Active(x) => version[x] # 0)
  BY DEF ConflictInv, UsedIds, Active, TypeInv, TypeOK
<1>2. QED BY <1>1 DEF Snapshot, Past

LEMMA ConflictFindConflict ==
  ASSUME TypeInv, ConflictInv, NEW t \in Threads, FindConflict(t)
  PROVE  ConflictInv'
<1> DEFINE slot == Head(proc[t].slots)
           found == Conflicts(proc[t].desk, slot, proc[t].op # "teams")
           p == [proc[t] EXCEPT !.pc = "insert", !.seen = Snapshot]
<1>1. CASE found # {}
  <2>1. QuietProcs
    BY <1>1, QuietNextSlot DEF FindConflict, TypeInv
  <2>2. QED BY <2>1, QuietRows, QuietStep DEF FindConflict, Quiet, tables
<1>2. CASE found = {}
  <2>1. proc' = [proc EXCEPT ![t] = p]
    BY <1>2 DEF FindConflict, Become
  <2>2. /\ p.pc = "insert" /\ p.seen = Snapshot /\ p.desk = proc[t].desk
        /\ p.slots = proc[t].slots
    BY Carried DEF ProcRecord, TypeInv
  <2>3. proc'[t] = p /\ \A u \in Threads \ {t} : proc'[u] = proc[u]
    BY <2>1 DEF TypeInv, ProcsGood
  <2> HIDE DEF p
  <2>4. Past(p.seen) /\ Moving(p) /\ Fresh(p)
    BY <2>2, SnapshotPast DEF Moving, Fresh
  <2>5. Checked(p)
    BY <1>2, <2>2 DEF Checked, Conflicts
  <2>6. QED BY <2>3, <2>4, <2>5, CheckStep DEF FindConflict, tables, history
<1>3. QED BY <1>1, <1>2

LEMMA ConflictStartGraphSync ==
  ASSUME TypeInv, ConflictInv, NEW t \in Threads, StartGraphSync(t)
  PROVE  ConflictInv'
<1>1. PICK r \in Ids, slot \in Slots :
        /\ Active(r)
        /\ Begin(t, [Idle EXCEPT !.op = "graphSync", !.pc = "syncConflict", !.res = r,
                                 !.desk = reservations[r].desk, !.slots = <<slot>>])
  BY DEF StartGraphSync
<1> DEFINE p == [Idle EXCEPT !.op = "graphSync", !.pc = "syncConflict", !.res = r,
                             !.desk = reservations[r].desk, !.slots = <<slot>>]
<1>2. /\ p.pc = "syncConflict" /\ p.res = r /\ p.desk = reservations[r].desk /\ p.seen = {}
  BY DEF Idle
<1>3. proc'[t] = p /\ \A u \in Threads \ {t} : proc'[u] = proc[u]
  BY <1>1 DEF TypeInv, ProcsGood, Begin
<1> HIDE DEF p
<1>4. Past(p.seen) /\ Checked(p) /\ Fresh(p)
  BY <1>2 DEF Past, Checked, Fresh
<1>5. Moving(p)
  BY <1>1, <1>2 DEF Moving, ConflictInv, UsedIds, Active
<1>6. QED BY <1>3, <1>4, <1>5, CheckStep DEF StartGraphSync, tables, history

LEMMA ConflictSyncFindConflict ==
  ASSUME TypeInv, ConflictInv, NEW t \in Threads, SyncFindConflict(t)
  PROVE  ConflictInv'
<1> DEFINE slot == Head(proc[t].slots)
           found == Conflicts(proc[t].desk, slot, FALSE) \ {proc[t].res}
           p == [proc[t] EXCEPT !.pc = "move", !.seen = Snapshot]
<1>1. CASE found # {}
  <2>1. QuietProcs
    BY <1>1, QuietFinish DEF SyncFindConflict, TypeInv
  <2>2. QED BY <2>1, QuietRows, QuietStep DEF SyncFindConflict, Quiet, tables
<1>2. CASE found = {}
  <2>1. proc' = [proc EXCEPT ![t] = p]
    BY <1>2 DEF SyncFindConflict, Become
  <2>2. /\ p.pc = "move" /\ p.seen = Snapshot /\ p.desk = proc[t].desk
        /\ p.slots = proc[t].slots /\ p.res = proc[t].res
    BY Carried DEF ProcRecord, TypeInv
  <2>3. proc'[t] = p /\ \A u \in Threads \ {t} : proc'[u] = proc[u]
    BY <2>1 DEF TypeInv, ProcsGood
  <2>4. Moving(proc[t]) /\ proc[t].pc = "syncConflict"
    BY DEF ConflictInv, ProcChecked, SyncFindConflict
  <2> HIDE DEF p
  <2>5. Past(p.seen) /\ Moving(p) /\ Fresh(p)
    BY <2>2, <2>4, SnapshotPast DEF Moving, Fresh
  <2>6. Checked(p)
    BY <1>2, <2>2 DEF Checked, Conflicts
  <2>7. QED BY <2>3, <2>5, <2>6, CheckStep DEF SyncFindConflict, tables, history
<1>3. QED BY <1>1, <1>2

LEMMA ConflictStartWalkin ==
  ASSUME TypeInv, ConflictInv, NEW t \in Threads, StartWalkin(t)
  PROVE  ConflictInv'
<1> DEFINE slots == <<[date |-> DayOf(now), start |-> now, end |-> EndOfWork(now)]>>
<1>1. PICK d \in Desks, u \in Users :
        Begin(t, [Idle EXCEPT !.op = "walkin", !.pc = "walkActive", !.desk = d,
                              !.user = u, !.slots = slots])
  BY DEF StartWalkin
<1> DEFINE p == [Idle EXCEPT !.op = "walkin", !.pc = "walkActive", !.desk = d,
                             !.user = u, !.slots = slots]
<1>2. p.pc = "walkActive" /\ p.seen = {}
  BY DEF Idle
<1>3. proc'[t] = p /\ \A x \in Threads \ {t} : proc'[x] = proc[x]
  BY <1>1 DEF TypeInv, ProcsGood, Begin
<1> HIDE DEF p
<1>4. Past(p.seen) /\ Checked(p) /\ Fresh(p) /\ Moving(p)
  BY <1>2 DEF Past, Checked, Fresh, Moving
<1>5. QED BY <1>3, <1>4, CheckStep DEF StartWalkin, tables, history

LEMMA ConflictWalkinReadOccupant ==
  ASSUME TypeInv, ConflictInv, NEW t \in Threads, WalkinReadOccupant(t)
  PROVE  ConflictInv'
<1> DEFINE p == [proc[t] EXCEPT !.pc = "walkNext"]
<1>1. CASE Finish(t)
  <2>1. QuietProcs
    BY <1>1, QuietFinish DEF TypeInv
  <2>2. QED BY <2>1, QuietRows, QuietStep DEF WalkinReadOccupant, Quiet, tables
<1>2. CASE Goto(t, "walkNext")
  <2>1. proc[t].seen = {}
    BY DEF ConflictInv, ProcChecked, Fresh, WalkinReadOccupant
  <2>2. p.pc = "walkNext" /\ p.seen = {}
    BY <2>1, Carried DEF ProcRecord, TypeInv
  <2>3. proc'[t] = p /\ \A u \in Threads \ {t} : proc'[u] = proc[u]
    BY <1>2 DEF TypeInv, ProcsGood, Goto, Become
  <2> HIDE DEF p
  <2>4. Past(p.seen) /\ Checked(p) /\ Fresh(p) /\ Moving(p)
    BY <2>2 DEF Past, Checked, Fresh, Moving
  <2>5. QED BY <2>3, <2>4, CheckStep DEF WalkinReadOccupant, tables, history
<1>3. QED BY <1>1, <1>2 DEF WalkinReadOccupant

\* A walk-in ends before the first reservation it saw, so before all of them.
LEMMA ConflictWalkinReadNext ==
  ASSUME TypeInv, ConflictInv, NEW t \in Threads, WalkinReadNext(t)
  PROVE  ConflictInv'
<1> DEFINE slot == Head(proc[t].slots)
           next == NextReservations(proc[t].desk, proc[t].user, slot)
           known == {<<r, version[r]>> : r \in next}
           until(first) == reservations[first].slot.start - WalkinGap
           free(first) == [slot EXCEPT !.end = until(first)]
           p(first) == [proc[t] EXCEPT !.pc = "walkin", !.seen = known,
                          !.slots = <<free(first)>>]
<1>1. slot \in SlotSet /\ proc[t].pc = "walkNext" /\ proc[t].seen = {}
  <2>1. proc[t].slots \in Seq(SlotSet) /\ proc[t].slots # << >> /\ proc[t].pc = "walkNext"
    BY Carried DEF WalkinReadNext, ProcRecord, Ready, TypeInv
  <2>2. QED BY <2>1, HeadGood DEF ConflictInv, ProcChecked, Fresh
<1>2. \A r \in next : /\ r \in Ids /\ Active(r) /\ reservations[r].slot.start \in Int
                      /\ version[r] \in Nat /\ version[r] # 0
  BY TypeInvSplit, RowGood DEF NextReservations, Active, ReservationRow, SlotSet, RestOK,
                              ConflictInv, UsedIds
<1>3. CASE next = {}
  <2> DEFINE q == [proc[t] EXCEPT !.pc = "walkin"]
  <2>1. q.pc = "walkin" /\ q.seen = {}
    BY <1>1, Carried DEF ProcRecord, TypeInv
  <2>2. proc'[t] = q /\ \A u \in Threads \ {t} : proc'[u] = proc[u]
    BY <1>3 DEF WalkinReadNext, TypeInv, ProcsGood, Goto, Become
  <2> HIDE DEF q
  <2>3. Past(q.seen) /\ Checked(q) /\ Fresh(q) /\ Moving(q)
    BY <2>1 DEF Past, Checked, Fresh, Moving
  <2>4. QED BY <2>2, <2>3, CheckStep DEF WalkinReadNext, tables, history
<1>4. CASE next # {}
  <2>1. PICK first \in next :
          /\ \A r \in next : reservations[first].slot.start <= reservations[r].slot.start
          /\ Become(t, p(first))
    BY <1>4 DEF WalkinReadNext
  <2>2. free(first) \in SlotSet /\ free(first).end = until(first)
    <3>1. until(first) \in Int
      BY <1>2, DeskAssumption
    <3> HIDE DEF until
    <3>2. QED BY <1>1, <3>1 DEF SlotSet
  <2> DEFINE slots == <<free(first)>>
  <2>3. Head(slots) = free(first)
    OBVIOUS
  <2> HIDE DEF next, known, free
  <2>4. p(first).pc = "walkin" /\ p(first).seen = known /\ p(first).slots = slots
    BY Carried DEF ProcRecord, TypeInv
  <2>5. proc'[t] = p(first) /\ \A u \in Threads \ {t} : proc'[u] = proc[u]
    BY <2>1 DEF TypeInv, ProcsGood, Become
  <2> HIDE DEF p, slots
  <2>6. Past(known)
    BY <1>2 DEF Past, known
  <2>7. ASSUME NEW x \in Ids, <<x, version[x]>> \in known
        PROVE  ~Overlap(reservations[x].slot, free(first))
    <3>1. x \in next
      BY <2>7 DEF known
    <3>2. /\ reservations[first].slot.start \in Int /\ reservations[x].slot.start \in Int
          /\ reservations[first].slot.start <= reservations[x].slot.start
      BY <1>2, <2>1, <3>1
    <3>3. ~(reservations[x].slot.start < reservations[first].slot.start - WalkinGap)
      BY <3>2, DeskAssumption
    <3>4. QED BY <2>2, <3>3 DEF Overlap
  <2>8. Checked(p(first))
    BY <2>3, <2>4, <2>7 DEF Checked
  <2>9. Moving(p(first)) /\ Fresh(p(first)) /\ Past(p(first).seen)
    BY <2>4, <2>6 DEF Moving, Fresh
  <2>10. QED BY <2>5, <2>8, <2>9, CheckStep DEF WalkinReadNext, tables, history
<1>5. QED BY <1>3, <1>4

\* The row a checked request inserts.
LEMMA InsertStep ==
  ASSUME TypeInv, ConflictInv, NEW t \in Threads, proc[t].pc \in {"insert", "walkin"},
         NEW r \in Ids, NEW u, NEW type,
         InsertRow(r, proc[t].desk, u, Head(proc[t].slots), type, proc[t].seen),
         QuietProcs
  PROVE  ConflictInv'
<1> DEFINE slot == Head(proc[t].slots)
           row == [desk |-> proc[t].desk, user |-> u, slot |-> slot, type |-> type,
                   status |-> "CONFIRMED"]
<1>1. /\ version[r] = 0 /\ reservations'[r] = row
      /\ version'[r] = 1 /\ seen'[r] = proc[t].seen
      /\ \A x \in Ids \ {r} : /\ reservations'[x] = reservations[x]
                              /\ version'[x] = version[x] /\ seen'[x] = seen[x]
  BY DEF InsertRow, TypeInv, TypeOK
<1>2. \A x \in Ids : version[x] \in Nat /\ version'[x] \in Nat /\ version[x] <= version'[x]
  BY <1>1 DEF TypeInv, TypeOK
<1>3. \A S : Past(S) => Past(S)' /\ <<r, 1>> \notin S
  BY <1>1, <1>2 DEF Past
<1>4. row.desk = proc[t].desk /\ row.slot = slot
  OBVIOUS
<1> HIDE DEF row
<1>5. UsedIds'
  BY <1>1, <1>2 DEF ConflictInv, UsedIds, Exists
<1>6. SeenPast' /\ ProcPast'
  <2>1. Past(proc[t].seen) /\ \A y \in Ids : Past(seen[y])
    BY DEF ConflictInv, SeenPast, ProcPast
  <2>2. \A v \in Threads : Past(proc'[v].seen)
    BY DEF ConflictInv, ProcPast, QuietProcs, Past
  <2>3. QED BY <1>1, <1>3, <2>1, <2>2 DEF SeenPast, ProcPast
<1>7. ProcChecked'
  <2> SUFFICES ASSUME NEW v \in Threads
               PROVE  Checked(proc[v])' /\ Moving(proc[v])' /\ Fresh(proc[v])'
    BY DEF ProcChecked
  <2>1. CASE proc'[v] = proc[v]
    <3>1. Checked(proc[v]) /\ Moving(proc[v]) /\ Fresh(proc[v]) /\ Past(proc[v].seen)
      BY DEF ConflictInv, ProcChecked, ProcPast
    <3>2. Checked(proc[v])'
      BY <1>1, <1>3, <2>1, <3>1 DEF Checked, Active, Exists
    <3>3. Moving(proc[v])'
      <4>1. CASE proc[v].pc \in {"syncConflict", "move"}
        <5>1. proc[v].res \in Ids /\ proc[v].res # r
          BY <1>1, <3>1, <4>1, Carried DEF TypeInv, Ready, Moving
        <5>2. QED BY <1>1, <2>1, <3>1, <5>1 DEF Moving, Exists
      <4>2. QED BY <2>1, <4>1 DEF Moving
    <3>4. QED BY <2>1, <3>1, <3>2, <3>3 DEF Fresh
  <2>2. CASE proc'[v].pc \notin Special
    BY <2>2 DEF Special, Checked, Moving, Fresh
  <2>3. QED BY <2>1, <2>2 DEF QuietProcs
<1>8. SeenBookingsNeverClash'
  <2> SUFFICES ASSUME NEW x \in Ids, NEW y \in Ids, Clash(x, y)', SameDate(x, y)'
               PROVE  <<x, version'[x]>> \notin seen'[y]
    BY DEF SeenBookingsNeverClash
  <2>1. x # y
    BY DEF Clash
  <2>2. CASE x = r
    BY <1>1, <1>3, <2>1, <2>2 DEF ConflictInv, SeenPast
  <2>3. CASE y = r
    <3>1. Checked(proc[t])
      BY DEF ConflictInv, ProcChecked
    <3>2. /\ reservations'[x] = reservations[x] /\ reservations'[y].desk = proc[t].desk
          /\ reservations'[y].slot = slot
      BY <1>1, <1>4, <2>1, <2>3
    <3>3. /\ Active(x) /\ reservations[x].desk = reservations'[y].desk
          /\ reservations[x].slot.date = reservations'[y].slot.date
          /\ Overlap(reservations[x].slot, reservations'[y].slot)
      BY <3>2 DEF Clash, SameDate, Active, Exists, Overlap
    <3>4. /\ reservations[x].desk = proc[t].desk
          /\ reservations[x].slot.date = slot.date /\ Overlap(reservations[x].slot, slot)
      BY <3>2, <3>3
    <3>5. QED BY <1>1, <2>1, <2>3, <3>1, <3>3, <3>4 DEF Checked
  <2>4. CASE x # r /\ y # r
    BY <1>1, <2>4 DEF ConflictInv, SeenBookingsNeverClash, Clash, SameDate, Active, Exists
  <2>5. QED BY <2>2, <2>3, <2>4
<1>9. QED BY <1>5, <1>6, <1>7, <1>8 DEF ConflictInv

LEMMA ConflictInserts ==
  ASSUME TypeInv, ConflictInv, NEW t \in Threads, InsertReservation(t) \/ CreateWalkin(t)
  PROVE  ConflictInv'
<1>1. CASE InsertReservation(t)
  <2>1. PICK r \in Ids : InsertRow(r, proc[t].desk, proc[t].user, Head(proc[t].slots),
                                   proc[t].type, proc[t].seen)
    BY <1>1 DEF InsertReservation
  <2> DEFINE p == [proc[t] EXCEPT !.pc = "visible", !.seen = {}]
  <2>2. p.pc \notin Special /\ p.seen = {}
    BY Carried DEF ProcRecord, TypeInv, Special
  <2>3. NextSlot(t) \/ Finish(t) \/ Become(t, p)
    BY <1>1, Zenon DEF InsertReservation
  <2> HIDE DEF p
  <2>4. QuietProcs
    BY <2>2, <2>3, QuietNextSlot, QuietFinish, QuietBecome DEF TypeInv
  <2>5. proc[t].pc = "insert"
    BY <1>1 DEF InsertReservation
  <2>6. QED BY <2>1, <2>4, <2>5, InsertStep
<1>2. CASE CreateWalkin(t)
  <2>1. PICK r \in Ids : InsertRow(r, proc[t].desk, proc[t].user, Head(proc[t].slots),
                                   "STANDARD", proc[t].seen)
    BY <1>2 DEF CreateWalkin
  <2>2. QuietProcs
    BY <1>2, QuietEmit DEF CreateWalkin, TypeInv
  <2>3. proc[t].pc = "walkin"
    BY <1>2 DEF CreateWalkin
  <2>4. QED BY <2>1, <2>2, <2>3, InsertStep
<1>3. QED BY <1>1, <1>2

LEMMA ConflictMoveReservation ==
  ASSUME TypeInv, ConflictInv, NEW t \in Threads, MoveReservation(t)
  PROVE  ConflictInv'
<1> DEFINE r == proc[t].res
           slot == Head(proc[t].slots)
           moved == [date |-> reservations[r].slot.date, start |-> slot.start,
                     end |-> slot.end]
<1>1. QuietProcs
  BY QuietFinish DEF MoveReservation, TypeInv
<1>2. CASE ~Exists(r)
  BY <1>1, <1>2, QuietRows, QuietStep DEF MoveReservation, Quiet
<1>3. CASE Exists(r)
  <2>1. /\ r \in Ids /\ proc[t].pc = "move"
        /\ Checked(proc[t]) /\ Past(proc[t].seen) /\ reservations[r].desk = proc[t].desk
    BY <1>3, Carried DEF MoveReservation, TypeInv, Ready, ConflictInv, ProcChecked, ProcPast,
                          Moving
  <2>2. reservations[r] \in ReservationRow
    BY <1>3, <2>1, RowGood, TypeInvSplit
  <2>3. reservations' = [reservations EXCEPT ![r] = [reservations[r] EXCEPT !.slot = moved]]
    BY <1>3 DEF MoveReservation
  <2> DEFINE row == [reservations[r] EXCEPT !.slot = moved]
  <2>4. /\ row.slot = moved /\ row.desk = reservations[r].desk
        /\ row.status = reservations[r].status
    BY <2>2 DEF ReservationRow
  <2>5. /\ reservations'[r] = row
        /\ version'[r] = version[r] + 1 /\ seen'[r] = proc[t].seen
        /\ \A x \in Ids \ {r} : /\ reservations'[x] = reservations[x]
                                /\ version'[x] = version[x] /\ seen'[x] = seen[x]
    BY <1>3, <2>1, <2>3 DEF MoveReservation, TypeInv, TypeOK
  <2>6. \A x \in Ids : /\ version[x] \in Nat /\ version'[x] \in Nat
                       /\ version[x] <= version'[x]
    BY <2>5 DEF TypeInv, TypeOK
  <2>7. \A S : Past(S) => Past(S)' /\ <<r, version'[r]>> \notin S
    <3>1. ~(version'[r] <= version[r])
      BY <2>1, <2>5, <2>6
    <3>2. QED BY <2>1, <2>6, <3>1 DEF Past
  <2>8. moved.start = slot.start /\ moved.end = slot.end
    OBVIOUS
  <2> HIDE DEF row, moved
  <2>9. UsedIds'
    <3> SUFFICES ASSUME NEW x \in Ids, reservations'[x] # NoRow
                 PROVE  version'[x] # 0
      BY DEF UsedIds, Exists
    <3>1. CASE x = r
      <4>1. version[r] \in Nat
        BY <2>1, <2>6
      <4>2. QED BY <2>5, <3>1, <4>1
    <3>2. CASE x # r
      BY <2>5, <3>2 DEF ConflictInv, UsedIds, Exists
    <3>3. QED BY <3>1, <3>2
  <2>10. SeenPast' /\ ProcPast'
    <3>1. \A y \in Ids : Past(seen[y])
      BY DEF ConflictInv, SeenPast
    <3>2. \A v \in Threads : Past(proc'[v].seen)
      BY <1>1 DEF ConflictInv, ProcPast, QuietProcs, Past
    <3>3. QED BY <2>1, <2>5, <2>7, <3>1, <3>2 DEF SeenPast, ProcPast
  <2>11. ProcChecked'
    <3> SUFFICES ASSUME NEW v \in Threads
                 PROVE  Checked(proc[v])' /\ Moving(proc[v])' /\ Fresh(proc[v])'
      BY DEF ProcChecked
    <3>1. CASE proc'[v] = proc[v]
      <4>1. Checked(proc[v]) /\ Moving(proc[v]) /\ Fresh(proc[v]) /\ Past(proc[v].seen)
        BY DEF ConflictInv, ProcChecked, ProcPast
      <4>2. Checked(proc[v])'
        BY <2>5, <2>7, <3>1, <4>1 DEF Checked, Active, Exists
      <4>3. Moving(proc[v])'
        <5>1. CASE proc[v].pc \in {"syncConflict", "move"}
          <6>1. proc[v].res \in Ids /\ version[proc[v].res] # 0
            BY <4>1, <5>1, Carried DEF TypeInv, Ready, Moving
          <6>2. version'[proc[v].res] # 0
            BY <2>6, <6>1
          <6>3. reservations'[proc[v].res] # NoRow =>
                  reservations'[proc[v].res].desk = proc[v].desk
            <7>1. CASE proc[v].res = r
              BY <1>3, <2>4, <2>5, <4>1, <5>1, <7>1 DEF Moving
            <7>2. CASE proc[v].res # r
              BY <2>5, <4>1, <5>1, <6>1, <7>2 DEF Moving, Exists
            <7>3. QED BY <7>1, <7>2
          <6>4. QED BY <3>1, <6>2, <6>3 DEF Moving, Exists
        <5>2. QED BY <3>1, <5>1 DEF Moving
      <4>4. QED BY <3>1, <4>1, <4>2, <4>3 DEF Fresh
    <3>2. CASE proc'[v].pc \notin Special
      BY <3>2 DEF Special, Checked, Moving, Fresh
    <3>3. QED BY <1>1, <3>1, <3>2 DEF QuietProcs
  <2>12. SeenBookingsNeverClash'
    <3> SUFFICES ASSUME NEW x \in Ids, NEW y \in Ids, Clash(x, y)', SameDate(x, y)'
                 PROVE  <<x, version'[x]>> \notin seen'[y]
      BY DEF SeenBookingsNeverClash
    <3>1. x # y
      BY DEF Clash
    <3>2. CASE x = r
      BY <2>5, <2>7, <3>1, <3>2 DEF ConflictInv, SeenPast
    <3>3. CASE y = r
      <4>1. /\ reservations'[x] = reservations[x] /\ reservations'[y].desk = proc[t].desk
            /\ reservations'[y].slot = moved
        BY <2>1, <2>4, <2>5, <3>1, <3>3
      <4>2. /\ Active(x) /\ reservations[x].desk = reservations'[y].desk
            /\ Overlap(reservations[x].slot, reservations'[y].slot)
        BY <4>1 DEF Clash, Active, Exists, Overlap
      <4>3. reservations[x].desk = proc[t].desk /\ Overlap(reservations[x].slot, slot)
        BY <2>8, <4>1, <4>2 DEF Overlap
      <4>4. QED BY <2>1, <2>5, <3>1, <3>3, <4>2, <4>3 DEF Checked
    <3>4. CASE x # r /\ y # r
      BY <2>5, <3>4 DEF ConflictInv, SeenBookingsNeverClash, Clash, SameDate, Active, Exists
    <3>5. QED BY <3>2, <3>3, <3>4
  <2>13. QED BY <2>9, <2>10, <2>11, <2>12 DEF ConflictInv
<1>4. QED BY <1>2, <1>3

-----------------------------------------------------------------------------
LEMMA InitConflict == Init => ConflictInv
<1> SUFFICES ASSUME Init PROVE ConflictInv
  OBVIOUS
<1>1. Idle.pc \notin Special /\ Idle.seen = {}
  BY DEF Idle, Special
<1>2. \A r \in Ids : ~Exists(r)
  BY DEF Init, Exists
<1>3. UsedIds /\ SeenPast /\ SeenBookingsNeverClash
  BY <1>2 DEF Init, UsedIds, SeenPast, Past, SeenBookingsNeverClash
<1>4. ProcPast /\ ProcChecked
  BY <1>1 DEF Init, ProcPast, Past, ProcChecked, Checked, Moving, Fresh, Special
<1>5. QED BY <1>3, <1>4 DEF ConflictInv

LEMMA StepConflict == TypeInv /\ ConflictInv /\ [Next]_vars => ConflictInv'
<1> SUFFICES ASSUME TypeInv, ConflictInv, [Next]_vars PROVE ConflictInv'
  OBVIOUS
<1>1. ASSUME NEW t \in Threads, Start(t) PROVE ConflictInv'
  BY <1>1, QuietStarts, QuietHardDelete, QuietStep, ConflictStartGraphSync,
     ConflictStartWalkin DEF Start
<1>2. ASSUME NEW t \in Threads, Continue(t) PROVE ConflictInv'
  BY <1>2, QuietContinues, QuietStep, ConflictFindConflict, ConflictSyncFindConflict,
     ConflictWalkinReadOccupant, ConflictWalkinReadNext, ConflictInserts,
     ConflictMoveReservation DEF Continue
<1>3. CASE ExpireOld \/ AutoCheckout \/ AutoReserved \/ Tick \/ Crash
  BY <1>3, QuietJobs, QuietStep
<1>4. CASE UNCHANGED vars
  BY <1>4, QuietStep DEF vars, Quiet, QuietProcs, RowsSettle, history
<1>5. QED BY <1>1, <1>2, <1>3, <1>4 DEF Next, Handle

(***************************************************************************)
(* A booking never clashes, on its day, with one whose present times its   *)
(* conflict check had seen: the invariant the Bookings run checks.         *)
(***************************************************************************)
THEOREM ConflictChecksSound == Spec => []SeenBookingsNeverClash
<1>1. ConflictInv => SeenBookingsNeverClash
  BY DEF ConflictInv
<1>2. QED BY <1>1, InitConflict, StepConflict, TypeCorrect, PTL DEF Spec

=============================================================================
