------------------------- MODULE DeskBookingProofs -------------------------
(***************************************************************************)
(* Type correctness of DeskBooking, for every value of the constants.      *)
(*                                                                         *)
(* TypeOK alone is not inductive: a step takes the head of the slots its   *)
(* request carries, or looks up the reservation and the desk it is about,  *)
(* so a request must be known to carry what its next step needs (Ready).   *)
(***************************************************************************)
EXTENDS DeskBooking, SequenceTheorems, TLAPS

\* What the next step of a request takes from its record.
Ready(p) ==
  /\ p.pc # "idle" => p.desk \in Desks
  /\ p.pc \in {"conflict", "insert", "walkActive", "walkNext", "walkin"} => p.user \in Users
  /\ p.pc \in {"conflict", "insert", "visible", "syncConflict", "move", "walkActive",
               "walkNext", "walkin"} => p.slots # << >>
  /\ p.pc \in {"cancel", "close", "syncConflict", "move", "existing", "checkin",
               "checkout"} => p.res \in Ids

GoodProc == {p \in ProcRecord : Ready(p)}

ProcsGood == proc \in [Threads -> GoodProc] /\ requests \in Nat

\* The inductive form of TypeOK.
TypeInv == TypeOK /\ ProcsGood

\* The variables that are neither requests nor what they carry.
RestOK ==
  /\ now \in Nat
  /\ deskStatus \in [Desks -> DeskStatuses]
  /\ reservations \in [Ids -> ReservationRow \cup {NoRow}]
  /\ checkins \in [Ids -> CheckinRow \cup {NoRow}]
  /\ led \in [Desks -> LedStates]
  /\ jobs \in [JobNames -> JobRecord]
  /\ crashes \in Nat
  /\ version \in [Ids -> Nat]
  /\ seen \in [Ids -> SUBSET (Ids \X Nat)]

-----------------------------------------------------------------------------
(***************************************************************************)
(* A request that begins, goes on or ends.                                 *)
(***************************************************************************)
LEMMA TypeInvSplit == TypeInv <=> RestOK /\ ProcsGood
  BY DEF TypeInv, TypeOK, RestOK, ProcsGood, GoodProc

LEMMA TypeInvSplitPrime == TypeInv' <=> RestOK' /\ ProcsGood'
  BY DEF TypeInv, TypeOK, RestOK, ProcsGood, GoodProc

LEMMA IdleGood == Idle \in ProcRecord /\ Idle \in GoodProc
<1>1. Idle \in ProcRecord
  BY DEF Idle, ProcRecord, OpNames, ProcStates, LedStates
<1>2. Ready(Idle)
  BY DEF Idle, Ready
<1>3. QED BY <1>1, <1>2 DEF GoodProc

LEMMA BeginGood ==
  ASSUME ProcsGood, NEW t, NEW p \in GoodProc, Begin(t, p)
  PROVE  ProcsGood'
<1>1. proc' = [proc EXCEPT ![t] = p] /\ requests' = requests + 1
  BY DEF Begin
<1>2. proc' \in [Threads -> GoodProc]
  BY <1>1 DEF ProcsGood
<1>3. requests' \in Nat
  BY <1>1 DEF ProcsGood
<1>4. QED BY <1>2, <1>3 DEF ProcsGood

LEMMA BecomeGood ==
  ASSUME ProcsGood, NEW t, NEW p \in GoodProc, Become(t, p)
  PROVE  ProcsGood'
  BY DEF ProcsGood, Become

LEMMA FinishGood ==
  ASSUME ProcsGood, NEW t, Finish(t)
  PROVE  ProcsGood'
  BY IdleGood, BecomeGood DEF Finish

LEMMA GotoGood ==
  ASSUME ProcsGood, NEW t \in Threads, NEW pc \in ProcStates, Goto(t, pc),
         Ready([proc[t] EXCEPT !.pc = pc])
  PROVE  ProcsGood'
<1>1. [proc[t] EXCEPT !.pc = pc] \in GoodProc
  BY DEF ProcsGood, GoodProc, ProcRecord
<1>2. QED BY <1>1, BecomeGood DEF Goto

LEMMA EmitGood ==
  ASSUME ProcsGood, NEW t \in Threads, NEW d \in Desks, NEW state \in LedStates,
         ThenEmit(t, d, state)
  PROVE  ProcsGood'
<1> DEFINE p == [proc[t] EXCEPT !.pc = "emit", !.desk = d, !.led = state]
<1>1. proc[t] \in ProcRecord
  BY DEF ProcsGood, GoodProc
<1>2. "emit" \in ProcStates
  BY DEF ProcStates
<1>3. p \in ProcRecord
  BY <1>1, <1>2 DEF ProcRecord
<1>4. Ready(p)
  BY <1>1 DEF ProcRecord, Ready
<1>5. QED BY <1>3, <1>4, BecomeGood DEF ThenEmit, GoodProc

LEMMA SlotGood ==
  ASSUME NEW slot \in Slots
  PROVE  <<slot>> \in Seq(SlotSet) /\ <<slot>> # << >>
  BY DeskAssumption

LEMMA HeadGood ==
  ASSUME NEW s \in Seq(SlotSet), s # << >>
  PROVE  Head(s) \in SlotSet /\ Tail(s) \in Seq(SlotSet)
  BY HeadTailProperties

LEMMA TailGood ==
  ASSUME NEW s \in Seq(SlotSet), Len(s) > 1
  PROVE  Tail(s) \in Seq(SlotSet) /\ Tail(s) # << >>
<1>1. s # << >>
  OBVIOUS
<1>2. Tail(s) \in Seq(SlotSet) /\ Len(Tail(s)) = Len(s) - 1
  BY <1>1, HeadTailProperties
<1>3. Len(s) \in Nat
  OBVIOUS
<1>4. \A n \in Nat : n > 1 => n - 1 # 0
  OBVIOUS
<1>5. Len(s) - 1 # 0
  BY <1>3, <1>4
<1>6. QED BY <1>2, <1>5

LEMMA LedGood ==
  /\ \A type \in Types \cup {"STANDARD"} : LedOfType(type) \in LedStates
  /\ \A d : DeskLedAfterFree(d) \subseteq LedStates
<1>1. \A type : LedOfType(type) \in LedStates
  BY DEF LedOfType, LedStates
<1>2. QED BY <1>1 DEF DeskLedAfterFree, LedStates

LEMMA RowGood ==
  ASSUME RestOK, NEW r \in Ids, Exists(r)
  PROVE  reservations[r] \in ReservationRow /\ reservations[r].desk \in Desks
  BY DEF RestOK, Exists, ReservationRow

LEMMA CheckinGood ==
  ASSUME RestOK, NEW r \in Ids, checkins[r] # NoRow
  PROVE  checkins[r] \in CheckinRow /\ checkins[r].desk \in Desks
  BY DEF RestOK, CheckinRow

LEMMA WalkinSlotGood ==
  ASSUME RestOK
  PROVE  LET slots == <<[date |-> DayOf(now), start |-> now, end |-> EndOfWork(now)]>>
         IN slots \in Seq(SlotSet) /\ slots # << >>
<1>1. DayOf(now) \in Int /\ EndOfWork(now) \in Int /\ now \in Int
  BY DeskAssumption DEF RestOK, DayOf, EndOfWork
<1>2. [date |-> DayOf(now), start |-> now, end |-> EndOfWork(now)] \in SlotSet
  BY <1>1 DEF SlotSet
<1>3. QED BY <1>2

LEMMA RestStutter ==
  ASSUME RestOK, UNCHANGED <<now, deskStatus, reservations, checkins, led, jobs, crashes,
                             version, seen>>
  PROVE  RestOK'
  BY DEF RestOK

-----------------------------------------------------------------------------
(***************************************************************************)
(* The first step of each request.                                         *)
(***************************************************************************)
LEMMA StartCreateType ==
  ASSUME RestOK, ProcsGood, NEW t \in Threads, StartCreate(t)
  PROVE  RestOK' /\ ProcsGood'
<1>1. PICK d \in Desks, u \in Users, slot \in Slots, type \in Types :
        Begin(t, [Idle EXCEPT !.op = "create", !.pc = "conflict", !.desk = d,
                            !.user = u, !.slots = <<slot>>, !.type = type])
  BY DEF StartCreate
<1> DEFINE p == [Idle EXCEPT !.op = "create", !.pc = "conflict", !.desk = d,
                            !.user = u, !.slots = <<slot>>, !.type = type]
<1>2. <<slot>> \in Seq(SlotSet) /\ <<slot>> # << >>
  BY SlotGood
<1>3. "create" \in OpNames /\ "conflict" \in ProcStates
  BY DEF OpNames, ProcStates
<1>4. p \in ProcRecord
  BY IdleGood, <1>2, <1>3 DEF ProcRecord
<1>5. Ready(p)
  BY IdleGood, <1>2 DEF ProcRecord, Ready
<1>6. ProcsGood'
  BY <1>1, <1>4, <1>5, BeginGood DEF GoodProc
<1>7. QED BY <1>6, RestStutter DEF StartCreate, tables, bounds, history

LEMMA StartRecurringType ==
  ASSUME RestOK, ProcsGood, NEW t \in Threads, StartRecurring(t)
  PROVE  RestOK' /\ ProcsGood'
<1>1. PICK d \in Desks, u \in Users, slots \in Series, type \in Types :
        Begin(t, [Idle EXCEPT !.op = "recurring", !.pc = "conflict", !.desk = d,
                            !.user = u, !.slots = slots, !.type = type])
  BY DEF StartRecurring
<1> DEFINE p == [Idle EXCEPT !.op = "recurring", !.pc = "conflict", !.desk = d,
                            !.user = u, !.slots = slots, !.type = type]
<1>2. slots \in Seq(SlotSet) /\ slots # << >>
  BY DeskAssumption
<1>3. "recurring" \in OpNames /\ "conflict" \in ProcStates
  BY DEF OpNames, ProcStates
<1>4. p \in ProcRecord
  BY IdleGood, <1>2, <1>3 DEF ProcRecord
<1>5. Ready(p)
  BY IdleGood, <1>2 DEF ProcRecord, Ready
<1>6. ProcsGood'
  BY <1>1, <1>4, <1>5, BeginGood DEF GoodProc
<1>7. QED BY <1>6, RestStutter DEF StartRecurring, tables, bounds, history

LEMMA StartTeamsType ==
  ASSUME RestOK, ProcsGood, NEW t \in Threads, StartTeams(t)
  PROVE  RestOK' /\ ProcsGood'
<1>1. PICK d \in Desks, u \in Users, slot \in Slots :
        Begin(t, [Idle EXCEPT !.op = "teams", !.pc = "conflict", !.desk = d,
                            !.user = u, !.slots = <<slot>>])
  BY DEF StartTeams
<1> DEFINE p == [Idle EXCEPT !.op = "teams", !.pc = "conflict", !.desk = d,
                            !.user = u, !.slots = <<slot>>]
<1>2. <<slot>> \in Seq(SlotSet) /\ <<slot>> # << >>
  BY SlotGood
<1>3. "teams" \in OpNames /\ "conflict" \in ProcStates
  BY DEF OpNames, ProcStates
<1>4. p \in ProcRecord
  BY IdleGood, <1>2, <1>3 DEF ProcRecord
<1>5. Ready(p)
  BY IdleGood, <1>2 DEF ProcRecord, Ready
<1>6. ProcsGood'
  BY <1>1, <1>4, <1>5, BeginGood DEF GoodProc
<1>7. QED BY <1>6, RestStutter DEF StartTeams, tables, bounds, history

LEMMA StartCancelType ==
  ASSUME RestOK, ProcsGood, NEW t \in Threads, StartCancel(t)
  PROVE  RestOK' /\ ProcsGood'
<1>1. PICK r \in Ids, op \in {"cancel", "teamsCancel", "graphDelete"} :
        /\ Exists(r)
        /\ Begin(t, [Idle EXCEPT !.op = op, !.pc = "cancel", !.res = r,
                            !.desk = reservations[r].desk])
  BY DEF StartCancel
<1> DEFINE p == [Idle EXCEPT !.op = op, !.pc = "cancel", !.res = r,
                            !.desk = reservations[r].desk]
<1>2. reservations[r].desk \in Desks
  BY <1>1, RowGood
<1>3. op \in OpNames /\ "cancel" \in ProcStates
  BY DEF OpNames, ProcStates
<1>4. p \in ProcRecord
  BY IdleGood, <1>2, <1>3 DEF ProcRecord
<1>5. Ready(p)
  BY IdleGood, <1>2 DEF ProcRecord, Ready
<1>6. ProcsGood'
  BY <1>1, <1>4, <1>5, BeginGood DEF GoodProc
<1>7. QED BY <1>6, RestStutter DEF StartCancel, tables, bounds, history

LEMMA StartGraphSyncType ==
  ASSUME RestOK, ProcsGood, NEW t \in Threads, StartGraphSync(t)
  PROVE  RestOK' /\ ProcsGood'
<1>1. PICK r \in Ids, slot \in Slots :
        /\ Active(r)
        /\ Begin(t, [Idle EXCEPT !.op = "graphSync", !.pc = "syncConflict", !.res = r,
                            !.desk = reservations[r].desk, !.slots = <<slot>>])
  BY DEF StartGraphSync
<1> DEFINE p == [Idle EXCEPT !.op = "graphSync", !.pc = "syncConflict", !.res = r,
                            !.desk = reservations[r].desk, !.slots = <<slot>>]
<1>2. reservations[r].desk \in Desks /\ <<slot>> \in Seq(SlotSet) /\ <<slot>> # << >>
  BY <1>1, RowGood, SlotGood DEF Active
<1>3. "graphSync" \in OpNames /\ "syncConflict" \in ProcStates
  BY DEF OpNames, ProcStates
<1>4. p \in ProcRecord
  BY IdleGood, <1>2, <1>3 DEF ProcRecord
<1>5. Ready(p)
  BY IdleGood, <1>2 DEF ProcRecord, Ready
<1>6. ProcsGood'
  BY <1>1, <1>4, <1>5, BeginGood DEF GoodProc
<1>7. QED BY <1>6, RestStutter DEF StartGraphSync, tables, bounds, history

LEMMA StartCheckinType ==
  ASSUME RestOK, ProcsGood, NEW t \in Threads, StartCheckin(t)
  PROVE  RestOK' /\ ProcsGood'
<1>1. PICK r \in Ids, op \in {"nfc", "qr", "web"}, viaMqtt \in BOOLEAN :
        /\ Eligible(op, r)
        /\ Begin(t, [Idle EXCEPT !.op = op, !.pc = "existing", !.res = r, !.mqtt = viaMqtt,
                            !.desk = reservations[r].desk])
  BY DEF StartCheckin
<1> DEFINE p == [Idle EXCEPT !.op = op, !.pc = "existing", !.res = r, !.mqtt = viaMqtt,
                            !.desk = reservations[r].desk]
<1>2. reservations[r].desk \in Desks
  BY <1>1, RowGood DEF Eligible, Active
<1>3. op \in OpNames /\ "existing" \in ProcStates
  BY DEF OpNames, ProcStates
<1>4. p \in ProcRecord
  BY IdleGood, <1>2, <1>3 DEF ProcRecord
<1>5. Ready(p)
  BY IdleGood, <1>2 DEF ProcRecord, Ready
<1>6. ProcsGood'
  BY <1>1, <1>4, <1>5, BeginGood DEF GoodProc
<1>7. QED BY <1>6, RestStutter DEF StartCheckin, tables, bounds, history

LEMMA StartManualType ==
  ASSUME RestOK, ProcsGood, NEW t \in Threads, StartManual(t)
  PROVE  RestOK' /\ ProcsGood'
<1>1. PICK r \in Ids, d \in Desks :
        Begin(t, [Idle EXCEPT !.op = "manual", !.pc = "checkin", !.res = r, !.desk = d])
  BY DEF StartManual
<1> DEFINE p == [Idle EXCEPT !.op = "manual", !.pc = "checkin", !.res = r, !.desk = d]
<1>2. "manual" \in OpNames /\ "checkin" \in ProcStates
  BY DEF OpNames, ProcStates
<1>3. p \in ProcRecord
  BY IdleGood, <1>2 DEF ProcRecord
<1>4. Ready(p)
  BY IdleGood DEF ProcRecord, Ready
<1>5. ProcsGood'
  BY <1>1, <1>3, <1>4, BeginGood DEF GoodProc
<1>6. QED BY <1>5, RestStutter DEF StartManual, tables, bounds, history

LEMMA RejectScanType ==
  ASSUME RestOK, ProcsGood, NEW t \in Threads, RejectScan(t)
  PROVE  RestOK' /\ ProcsGood'
<1>1. PICK d \in Desks :
        Begin(t, [Idle EXCEPT !.op = "nfc", !.pc = "emit", !.desk = d,
                            !.mqtt = TRUE, !.led = "ERROR"])
  BY DEF RejectScan
<1> DEFINE p == [Idle EXCEPT !.op = "nfc", !.pc = "emit", !.desk = d,
                            !.mqtt = TRUE, !.led = "ERROR"]
<1>2. "nfc" \in OpNames /\ "emit" \in ProcStates /\ "ERROR" \in LedStates
  BY DEF OpNames, ProcStates, LedStates
<1>3. p \in ProcRecord
  BY IdleGood, <1>2 DEF ProcRecord
<1>4. Ready(p)
  BY IdleGood DEF ProcRecord, Ready
<1>5. ProcsGood'
  BY <1>1, <1>3, <1>4, BeginGood DEF GoodProc
<1>6. QED BY <1>5, RestStutter DEF RejectScan, tables, bounds, history

LEMMA StartWalkinType ==
  ASSUME RestOK, ProcsGood, NEW t \in Threads, StartWalkin(t)
  PROVE  RestOK' /\ ProcsGood'
<1>1. PICK d \in Desks, u \in Users :
        Begin(t, [Idle EXCEPT !.op = "walkin", !.pc = "walkActive", !.desk = d, !.user = u,
                  !.slots = <<[date |-> DayOf(now), start |-> now, end |-> EndOfWork(now)]>>])
  BY DEF StartWalkin
<1> DEFINE p == [Idle EXCEPT !.op = "walkin", !.pc = "walkActive", !.desk = d, !.user = u,
                  !.slots = <<[date |-> DayOf(now), start |-> now, end |-> EndOfWork(now)]>>]
<1>2. /\ <<[date |-> DayOf(now), start |-> now, end |-> EndOfWork(now)]>> \in Seq(SlotSet)
      /\ <<[date |-> DayOf(now), start |-> now, end |-> EndOfWork(now)]>> # << >>
  BY WalkinSlotGood
<1>3. "walkin" \in OpNames /\ "walkActive" \in ProcStates
  BY DEF OpNames, ProcStates
<1>4. p \in ProcRecord
  BY IdleGood, <1>2, <1>3 DEF ProcRecord
<1>5. Ready(p)
  BY IdleGood, <1>2 DEF ProcRecord, Ready
<1>6. ProcsGood'
  BY <1>1, <1>4, <1>5, BeginGood DEF GoodProc
<1>7. QED BY <1>6, RestStutter DEF StartWalkin, tables, bounds, history

LEMMA StartCheckoutType ==
  ASSUME RestOK, ProcsGood, NEW t \in Threads, StartCheckout(t)
  PROVE  RestOK' /\ ProcsGood'
<1>1. PICK r \in Ids :
        /\ Open(r)
        /\ Begin(t, [Idle EXCEPT !.op = "checkout", !.pc = "checkout", !.res = r,
                            !.desk = checkins[r].desk])
  BY DEF StartCheckout
<1> DEFINE p == [Idle EXCEPT !.op = "checkout", !.pc = "checkout", !.res = r,
                            !.desk = checkins[r].desk]
<1>2. checkins[r].desk \in Desks
  BY <1>1, CheckinGood DEF Open
<1>3. "checkout" \in OpNames /\ "checkout" \in ProcStates
  BY DEF OpNames, ProcStates
<1>4. p \in ProcRecord
  BY IdleGood, <1>2, <1>3 DEF ProcRecord
<1>5. Ready(p)
  BY IdleGood, <1>2 DEF ProcRecord, Ready
<1>6. ProcsGood'
  BY <1>1, <1>4, <1>5, BeginGood DEF GoodProc
<1>7. QED BY <1>6, RestStutter DEF StartCheckout, tables, bounds, history

LEMMA StartRestoreType ==
  ASSUME RestOK, ProcsGood, NEW t \in Threads, StartRestore(t)
  PROVE  RestOK' /\ ProcsGood'
<1>1. PICK d \in Desks :
        Begin(t, [Idle EXCEPT !.op = "restore", !.pc = "restoreCheckin", !.desk = d])
  BY DEF StartRestore
<1> DEFINE p == [Idle EXCEPT !.op = "restore", !.pc = "restoreCheckin", !.desk = d]
<1>2. "restore" \in OpNames /\ "restoreCheckin" \in ProcStates
  BY DEF OpNames, ProcStates
<1>3. p \in ProcRecord
  BY IdleGood, <1>2 DEF ProcRecord
<1>4. Ready(p)
  BY IdleGood DEF ProcRecord, Ready
<1>5. ProcsGood'
  BY <1>1, <1>3, <1>4, BeginGood DEF GoodProc
<1>6. QED BY <1>5, RestStutter DEF StartRestore, tables, bounds, history

LEMMA UpdateDeskType ==
  ASSUME RestOK, ProcsGood, NEW t \in Threads, UpdateDesk(t)
  PROVE  RestOK' /\ ProcsGood'
<1>1. PICK d \in Desks, status \in {"MAINTENANCE", "ACTIVE"} :
        /\ deskStatus' = [deskStatus EXCEPT ![d] = status]
        /\ Begin(t, [Idle EXCEPT !.op = "desk", !.pc = "emit", !.desk = d,
                       !.led = IF status = "ACTIVE" THEN "FREE" ELSE "ERROR"])
  BY DEF UpdateDesk
<1> DEFINE p == [Idle EXCEPT !.op = "desk", !.pc = "emit", !.desk = d,
                   !.led = IF status = "ACTIVE" THEN "FREE" ELSE "ERROR"]
<1>2. /\ "desk" \in OpNames /\ "emit" \in ProcStates
      /\ (IF status = "ACTIVE" THEN "FREE" ELSE "ERROR") \in LedStates
  BY DEF OpNames, ProcStates, LedStates
<1>3. p \in ProcRecord
  BY IdleGood, <1>2 DEF ProcRecord
<1>4. Ready(p)
  BY IdleGood DEF ProcRecord, Ready
<1>5. ProcsGood'
  BY <1>1, <1>3, <1>4, BeginGood DEF GoodProc
<1>6. deskStatus' \in [Desks -> DeskStatuses]
  BY <1>1 DEF RestOK, DeskStatuses
<1>7. QED BY <1>5, <1>6 DEF RestOK, UpdateDesk, bounds, history

LEMMA SetDeskStatusType ==
  ASSUME RestOK, ProcsGood, NEW t \in Threads, SetDeskStatus(t)
  PROVE  RestOK' /\ ProcsGood'
<1>1. ProcsGood'
  BY IdleGood, BeginGood DEF SetDeskStatus
<1>2. deskStatus' \in [Desks -> DeskStatuses]
  BY DEF SetDeskStatus, RestOK, DeskStatuses
<1>3. QED BY <1>1, <1>2 DEF RestOK, SetDeskStatus, bounds, history

\* The tables after the statuses of some reservations were written.
LEMMA StatusesGood ==
  ASSUME RestOK, NEW S, NEW status \in ReservationStatuses, \A r \in Ids \cap S : Exists(r)
  PROVE  [r \in Ids |-> IF r \in S THEN [reservations[r] EXCEPT !.status = status]
                                   ELSE reservations[r]]
           \in [Ids -> ReservationRow \cup {NoRow}]
<1>1. ASSUME NEW r \in Ids, r \in S
      PROVE  [reservations[r] EXCEPT !.status = status] \in ReservationRow
  BY <1>1, RowGood DEF ReservationRow
<1>2. QED BY <1>1 DEF RestOK

LEMMA StartHardDeleteType ==
  ASSUME RestOK, ProcsGood, NEW t \in Threads, StartHardDelete(t)
  PROVE  RestOK' /\ ProcsGood'
<1>1. PICK d \in Desks :
        /\ reservations' = [r \in Ids |-> IF Active(r) /\ reservations[r].desk = d
                                          THEN [reservations[r] EXCEPT !.status = "CANCELLED"]
                                          ELSE reservations[r]]
        /\ Begin(t, [Idle EXCEPT !.op = "hardDelete", !.pc = "deleteClose", !.desk = d])
  BY DEF StartHardDelete
<1> DEFINE p == [Idle EXCEPT !.op = "hardDelete", !.pc = "deleteClose", !.desk = d]
           S == {r \in Ids : Active(r) /\ reservations[r].desk = d}
<1>2. "hardDelete" \in OpNames /\ "deleteClose" \in ProcStates
  BY DEF OpNames, ProcStates
<1>3. p \in ProcRecord
  BY IdleGood, <1>2 DEF ProcRecord
<1>4. Ready(p)
  BY IdleGood DEF ProcRecord, Ready
<1>5. ProcsGood'
  BY <1>1, <1>3, <1>4, BeginGood DEF GoodProc
<1>6. "CANCELLED" \in ReservationStatuses /\ \A r \in Ids \cap S : Exists(r)
  BY DEF ReservationStatuses, Active
<1>7. reservations' = [r \in Ids |-> IF r \in S
                                     THEN [reservations[r] EXCEPT !.status = "CANCELLED"]
                                     ELSE reservations[r]]
  BY <1>1
<1> HIDE DEF S
<1>8. reservations' \in [Ids -> ReservationRow \cup {NoRow}]
  BY <1>6, <1>7, StatusesGood
<1>9. QED BY <1>5, <1>8 DEF RestOK, StartHardDelete, bounds, history

-----------------------------------------------------------------------------
(***************************************************************************)
(* Reserving, cancelling and moving.                                       *)
(***************************************************************************)

\* What a request that can take its next step carries.
LEMMA Carried ==
  ASSUME ProcsGood, NEW t \in Threads
  PROVE  proc[t] \in ProcRecord /\ Ready(proc[t])
  BY DEF ProcsGood, GoodProc

LEMMA NextSlotGood ==
  ASSUME ProcsGood, NEW t \in Threads, proc[t].pc \in {"conflict", "insert"}, NextSlot(t)
  PROVE  ProcsGood'
<1>1. CASE Len(proc[t].slots) > 1
  <2> DEFINE p == [proc[t] EXCEPT !.pc = "conflict", !.slots = Tail(@), !.seen = {}]
  <2>1. proc[t].slots \in Seq(SlotSet) /\ proc[t].slots # << >>
    BY Carried DEF ProcRecord, Ready
  <2>2. Tail(proc[t].slots) \in Seq(SlotSet) /\ Tail(proc[t].slots) # << >>
    BY <1>1, <2>1, TailGood
  <2>3. "conflict" \in ProcStates
    BY DEF ProcStates
  <2>4. p \in ProcRecord
    BY Carried, <2>2, <2>3 DEF ProcRecord
  <2>5. Ready(p)
    BY Carried, <2>2 DEF ProcRecord, Ready
  <2>6. QED BY <1>1, <2>4, <2>5, BecomeGood DEF NextSlot, GoodProc
<1>2. CASE ~(Len(proc[t].slots) > 1)
  BY <1>2, FinishGood DEF NextSlot
<1>3. QED BY <1>1, <1>2

LEMMA SnapshotGood ==
  ASSUME RestOK
  PROVE  Snapshot \in SUBSET (Ids \X Nat)
  BY DEF RestOK, Snapshot

LEMMA FindConflictType ==
  ASSUME RestOK, ProcsGood, NEW t \in Threads, FindConflict(t)
  PROVE  RestOK' /\ ProcsGood'
<1> DEFINE p == [proc[t] EXCEPT !.pc = "insert", !.seen = Snapshot]
<1>1. "insert" \in ProcStates
  BY DEF ProcStates
<1>2. p \in ProcRecord
  BY Carried, SnapshotGood, <1>1 DEF ProcRecord
<1>3. Ready(p)
  BY Carried DEF FindConflict, ProcRecord, Ready
<1>4. Become(t, p) => ProcsGood'
  BY <1>2, <1>3, BecomeGood DEF GoodProc
<1>5. ProcsGood'
  BY <1>4, NextSlotGood DEF FindConflict
<1>6. QED BY <1>5, RestStutter DEF FindConflict, tables, bounds, history

\* A row inserted for a request is a row of the tables.
LEMMA InsertRowGood ==
  ASSUME RestOK, NEW r \in Ids, NEW d \in Desks, NEW u \in Users, NEW slot \in SlotSet,
         NEW type \in Types \cup {"STANDARD"}, NEW known \in SUBSET (Ids \X Nat),
         InsertRow(r, d, u, slot, type, known)
  PROVE  /\ reservations' \in [Ids -> ReservationRow \cup {NoRow}]
         /\ version' \in [Ids -> Nat]
         /\ seen' \in [Ids -> SUBSET (Ids \X Nat)]
<1>1. [desk |-> d, user |-> u, slot |-> slot, type |-> type, status |-> "CONFIRMED"]
        \in ReservationRow
  BY DEF ReservationRow, ReservationStatuses
<1>2. QED BY <1>1 DEF RestOK, InsertRow

LEMMA InsertReservationType ==
  ASSUME RestOK, ProcsGood, NEW t \in Threads, InsertReservation(t)
  PROVE  RestOK' /\ ProcsGood'
<1>1. PICK r \in Ids : InsertRow(r, proc[t].desk, proc[t].user, Head(proc[t].slots),
                                 proc[t].type, proc[t].seen)
  BY DEF InsertReservation
<1>2. /\ proc[t].pc = "insert" /\ proc[t].desk \in Desks /\ proc[t].user \in Users
      /\ proc[t].slots \in Seq(SlotSet) /\ proc[t].slots # << >>
      /\ proc[t].type \in Types \cup {"STANDARD"} /\ proc[t].seen \in SUBSET (Ids \X Nat)
  BY Carried DEF InsertReservation, ProcRecord, Ready
<1>3. /\ reservations' \in [Ids -> ReservationRow \cup {NoRow}]
      /\ version' \in [Ids -> Nat]
      /\ seen' \in [Ids -> SUBSET (Ids \X Nat)]
  BY <1>1, <1>2, HeadGood, InsertRowGood
<1>4. RestOK'
  BY <1>3 DEF RestOK, InsertReservation, bounds
<1> DEFINE p == [proc[t] EXCEPT !.pc = "visible", !.seen = {}]
<1>5. "visible" \in ProcStates
  BY DEF ProcStates
<1>6. p \in ProcRecord
  BY Carried, <1>5 DEF ProcRecord
<1>7. Ready(p)
  BY Carried, <1>2 DEF ProcRecord, Ready
<1>8. Become(t, p) => ProcsGood'
  BY <1>6, <1>7, BecomeGood DEF GoodProc
<1>9. NextSlot(t) \/ Finish(t) \/ Become(t, p)
  BY Zenon DEF InsertReservation
<1>10. ProcsGood'
  BY <1>2, <1>8, <1>9, NextSlotGood, FinishGood
<1>11. QED BY <1>4, <1>10

LEMMA InsertFailsType ==
  ASSUME RestOK, ProcsGood, NEW t \in Threads, InsertFails(t)
  PROVE  RestOK' /\ ProcsGood'
  BY FinishGood, RestStutter DEF InsertFails, tables, bounds, history

LEMMA ReadOccupantType ==
  ASSUME RestOK, ProcsGood, NEW t \in Threads, ReadOccupant(t)
  PROVE  RestOK' /\ ProcsGood'
<1>1. proc[t].desk \in Desks /\ LedOfType(proc[t].type) \in LedStates
  BY Carried, LedGood DEF ReadOccupant, ProcRecord, Ready
<1>2. ProcsGood'
  BY <1>1, FinishGood, EmitGood DEF ReadOccupant
<1>3. QED BY <1>2, RestStutter DEF ReadOccupant, tables, bounds, history

\* The table after the status of one reservation was written.
LEMMA SetStatusGood ==
  ASSUME RestOK, NEW r \in Ids, Exists(r), NEW status \in ReservationStatuses,
         SetStatus(r, status)
  PROVE  reservations' \in [Ids -> ReservationRow \cup {NoRow}]
<1>1. [reservations[r] EXCEPT !.status = status] \in ReservationRow
  BY RowGood DEF ReservationRow
<1>2. QED BY <1>1 DEF RestOK, SetStatus

LEMMA CancelReservationType ==
  ASSUME RestOK, ProcsGood, NEW t \in Threads, CancelReservation(t)
  PROVE  RestOK' /\ ProcsGood'
<1>1. proc[t].desk \in Desks /\ proc[t].res \in Ids
  BY Carried DEF CancelReservation, ProcRecord, Ready
<1>2. reservations' \in [Ids -> ReservationRow \cup {NoRow}]
  <2>1. CASE Exists(proc[t].res)
    BY <1>1, <2>1, SetStatusGood DEF CancelReservation, ReservationStatuses
  <2>2. CASE ~Exists(proc[t].res)
    BY <2>2 DEF CancelReservation, RestOK
  <2>3. QED BY <2>1, <2>2
<1>3. "close" \in ProcStates
  BY DEF ProcStates
<1>4. Ready([proc[t] EXCEPT !.pc = "close"])
  BY <1>1, Carried DEF ProcRecord, Ready
<1>5. ProcsGood'
  BY <1>3, <1>4, FinishGood, GotoGood DEF CancelReservation
<1>6. QED BY <1>2, <1>5 DEF CancelReservation, RestOK, bounds, history

\* The table after check-ins were closed, and after one was opened.
LEMMA ClosedGood ==
  ASSUME RestOK, NEW r \in Ids, checkins[r] # NoRow
  PROVE  [checkins[r] EXCEPT !.out = TRUE] \in CheckinRow
  BY CheckinGood DEF CheckinRow

LEMMA CloseCancelledCheckinType ==
  ASSUME RestOK, ProcsGood, NEW t \in Threads, CloseCancelledCheckin(t)
  PROVE  RestOK' /\ ProcsGood'
<1>1. proc[t].desk \in Desks /\ proc[t].res \in Ids /\ "FREE" \in LedStates
  BY Carried DEF CloseCancelledCheckin, ProcRecord, Ready, LedStates
<1>2. checkins' \in [Ids -> CheckinRow \cup {NoRow}]
  BY <1>1, ClosedGood DEF CloseCancelledCheckin, Open, RestOK
<1>3. ProcsGood'
  BY <1>1, EmitGood DEF CloseCancelledCheckin
<1>4. QED BY <1>2, <1>3 DEF CloseCancelledCheckin, RestOK, bounds, history

LEMMA SyncFindConflictType ==
  ASSUME RestOK, ProcsGood, NEW t \in Threads, SyncFindConflict(t)
  PROVE  RestOK' /\ ProcsGood'
<1> DEFINE p == [proc[t] EXCEPT !.pc = "move", !.seen = Snapshot]
<1>1. "move" \in ProcStates
  BY DEF ProcStates
<1>2. p \in ProcRecord
  BY Carried, SnapshotGood, <1>1 DEF ProcRecord
<1>3. Ready(p)
  BY Carried DEF SyncFindConflict, ProcRecord, Ready
<1>4. Become(t, p) => ProcsGood'
  BY <1>2, <1>3, BecomeGood DEF GoodProc
<1>5. ProcsGood'
  BY <1>4, FinishGood DEF SyncFindConflict
<1>6. QED BY <1>5, RestStutter DEF SyncFindConflict, tables, bounds, history

LEMMA MoveReservationType ==
  ASSUME RestOK, ProcsGood, NEW t \in Threads, MoveReservation(t)
  PROVE  RestOK' /\ ProcsGood'
<1> DEFINE r == proc[t].res
           slot == Head(proc[t].slots)
<1>1. r \in Ids /\ slot \in SlotSet /\ proc[t].seen \in SUBSET (Ids \X Nat)
  BY Carried, HeadGood DEF MoveReservation, ProcRecord, Ready
<1>2. ProcsGood'
  BY FinishGood DEF MoveReservation
<1>3. CASE Exists(r)
  <2>1. [date |-> reservations[r].slot.date, start |-> slot.start, end |-> slot.end]
          \in SlotSet
    BY <1>1, <1>3, RowGood DEF ReservationRow, SlotSet
  <2> DEFINE row == [reservations[r] EXCEPT !.slot =
                       [date |-> @.date, start |-> slot.start, end |-> slot.end]]
  <2>2. row \in ReservationRow
    BY <1>1, <1>3, <2>1, RowGood DEF ReservationRow
  <2>3. reservations' = [reservations EXCEPT ![r] = row]
    BY <1>3 DEF MoveReservation
  <2>4. /\ reservations' \in [Ids -> ReservationRow \cup {NoRow}]
        /\ version' \in [Ids -> Nat]
        /\ seen' \in [Ids -> SUBSET (Ids \X Nat)]
    BY <1>1, <1>3, <2>2, <2>3 DEF MoveReservation, RestOK
  <2>5. QED BY <1>2, <2>4 DEF MoveReservation, RestOK, bounds
<1>4. CASE ~Exists(r)
  BY <1>2, <1>4, RestStutter DEF MoveReservation, bounds, history
<1>5. QED BY <1>3, <1>4

-----------------------------------------------------------------------------
(***************************************************************************)
(* Checking in and out.                                                    *)
(***************************************************************************)
LEMMA AnswerScanGood ==
  ASSUME ProcsGood, NEW t \in Threads, NEW state \in LedStates, proc[t].desk \in Desks,
         AnswerScan(t, state)
  PROVE  ProcsGood'
  BY EmitGood, FinishGood DEF AnswerScan

LEMMA ReadCheckinType ==
  ASSUME RestOK, ProcsGood, NEW t \in Threads, ReadCheckin(t)
  PROVE  RestOK' /\ ProcsGood'
<1>1. proc[t].desk \in Desks /\ proc[t].res \in Ids
  BY Carried DEF ReadCheckin, ProcRecord, Ready
<1>2. "OCCUPIED" \in LedStates /\ "checkin" \in ProcStates
  BY DEF LedStates, ProcStates
<1>3. Ready([proc[t] EXCEPT !.pc = "checkin"])
  BY <1>1, Carried DEF ProcRecord, Ready
<1>4. ProcsGood'
  BY <1>1, <1>2, <1>3, AnswerScanGood, GotoGood DEF ReadCheckin
<1>5. QED BY <1>4, RestStutter DEF ReadCheckin, tables, bounds, history

LEMMA CreateCheckinType ==
  ASSUME RestOK, ProcsGood, NEW t \in Threads, CreateCheckin(t)
  PROVE  RestOK' /\ ProcsGood'
<1>1. proc[t].desk \in Desks /\ proc[t].res \in Ids
  BY Carried DEF CreateCheckin, ProcRecord, Ready
<1>2. "OCCUPIED" \in LedStates /\ "ERROR" \in LedStates
  BY DEF LedStates
<1>3. ProcsGood'
  BY <1>1, <1>2, AnswerScanGood, EmitGood DEF CreateCheckin
<1>4. [desk |-> proc[t].desk, out |-> FALSE] \in CheckinRow
  BY <1>1 DEF CheckinRow
<1>5. checkins' \in [Ids -> CheckinRow \cup {NoRow}]
  BY <1>1, <1>4 DEF CreateCheckin, RestOK
<1>6. QED BY <1>3, <1>5 DEF CreateCheckin, RestOK, bounds, history

LEMMA WalkinReadOccupantType ==
  ASSUME RestOK, ProcsGood, NEW t \in Threads, WalkinReadOccupant(t)
  PROVE  RestOK' /\ ProcsGood'
<1>1. "walkNext" \in ProcStates
  BY DEF ProcStates
<1>2. Ready([proc[t] EXCEPT !.pc = "walkNext"])
  BY Carried DEF WalkinReadOccupant, ProcRecord, Ready
<1>3. ProcsGood'
  BY <1>1, <1>2, FinishGood, GotoGood DEF WalkinReadOccupant
<1>4. QED BY <1>3, RestStutter DEF WalkinReadOccupant, tables, bounds, history

LEMMA WalkinReadNextType ==
  ASSUME RestOK, ProcsGood, NEW t \in Threads, WalkinReadNext(t)
  PROVE  RestOK' /\ ProcsGood'
<1> DEFINE slot == Head(proc[t].slots)
           next == NextReservations(proc[t].desk, proc[t].user, slot)
           known == {<<r, version[r]>> : r \in next}
           until(first) == reservations[first].slot.start - WalkinGap
           p(first) == [proc[t] EXCEPT !.pc = "walkin", !.seen = known,
                          !.slots = <<[slot EXCEPT !.end = until(first)]>>]
<1>1. slot \in SlotSet /\ proc[t].pc = "walkNext"
  BY Carried, HeadGood DEF WalkinReadNext, ProcRecord, Ready
<1>2. next \subseteq Ids /\ known \in SUBSET (Ids \X Nat)
  BY DEF NextReservations, RestOK
<1>3. "walkin" \in ProcStates
  BY DEF ProcStates
<1>4. ASSUME NEW first \in next
      PROVE  p(first) \in GoodProc
  <2>1. reservations[first].slot.start \in Int
    BY <1>2, <1>4, RowGood DEF NextReservations, Active, ReservationRow, SlotSet
  <2>2. until(first) \in Int
    BY <2>1, DeskAssumption
  <2>3. [slot EXCEPT !.end = until(first)] \in SlotSet
    BY <1>1, <2>2 DEF SlotSet
  <2> DEFINE slots == <<[slot EXCEPT !.end = until(first)]>>
  <2>4. slots \in Seq(SlotSet) /\ slots # << >>
    BY <2>3
  <2> HIDE DEF slots, known
  <2>5. [proc[t] EXCEPT !.pc = "walkin", !.seen = known, !.slots = slots] \in ProcRecord
    BY Carried, <1>2, <1>3, <2>4 DEF ProcRecord
  <2>6. Ready([proc[t] EXCEPT !.pc = "walkin", !.seen = known, !.slots = slots])
    BY Carried, <1>1, <2>4 DEF ProcRecord, Ready
  <2>7. QED BY <2>5, <2>6 DEF GoodProc, slots
<1>5. Ready([proc[t] EXCEPT !.pc = "walkin"])
  BY Carried, <1>1 DEF ProcRecord, Ready
<1>6. Goto(t, "walkin") \/ \E first \in next : Become(t, p(first))
  BY DEF WalkinReadNext
<1> HIDE DEF next, p
<1>7. ProcsGood'
  BY <1>3, <1>4, <1>5, <1>6, GotoGood, BecomeGood
<1>8. QED BY <1>7, RestStutter DEF WalkinReadNext, tables, bounds, history

LEMMA CreateWalkinType ==
  ASSUME RestOK, ProcsGood, NEW t \in Threads, CreateWalkin(t)
  PROVE  RestOK' /\ ProcsGood'
<1>1. PICK r \in Ids :
        /\ InsertRow(r, proc[t].desk, proc[t].user, Head(proc[t].slots), "STANDARD",
                     proc[t].seen)
        /\ checkins' = [checkins EXCEPT ![r] = [desk |-> proc[t].desk, out |-> FALSE]]
  BY DEF CreateWalkin
<1>2. /\ proc[t].desk \in Desks /\ proc[t].user \in Users
      /\ Head(proc[t].slots) \in SlotSet /\ proc[t].seen \in SUBSET (Ids \X Nat)
  BY Carried, HeadGood DEF CreateWalkin, ProcRecord, Ready
<1>3. /\ reservations' \in [Ids -> ReservationRow \cup {NoRow}]
      /\ version' \in [Ids -> Nat]
      /\ seen' \in [Ids -> SUBSET (Ids \X Nat)]
  BY <1>1, <1>2, InsertRowGood
<1>4. [desk |-> proc[t].desk, out |-> FALSE] \in CheckinRow
  BY <1>2 DEF CheckinRow
<1>5. checkins' \in [Ids -> CheckinRow \cup {NoRow}]
  BY <1>1, <1>4 DEF RestOK
<1>6. "OCCUPIED" \in LedStates
  BY DEF LedStates
<1>7. ProcsGood'
  BY <1>2, <1>6, EmitGood DEF CreateWalkin
<1>8. QED BY <1>3, <1>5, <1>7 DEF CreateWalkin, RestOK, bounds

LEMMA CheckoutType ==
  ASSUME RestOK, ProcsGood, NEW t \in Threads, Checkout(t)
  PROVE  RestOK' /\ ProcsGood'
<1>1. proc[t].desk \in Desks /\ proc[t].res \in Ids
  BY Carried DEF Checkout, ProcRecord, Ready
<1>2. "after" \in ProcStates
  BY DEF ProcStates
<1>3. Ready([proc[t] EXCEPT !.pc = "after"])
  BY <1>1, Carried DEF ProcRecord, Ready
<1>4. ProcsGood'
  BY <1>2, <1>3, FinishGood, GotoGood DEF Checkout
<1>5. CASE Exists(proc[t].res) /\ checkins[proc[t].res] # NoRow
  <2>1. "COMPLETED" \in ReservationStatuses
    BY DEF ReservationStatuses
  <2>2. reservations' \in [Ids -> ReservationRow \cup {NoRow}]
    BY <1>1, <1>5, <2>1, SetStatusGood DEF Checkout
  <2>3. checkins' \in [Ids -> CheckinRow \cup {NoRow}]
    BY <1>1, <1>5, ClosedGood DEF Checkout, RestOK
  <2>4. QED BY <1>4, <2>2, <2>3 DEF Checkout, RestOK, bounds, history
<1>6. CASE ~(Exists(proc[t].res) /\ checkins[proc[t].res] # NoRow)
  BY <1>4, <1>6, RestStutter DEF Checkout, bounds, history
<1>7. QED BY <1>5, <1>6

LEMMA CheckoutReadLedType ==
  ASSUME RestOK, ProcsGood, NEW t \in Threads, CheckoutReadLed(t)
  PROVE  RestOK' /\ ProcsGood'
<1>1. proc[t].desk \in Desks
  BY Carried DEF CheckoutReadLed, Ready
<1>2. ProcsGood'
  BY <1>1, LedGood, EmitGood DEF CheckoutReadLed
<1>3. QED BY <1>2, RestStutter DEF CheckoutReadLed, tables, bounds, history

-----------------------------------------------------------------------------
(***************************************************************************)
(* The LED and the deletion of a desk.                                     *)
(***************************************************************************)
LEMMA EmitType ==
  ASSUME RestOK, ProcsGood, NEW t \in Threads, Emit(t)
  PROVE  RestOK' /\ ProcsGood'
<1>1. proc[t].desk \in Desks /\ proc[t].led \in LedStates
  BY Carried DEF Emit, ProcRecord, Ready
<1>2. "restoreCheckin" \in ProcStates
  BY DEF ProcStates
<1>3. Ready([proc[t] EXCEPT !.pc = "restoreCheckin"])
  BY <1>1, Carried DEF ProcRecord, Ready
<1>4. ProcsGood'
  BY <1>2, <1>3, FinishGood, GotoGood DEF Emit
<1>5. led' \in [Desks -> LedStates]
  BY <1>1 DEF Emit, RestOK
<1>6. QED BY <1>4, <1>5 DEF Emit, RestOK, tables, bounds, history

LEMMA RestoreReadCheckinType ==
  ASSUME RestOK, ProcsGood, NEW t \in Threads, RestoreReadCheckin(t)
  PROVE  RestOK' /\ ProcsGood'
<1>1. proc[t].desk \in Desks
  BY Carried DEF RestoreReadCheckin, Ready
<1>2. "restoreReservation" \in ProcStates /\ "OCCUPIED" \in LedStates
  BY DEF ProcStates, LedStates
<1>3. Ready([proc[t] EXCEPT !.pc = "restoreReservation"])
  BY <1>1, Carried DEF ProcRecord, Ready
<1>4. ProcsGood'
  BY <1>1, <1>2, <1>3, EmitGood, GotoGood DEF RestoreReadCheckin
<1>5. QED BY <1>4, RestStutter DEF RestoreReadCheckin, tables, bounds, history

LEMMA RestoreReadReservationType ==
  ASSUME RestOK, ProcsGood, NEW t \in Threads, RestoreReadReservation(t)
  PROVE  RestOK' /\ ProcsGood'
<1>1. proc[t].desk \in Desks
  BY Carried DEF RestoreReadReservation, Ready
<1>2. PICK state : ThenEmit(t, proc[t].desk, IF state = "FREE" THEN "FREE" ELSE "RESERVED")
  BY DEF RestoreReadReservation
<1>3. (IF state = "FREE" THEN "FREE" ELSE "RESERVED") \in LedStates
  BY DEF LedStates
<1>4. ProcsGood'
  BY <1>1, <1>2, <1>3, EmitGood
<1>5. QED BY <1>4, RestStutter DEF RestoreReadReservation, tables, bounds, history

LEMMA DeleteCloseCheckinsType ==
  ASSUME RestOK, ProcsGood, NEW t \in Threads, DeleteCloseCheckins(t)
  PROVE  RestOK' /\ ProcsGood'
<1>1. "delete" \in ProcStates
  BY DEF ProcStates
<1>2. Ready([proc[t] EXCEPT !.pc = "delete"])
  BY Carried DEF DeleteCloseCheckins, ProcRecord, Ready
<1>3. ProcsGood'
  BY <1>1, <1>2, GotoGood DEF DeleteCloseCheckins
<1>4. checkins' \in [Ids -> CheckinRow \cup {NoRow}]
  BY ClosedGood DEF DeleteCloseCheckins, Open, RestOK
<1>5. QED BY <1>3, <1>4 DEF DeleteCloseCheckins, RestOK, bounds, history

LEMMA DeleteDeskType ==
  ASSUME RestOK, ProcsGood, NEW t \in Threads, DeleteDesk(t)
  PROVE  RestOK' /\ ProcsGood'
<1>1. ProcsGood'
  BY FinishGood DEF DeleteDesk
<1>2. deskStatus' \in [Desks -> DeskStatuses]
  BY DEF DeleteDesk, RestOK, DeskStatuses
<1>3. reservations' \in [Ids -> ReservationRow \cup {NoRow}]
  BY DEF DeleteDesk, RestOK
<1>4. checkins' \in [Ids -> CheckinRow \cup {NoRow}]
  BY DEF DeleteDesk, RestOK
<1>5. QED BY <1>1, <1>2, <1>3, <1>4 DEF DeleteDesk, RestOK, bounds, history

-----------------------------------------------------------------------------
(***************************************************************************)
(* The cron jobs.                                                          *)
(***************************************************************************)
LEMMA JobTypes ==
  /\ IdleJob \in JobRecord
  /\ \A job \in JobRecord, pc \in {"idle", "update", "emit", "after", "active"} :
       [job EXCEPT !.pc = pc] \in JobRecord
<1>1. IdleJob \in JobRecord
  BY DEF IdleJob, JobRecord, NoLeds
<1>2. QED BY <1>1 DEF JobRecord

LEMMA JobGood ==
  ASSUME RestOK, NEW j \in JobNames, NEW job \in JobRecord, Job(j, job)
  PROVE  jobs' \in [JobNames -> JobRecord]
  BY DEF RestOK, Job

LEMMA JobIs ==
  ASSUME RestOK, NEW j \in JobNames
  PROVE  jobs[j] \in JobRecord
  BY DEF RestOK

LEMMA ProcStutter ==
  ASSUME ProcsGood, UNCHANGED <<proc, requests>>
  PROVE  ProcsGood'
  BY DEF ProcsGood

LEMMA EmitAllGood ==
  ASSUME RestOK, NEW job \in JobRecord, EmitAll(job.leds)
  PROVE  led' \in [Desks -> LedStates]
  BY DEF RestOK, EmitAll, JobRecord

LEMMA ExpireOldType ==
  ASSUME RestOK, ProcsGood, ExpireOld
  PROVE  RestOK' /\ ProcsGood'
<1> USE DEF JobNames
<1>1. CASE ExpireOldRead
  <2> DEFINE old == {r \in Ids : Active(r) /\ Ended(r)}
             leds == [d \in Desks |-> IF \E r \in old : reservations[r].desk = d
                                      THEN "FREE" ELSE "none"]
             job == [IdleJob EXCEPT !.pc = "update", !.ids = old, !.leds = leds]
  <2>1. old \subseteq Ids /\ leds \in [Desks -> LedStates \cup {"none"}]
    BY DEF LedStates
  <2>2. job \in JobRecord
    BY <2>1, JobTypes DEF JobRecord
  <2>3. jobs' \in [JobNames -> JobRecord]
    BY <1>1, <2>2, JobGood DEF ExpireOldRead
  <2>4. QED BY <1>1, <2>3, ProcStutter DEF ExpireOldRead, RestOK, tables, bounds, history
<1>2. CASE ExpireOldUpdate
  <2> DEFINE S == {r \in Ids : r \in jobs["expireOld"].ids /\ Exists(r)}
  <2>1. "EXPIRED" \in ReservationStatuses /\ \A r \in Ids \cap S : Exists(r)
    BY DEF ReservationStatuses
  <2>2. reservations' = [r \in Ids |-> IF r \in S
                                       THEN [reservations[r] EXCEPT !.status = "EXPIRED"]
                                       ELSE reservations[r]]
    BY <1>2 DEF ExpireOldUpdate
  <2> HIDE DEF S
  <2>3. reservations' \in [Ids -> ReservationRow \cup {NoRow}]
    BY <2>1, <2>2, StatusesGood
  <2>4. jobs' \in [JobNames -> JobRecord]
    BY <1>2, JobIs, JobTypes, JobGood DEF ExpireOldUpdate
  <2>5. QED BY <1>2, <2>3, <2>4, ProcStutter DEF ExpireOldUpdate, RestOK, bounds, history
<1>3. CASE ExpireOldEmit
  <2>1. led' \in [Desks -> LedStates]
    BY <1>3, JobIs, EmitAllGood DEF ExpireOldEmit
  <2>2. jobs' \in [JobNames -> JobRecord]
    BY <1>3, JobTypes, JobGood DEF ExpireOldEmit
  <2>3. QED BY <1>3, <2>1, <2>2, ProcStutter DEF ExpireOldEmit, RestOK, tables, bounds,
               history
<1>4. QED BY <1>1, <1>2, <1>3 DEF ExpireOld

LEMMA AutoCheckoutType ==
  ASSUME RestOK, ProcsGood, AutoCheckout
  PROVE  RestOK' /\ ProcsGood'
<1> USE DEF JobNames
<1>1. CASE AutoCheckoutRead
  <2>1. PICK stale \in SUBSET {r \in Ids : Open(r) /\ ~Exists(r)} :
          Job("autoCheckout",
              [IdleJob EXCEPT !.pc = "update",
                 !.ids = {r \in Ids : Open(r) /\ Ended(r)} \cup stale,
                 !.desks = {checkins[r].desk :
                              r \in {r \in Ids : Open(r) /\ Ended(r)} \cup stale}])
    BY <1>1 DEF AutoCheckoutRead
  <2> DEFINE toClose == {r \in Ids : Open(r) /\ Ended(r)} \cup stale
             desks == {checkins[r].desk : r \in toClose}
             job == [IdleJob EXCEPT !.pc = "update", !.ids = toClose, !.desks = desks]
  <2>2. toClose \subseteq Ids
    OBVIOUS
  <2>3. \A r \in toClose : checkins[r].desk \in Desks
    BY CheckinGood DEF Open
  <2>4. desks \subseteq Desks
    BY <2>3
  <2> HIDE DEF toClose, desks
  <2>5. job \in JobRecord
    BY <2>2, <2>4, JobTypes DEF JobRecord
  <2>6. Job("autoCheckout", job)
    BY <2>1 DEF toClose, desks
  <2>7. jobs' \in [JobNames -> JobRecord]
    BY <2>5, <2>6, JobGood
  <2>8. QED BY <1>1, <2>7, ProcStutter DEF AutoCheckoutRead, RestOK, tables, bounds, history
<1>2. CASE AutoCheckoutUpdate
  <2> DEFINE S == {r \in Ids : r \in jobs["autoCheckout"].ids /\ Exists(r)}
  <2>1. "COMPLETED" \in ReservationStatuses /\ \A r \in Ids \cap S : Exists(r)
    BY DEF ReservationStatuses
  <2>2. reservations' = [r \in Ids |-> IF r \in S
                                       THEN [reservations[r] EXCEPT !.status = "COMPLETED"]
                                       ELSE reservations[r]]
    BY <1>2 DEF AutoCheckoutUpdate
  <2> HIDE DEF S
  <2>3. reservations' \in [Ids -> ReservationRow \cup {NoRow}]
    BY <2>1, <2>2, StatusesGood
  <2>4. checkins' \in [Ids -> CheckinRow \cup {NoRow}]
    BY <1>2, ClosedGood DEF AutoCheckoutUpdate, RestOK
  <2>5. jobs' \in [JobNames -> JobRecord]
    BY <1>2, JobIs, JobTypes, JobGood DEF AutoCheckoutUpdate
  <2>6. QED BY <1>2, <2>3, <2>4, <2>5, ProcStutter DEF AutoCheckoutUpdate, RestOK, bounds,
               history
<1>3. CASE AutoCheckoutReadLed
  <2>1. PICK d \in Desks, state \in LedStates :
          Job("autoCheckout", [jobs["autoCheckout"] EXCEPT !.pc = "emit",
                                 !.leds = [NoLeds EXCEPT ![d] = state], !.desks = @ \ {d}])
    BY <1>3, JobIs DEF AutoCheckoutReadLed, JobRecord
  <2> DEFINE leds == [NoLeds EXCEPT ![d] = state]
             job == [jobs["autoCheckout"] EXCEPT !.pc = "emit", !.leds = leds,
                                                 !.desks = @ \ {d}]
  <2>2. leds \in [Desks -> LedStates \cup {"none"}]
    BY DEF NoLeds
  <2> HIDE DEF leds
  <2>3. job \in JobRecord
    BY <2>2, JobIs DEF JobRecord
  <2>4. Job("autoCheckout", job)
    BY <2>1 DEF leds
  <2>5. jobs' \in [JobNames -> JobRecord]
    BY <2>3, <2>4, JobGood
  <2>6. QED BY <1>3, <2>5, ProcStutter DEF AutoCheckoutReadLed, RestOK, tables, bounds,
               history
<1>4. CASE AutoCheckoutEmit
  <2>1. led' \in [Desks -> LedStates]
    BY <1>4, JobIs, EmitAllGood DEF AutoCheckoutEmit
  <2>2. NoLeds \in [Desks -> LedStates \cup {"none"}]
    BY DEF NoLeds
  <2>3. [jobs["autoCheckout"] EXCEPT !.pc = "after", !.leds = NoLeds] \in JobRecord
    BY <2>2, JobIs DEF JobRecord
  <2>4. jobs' \in [JobNames -> JobRecord]
    BY <1>4, <2>3, JobTypes, JobGood DEF AutoCheckoutEmit
  <2>5. QED BY <1>4, <2>1, <2>4, ProcStutter DEF AutoCheckoutEmit, RestOK, tables, bounds,
               history
<1>5. QED BY <1>1, <1>2, <1>3, <1>4 DEF AutoCheckout

LEMMA AutoReservedType ==
  ASSUME RestOK, ProcsGood, AutoReserved
  PROVE  RestOK' /\ ProcsGood'
<1> USE DEF JobNames
<1>1. CASE AutoReservedRead
  <2>1. PICK leds \in [Desks -> {"RESERVED", "GUEST_RESERVED", "none"}] :
          Job("autoReservedLed", [IdleJob EXCEPT !.pc = "active", !.leds = leds])
    BY <1>1 DEF AutoReservedRead
  <2>2. leds \in [Desks -> LedStates \cup {"none"}]
    BY DEF LedStates
  <2>3. [IdleJob EXCEPT !.pc = "active", !.leds = leds] \in JobRecord
    BY <2>2, JobTypes DEF JobRecord
  <2>4. jobs' \in [JobNames -> JobRecord]
    BY <2>1, <2>3, JobGood
  <2>5. QED BY <1>1, <2>4, ProcStutter DEF AutoReservedRead, RestOK, tables, bounds, history
<1>2. CASE AutoReservedReadCheckins
  <2> DEFINE old == jobs["autoReservedLed"]
             leds == [d \in Desks |-> IF DeskOccupied(d) THEN "none" ELSE old.leds[d]]
  <2>1. leds \in [Desks -> LedStates \cup {"none"}]
    BY JobIs DEF JobRecord
  <2>2. Job("autoReservedLed", [old EXCEPT !.pc = "emit", !.leds = leds])
    BY <1>2 DEF AutoReservedReadCheckins
  <2> HIDE DEF leds
  <2>3. [old EXCEPT !.pc = "emit", !.leds = leds] \in JobRecord
    BY <2>1, JobIs DEF JobRecord
  <2>4. jobs' \in [JobNames -> JobRecord]
    BY <2>2, <2>3, JobGood
  <2>5. QED BY <1>2, <2>4, ProcStutter DEF AutoReservedReadCheckins, RestOK, tables, bounds,
               history
<1>3. CASE AutoReservedEmit
  <2>1. led' \in [Desks -> LedStates]
    BY <1>3, JobIs, EmitAllGood DEF AutoReservedEmit
  <2>2. jobs' \in [JobNames -> JobRecord]
    BY <1>3, JobTypes, JobGood DEF AutoReservedEmit
  <2>3. QED BY <1>3, <2>1, <2>2, ProcStutter DEF AutoReservedEmit, RestOK, tables, bounds,
               history
<1>4. QED BY <1>1, <1>2, <1>3 DEF AutoReserved

-----------------------------------------------------------------------------
LEMMA InitType == Init => TypeInv
<1> SUFFICES ASSUME Init PROVE TypeInv
  OBVIOUS
<1>1. ProcsGood
  BY IdleGood DEF Init, ProcsGood
<1>2. RestOK
  BY JobTypes DEF Init, RestOK, DeskStatuses, LedStates
<1>3. QED BY <1>1, <1>2, TypeInvSplit

LEMMA StartType ==
  ASSUME RestOK, ProcsGood, NEW t \in Threads, Start(t)
  PROVE  RestOK' /\ ProcsGood'
  BY StartCreateType, StartRecurringType, StartTeamsType, StartCancelType,
     StartGraphSyncType, StartCheckinType, StartManualType, RejectScanType,
     StartWalkinType, StartCheckoutType, StartRestoreType, UpdateDeskType,
     SetDeskStatusType, StartHardDeleteType DEF Start

LEMMA ContinueType ==
  ASSUME RestOK, ProcsGood, NEW t \in Threads, Continue(t)
  PROVE  RestOK' /\ ProcsGood'
  BY FindConflictType, InsertReservationType, InsertFailsType, ReadOccupantType,
     CancelReservationType, CloseCancelledCheckinType, SyncFindConflictType,
     MoveReservationType, ReadCheckinType, CreateCheckinType, WalkinReadOccupantType,
     WalkinReadNextType, CreateWalkinType, CheckoutType, CheckoutReadLedType, EmitType,
     RestoreReadCheckinType, RestoreReadReservationType, DeleteCloseCheckinsType,
     DeleteDeskType DEF Continue

LEMMA StepType == TypeInv /\ [Next]_vars => TypeInv'
<1> SUFFICES ASSUME TypeInv, [Next]_vars PROVE TypeInv'
  OBVIOUS
<1>1. RestOK /\ ProcsGood
  BY TypeInvSplit
<1>2. CASE \E t \in Threads : Handle(t)
  BY <1>1, <1>2, StartType, ContinueType, TypeInvSplitPrime DEF Handle
<1>3. CASE ExpireOld \/ AutoCheckout \/ AutoReserved
  BY <1>1, <1>3, ExpireOldType, AutoCheckoutType, AutoReservedType, TypeInvSplitPrime
<1>4. CASE Tick
  <2>1. now' \in Nat
    BY <1>1, <1>4 DEF Tick, RestOK
  <2>2. RestOK'
    BY <1>1, <1>4, <2>1 DEF Tick, RestOK, tables, history
  <2>3. QED BY <1>1, <1>4, <2>2, ProcStutter, TypeInvSplitPrime DEF Tick
<1>5. CASE Crash
  <2>1. crashes' \in Nat
    BY <1>1, <1>5 DEF Crash, RestOK
  <2>2. jobs' \in [JobNames -> JobRecord]
    BY <1>5, JobTypes DEF Crash
  <2>3. RestOK'
    BY <1>1, <1>5, <2>1, <2>2 DEF Crash, RestOK, tables, history
  <2>4. ProcsGood'
    BY <1>1, <1>5, IdleGood DEF Crash, ProcsGood
  <2>5. QED BY <2>3, <2>4, TypeInvSplitPrime
<1>6. CASE UNCHANGED vars
  BY <1>1, <1>6, RestStutter, ProcStutter, TypeInvSplitPrime DEF vars
<1>7. QED BY <1>2, <1>3, <1>4, <1>5, <1>6 DEF Next

(***************************************************************************)
(* Every reachable state is of the types the tables, the requests and the  *)
(* jobs are declared with, and a request always carries what its next step *)
(* takes.                                                                  *)
(***************************************************************************)
THEOREM TypeCorrect == Spec => []TypeInv
<1>1. QED BY InitType, StepType, PTL DEF Spec

\* The tables, requests and jobs of every reachable state are well typed.
THEOREM TypeOKAlways == Spec => []TypeOK
<1>1. TypeInv => TypeOK
  BY DEF TypeInv
<1>2. QED BY <1>1, TypeCorrect, PTL

=============================================================================
