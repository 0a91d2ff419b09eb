------------------------------ MODULE DeskJobs ------------------------------
(***************************************************************************)
(* The cron jobs over the desk tables: expireOld and autoCheckout, which   *)
(* share the schedule '0 */15 * * * *' and so start in the same second,    *)
(* and the hourly autoReservedLed.  A job is one action for each database  *)
(* call; a run that finds nothing to do leaves no trace.  A job does not   *)
(* overlap with its own previous run, minutes earlier.                     *)
(***************************************************************************)
EXTENDS DeskData

Job(j, record) == jobs' = [jobs EXCEPT ![j] = record]

-----------------------------------------------------------------------------
\* Mutated form of ExpireOldRead: only what ended since the previous run.
ExpireOldReadLatest ==
  /\ jobs["expireOld"].pc = "idle"
  /\ \E r \in Ids : /\ Active(r) /\ Ended(r) /\ reservations[r].slot.end + 1 >= now
                    /\ Job("expireOld", [IdleJob EXCEPT !.pc = "update", !.ids = {r}])
  /\ UNCHANGED <<tables, led, proc, requests, bounds, history>>

ExpireOldRead ==
  /\ jobs["expireOld"].pc = "idle"
  /\ LET old == {r \in Ids : Active(r) /\ Ended(r)}
     IN /\ old # {}
        /\ Job("expireOld", [IdleJob EXCEPT !.pc = "update", !.ids = old,
             !.leds = [d \in Desks |-> IF \E r \in old : reservations[r].desk = d
                                       THEN "FREE" ELSE "none"]])
  /\ UNCHANGED <<tables, led, proc, requests, bounds, history>>

\* updateMany by id alone: a row that changed since it was read is written too.
ExpireOldUpdate ==
  /\ jobs["expireOld"].pc = "update"
  /\ reservations' = [r \in Ids |-> IF r \in jobs["expireOld"].ids /\ Exists(r)
                                    THEN [reservations[r] EXCEPT !.status = "EXPIRED"]
                                    ELSE reservations[r]]
  /\ Job("expireOld", [jobs["expireOld"] EXCEPT !.pc = "emit"])
  /\ UNCHANGED <<deskStatus, checkins, led, proc, requests, bounds, history>>

ExpireOldEmit ==
  /\ jobs["expireOld"].pc = "emit"
  /\ EmitAll(jobs["expireOld"].leds)
  /\ Job("expireOld", IdleJob)
  /\ UNCHANGED <<tables, proc, requests, bounds, history>>

-----------------------------------------------------------------------------
\* Mutated form of AutoCheckoutRead: only check-ins of CONFIRMED reservations.
AutoCheckoutReadConfirmed ==
  /\ jobs["autoCheckout"].pc = "idle"
  /\ LET toClose == {r \in Ids : Open(r) /\ Active(r) /\ Ended(r)}
     IN /\ toClose # {}
        /\ Job("autoCheckout", [IdleJob EXCEPT !.pc = "update", !.ids = toClose,
                                  !.desks = {checkins[r].desk : r \in toClose}])
  /\ UNCHANGED <<tables, led, proc, requests, bounds, history>>

(***************************************************************************)
(* Open check-ins of reservations that ended, and open check-ins that lost *)
(* their reservation, once they are 12 hours old (any of them may be).     *)
(***************************************************************************)
AutoCheckoutRead ==
  /\ jobs["autoCheckout"].pc = "idle"
  /\ \E stale \in SUBSET {r \in Ids : Open(r) /\ ~Exists(r)} :
       LET toClose == {r \in Ids : Open(r) /\ Ended(r)} \cup stale
       IN /\ toClose # {}
          /\ Job("autoCheckout", [IdleJob EXCEPT !.pc = "update", !.ids = toClose,
                                    !.desks = {checkins[r].desk : r \in toClose}])
  /\ UNCHANGED <<tables, led, proc, requests, bounds, history>>

\* One transaction: the check-ins are closed, their reservations completed,
\* whatever their status is by now.
AutoCheckoutUpdate ==
  /\ jobs["autoCheckout"].pc = "update"
  /\ checkins' = [r \in Ids |-> IF r \in jobs["autoCheckout"].ids /\ checkins[r] # NoRow
                                THEN [checkins[r] EXCEPT !.out = TRUE]
                                ELSE checkins[r]]
  /\ reservations' = [r \in Ids |-> IF r \in jobs["autoCheckout"].ids /\ Exists(r)
                                    THEN [reservations[r] EXCEPT !.status = "COMPLETED"]
                                    ELSE reservations[r]]
  /\ Job("autoCheckout", [jobs["autoCheckout"] EXCEPT !.pc = "after"])
  /\ UNCHANGED <<deskStatus, led, proc, requests, bounds, history>>

\* Desk after desk: read what the LED should show, then emit it.
AutoCheckoutReadLed ==
  /\ jobs["autoCheckout"].pc = "after"
  /\ \E d \in jobs["autoCheckout"].desks, state \in LedStates :
       /\ state \in DeskLedAfterFree(d)
       /\ Job("autoCheckout", [jobs["autoCheckout"] EXCEPT !.pc = "emit",
                                 !.leds = [NoLeds EXCEPT ![d] = state],
                                 !.desks = @ \ {d}])
  /\ UNCHANGED <<tables, led, proc, requests, bounds, history>>

AutoCheckoutEmit ==
  /\ jobs["autoCheckout"].pc = "emit"
  /\ EmitAll(jobs["autoCheckout"].leds)
  /\ Job("autoCheckout", IF jobs["autoCheckout"].desks = {}
                         THEN IdleJob
                         ELSE [jobs["autoCheckout"] EXCEPT !.pc = "after", !.leds = NoLeds])
  /\ UNCHANGED <<tables, proc, requests, bounds, history>>

-----------------------------------------------------------------------------
\* Reservations that show now; of several for a desk the last one read wins.
AutoReservedRead ==
  /\ jobs["autoReservedLed"].pc = "idle"
  /\ LET showing(d) == {r \in Upcoming(d) : VisibleNow(reservations[r].slot.start)}
         shown(d) == {LedOfType(reservations[r].type) : r \in showing(d)}
     IN /\ \E d \in Desks : showing(d) # {}
        /\ \E leds \in [Desks -> {"RESERVED", "GUEST_RESERVED", "none"}] :
             /\ \A d \in Desks : IF showing(d) = {} THEN leds[d] = "none"
                                                    ELSE leds[d] \in shown(d)
             /\ Job("autoReservedLed", [IdleJob EXCEPT !.pc = "active", !.leds = leds])
  /\ UNCHANGED <<tables, led, proc, requests, bounds, history>>

AutoReservedReadCheckins ==
  /\ jobs["autoReservedLed"].pc = "active"
  /\ LET job == jobs["autoReservedLed"]
     IN Job("autoReservedLed", [job EXCEPT !.pc = "emit",
              !.leds = [d \in Desks |-> IF DeskOccupied(d) THEN "none" ELSE job.leds[d]]])
  /\ UNCHANGED <<tables, led, proc, requests, bounds, history>>

AutoReservedEmit ==
  /\ jobs["autoReservedLed"].pc = "emit"
  /\ EmitAll(jobs["autoReservedLed"].leds)
  /\ Job("autoReservedLed", IdleJob)
  /\ UNCHANGED <<tables, proc, requests, bounds, history>>

-----------------------------------------------------------------------------
ExpireOld    == ExpireOldRead \/ ExpireOldUpdate \/ ExpireOldEmit
AutoCheckout == AutoCheckoutRead \/ AutoCheckoutUpdate \/ AutoCheckoutReadLed
                \/ AutoCheckoutEmit
AutoReserved == AutoReservedRead \/ AutoReservedReadCheckins \/ AutoReservedEmit

=============================================================================
