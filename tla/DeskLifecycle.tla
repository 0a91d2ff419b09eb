---------------------------- MODULE DeskLifecycle ----------------------------
(***************************************************************************)
(* What the booking backend promises about one reservation and its         *)
(* check-in, whatever requests and cron jobs run and however they          *)
(* interleave: the abstract specification that DeskBooking implements.     *)
(*                                                                         *)
(* A reservation is booked once.  Once settled it is settled for good: its *)
(* final status may still be rewritten, but it never becomes a booking     *)
(* again.  Its check-in is opened once and closed once, and a reservation  *)
(* turns COMPLETED only with its check-in closed.  Rows disappear only     *)
(* with a desk, and take their half of these promises with them.           *)
(***************************************************************************)
CONSTANT Ids

VARIABLES status,    \* status[r] of the row; "NONE" before it, "GONE" after
          presence,  \* presence[r]: "out" with no check-in, then "in", "left"
          purged     \* whether a desk was deleted

vars == <<status, presence, purged>>

Settled == {"CANCELLED", "EXPIRED", "COMPLETED"}

Init ==
  /\ status = [r \in Ids |-> "NONE"]
  /\ presence = [r \in Ids |-> "out"]
  /\ purged = FALSE

StatusStep(r) ==
  \/ status'[r] = status[r]
  \/ status[r] = "NONE" /\ status'[r] = "CONFIRMED"
  \/ status[r] \notin {"NONE", "GONE"} /\ status'[r] \in Settled

\* A walk-in books and checks in in one step.
PresenceStep(r) ==
  \/ presence'[r] = presence[r]
  \/ /\ presence[r] = "out" /\ presence'[r] = "in"
     /\ status'[r] \notin {"NONE", "GONE"}
     /\ status[r] = "COMPLETED" => purged
  \/ presence[r] = "in" /\ presence'[r] = "left"

CompletedWithCheckout(r) ==
  status'[r] = "COMPLETED" /\ status[r] # "COMPLETED" => presence'[r] = "left" \/ purged

Serve ==
  /\ DOMAIN status' = Ids /\ DOMAIN presence' = Ids
  /\ \A r \in Ids : StatusStep(r) /\ PresenceStep(r) /\ CompletedWithCheckout(r)
  /\ UNCHANGED purged

\* A desk is deleted, with the reservations and the check-ins that name it.
Purge ==
  /\ DOMAIN status' = Ids /\ DOMAIN presence' = Ids
  /\ \A r \in Ids : /\ \/ status'[r] = status[r]
                       \/ status[r] # "NONE" /\ status'[r] = "GONE"
                    /\ presence'[r] \in {presence[r], "out"}
  /\ purged' = TRUE

Spec == Init /\ [][Serve \/ Purge]_vars
=============================================================================
