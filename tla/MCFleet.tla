------------------------------- MODULE MCFleet -------------------------------
(***************************************************************************)
(* Model checking of three parts of the backend that share no state, each  *)
(* alone in its behaviours: the LEDs, the health and the updates of the    *)
(* beacons, and the Outlook accounts.                                      *)
(***************************************************************************)
EXTENDS LedDispatch, BeaconHealth, OutlookTokens

VARIABLE part

fleet == <<vars, health, outlook, control, part>>

FleetInit ==
  /\ Init /\ HealthInit /\ OutlookInit
  /\ part \in {"leds", "health", "outlook"}

FleetNext ==
  /\ UNCHANGED part
  /\ \/ part = "leds" /\ Next /\ UNCHANGED <<health, outlook, control>>
     \/ part = "health" /\ HealthNext /\ UNCHANGED <<vars, outlook>>
     \/ part = "outlook" /\ OutlookNext /\ UNCHANGED <<vars, health>>

\* The fairness of each part, in its own behaviours.
FleetFairness ==
  /\ \A d \in Desks : WF_vars(part = "leds" /\ Fire(d))
  /\ WF_vars(part = "leds" /\ \E task \in tasks : Proceed(task))
  /\ \A t \in Threads : WF_healthVars(part = "health" /\ HealthStep(t))
  /\ WF_healthVars(part = "health" /\ HealthTick)
  /\ SF_healthVars(part = "health" /\ \E t \in Threads : WatchRead(t))
  /\ SF_healthVars(part = "health" /\ \E t \in Threads : TimeoutRead(t))
  /\ \A t \in Threads : WF_outlookVars(part = "outlook" /\ OutlookStep(t))
  /\ WF_outlookVars(part = "outlook" /\ Hour)
  /\ SF_outlookVars(part = "outlook" /\ \E t \in Threads : RenewRead(t))

FleetSpec == FleetInit /\ [][FleetNext]_fleet /\ FleetFairness

\* The types of the parts, and the numbering of LED events (LedInv).
FleetInv == LedInv /\ HealthTypeOK /\ OutlookTypeOK
=============================================================================
