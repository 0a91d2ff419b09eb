---------------------------- MODULE BeaconHealth ----------------------------
(***************************************************************************)
(* Heartbeats, the watchdog that takes silent gateways and beacons         *)
(* offline, and the firmware updates of beacons, confirmed by a heartbeat  *)
(* and timed out by a job.                                                 *)
(***************************************************************************)
EXTENDS ServiceRequests

CONSTANTS
  Units, Updatable,      \* gateways and beacons; the beacons
  Silence,               \* the watchdog's cutoff, 5 minutes
  OtaLimit,              \* the cutoff of timeoutStaleOta, 10 minutes
  Releases               \* number of firmware releases to come

ASSUME HealthAssumption ==
  /\ Updatable \subseteq Units /\ {Silence, OtaLimit, Releases} \subseteq Nat

VARIABLES
  row,       \* Device and Gateway rows
  alive,     \* units that are powered and connected
  running,   \* firmware each beacon runs
  told,      \* versions each beacon was told to install
  release,   \* newest version on GitHub
  heard,     \* versions each beacon reported since it was last updated
  overtaken  \* beacons updated again while a heartbeat was confirming

health == <<row, alive, running, told, release, heard, overtaken>>

Versions == 0..Releases
Row == [online : BOOLEAN, seen : 0..MaxTime, fw : Versions,
        ota : {"none", "in_progress", "success", "failed"}, ver : Versions,
        at : 0..MaxTime]

HealthInit ==
  /\ ControlInit
  /\ row = [u \in Units |-> [online |-> TRUE, seen |-> 0, fw |-> 0, ota |-> "none",
                             ver |-> 0, at |-> 0]]
  /\ alive = Units /\ running = [u \in Units |-> 0] /\ told = [u \in Units |-> {}]
  /\ release = 0 /\ heard = [u \in Units |-> {}] /\ overtaken = {}

----------------------------------------------------------------------------
\* Variant that takes any version for the one it waits for.
HeartbeatAnyVersion(t, u) ==
  /\ u \in alive
  /\ row' = [row EXCEPT ![u].online = TRUE, ![u].seen = now, ![u].fw = running[u]]
  /\ heard' = [heard EXCEPT ![u] = @ \cup {running[u]}]
  /\ IF row[u].ota = "in_progress"
     THEN Begin(t, [pc |-> "confirm", unit |-> u])
     ELSE IsFree(t) /\ UNCHANGED control
  /\ UNCHANGED <<alive, running, told, release, overtaken>>

\* deviceHeartbeat, and heartbeat of a gateway.  The row the UPDATE returns
\* decides whether an update is confirmed.
Heartbeat(t, u) ==
  LET new == [row[u] EXCEPT !.online = TRUE, !.seen = now, !.fw = running[u]] IN
  /\ u \in alive
  /\ row' = [row EXCEPT ![u] = new]
  /\ heard' = [heard EXCEPT ![u] = @ \cup {running[u]}]
  /\ IF new.ota = "in_progress" /\ new.ver = running[u]
     THEN Begin(t, [pc |-> "confirm", unit |-> u])
     ELSE IsFree(t) /\ UNCHANGED control
  /\ UNCHANGED <<alive, running, told, release, overtaken>>
Confirm(t) ==
  /\ At(t, "confirm")
  /\ row' = [row EXCEPT ![job[t].unit].ota = "success"]
  /\ Finish(t)
  /\ UNCHANGED <<alive, running, told, release, heard, overtaken>>

\* A unit fails and comes back, a beacon installs what it was sent.
Fail(u) ==
  /\ u \in alive /\ Serve
  /\ alive' = alive \ {u}
  /\ UNCHANGED <<row, running, told, release, heard, overtaken>>
Recover(u) ==
  /\ u \notin alive /\ Serve
  /\ alive' = alive \cup {u}
  /\ UNCHANGED <<row, running, told, release, heard, overtaken>>
Install(u) ==
  /\ u \in alive
  /\ \E v \in told[u] : running' = [running EXCEPT ![u] = v]
                        /\ told' = [told EXCEPT ![u] = @ \ {v}]
  /\ UNCHANGED <<row, alive, release, heard, overtaken, control>>
Publish ==
  /\ release < Releases /\ release' = release + 1
  /\ UNCHANGED <<row, alive, running, told, heard, overtaken, control>>

----------------------------------------------------------------------------
\* scanInfrastructure: the silent units are read; each is announced and then
\* written offline, whatever it sent meanwhile.
Silent == {u \in Units : row[u].online /\ row[u].seen + Silence < now}
WatchRead(t) ==
  /\ Silent # {}
  /\ Begin(t, [pc |-> "watch", left |-> Silent])
  /\ UNCHANGED health
\* Variant that forgets to take the units offline after the alerts.
WatchWriteAlertOnly(t) ==
  /\ At(t, "watch")
  /\ \E u \in job[t].left : GoTo(t, IF job[t].left = {u} THEN Idle
                                    ELSE [job[t] EXCEPT !.left = @ \ {u}])
  /\ UNCHANGED health

\* The alerts have gone out; the row is written.
WatchWrite(t) ==
  /\ At(t, "watch")
  /\ \E u \in job[t].left :
       /\ row' = [row EXCEPT ![u].online = FALSE]
       /\ GoTo(t, IF job[t].left = {u} THEN Idle
                  ELSE [job[t] EXCEPT !.left = @ \ {u}])
  /\ UNCHANGED <<alive, running, told, release, heard, overtaken>>

----------------------------------------------------------------------------
\* triggerOta and triggerOtaAll: what may be updated is read, with the newest
\* release; then the rows are written and the commands sent, best effort.
OtaRead(t, batch, all) ==
  /\ batch # {}
  /\ \A u \in batch : row[u].ota # "in_progress" /\ (all => row[u].fw # release)
  /\ Arrive(t, [pc |-> "ota", left |-> batch, ver |-> release])
  /\ UNCHANGED health
OtaWrite(t) ==
  LET confirming == {job[x].unit : x \in {y \in Threads : At(y, "confirm")}} IN
  /\ At(t, "ota")
  /\ row' = [u \in Units |-> IF u \in job[t].left
               THEN [row[u] EXCEPT !.ota = "in_progress", !.ver = job[t].ver, !.at = now]
               ELSE row[u]]
  /\ heard' = [u \in Units |-> IF u \in job[t].left THEN {} ELSE heard[u]]
  /\ overtaken' = (overtaken \ job[t].left) \cup (job[t].left \cap confirming)
  /\ GoTo(t, [job[t] EXCEPT !.pc = "send"])
  /\ UNCHANGED <<alive, running, told, release>>
OtaSend(t) ==
  /\ At(t, "send")
  /\ \E u \in job[t].left :
       /\ \/ told' = [told EXCEPT ![u] = @ \cup {job[t].ver}]
          \/ UNCHANGED told
       /\ GoTo(t, IF job[t].left = {u} THEN Idle
                  ELSE [job[t] EXCEPT !.left = @ \ {u}])
  /\ UNCHANGED <<row, alive, running, release, heard, overtaken>>

\* Variant whose comparison is the other way round.
StaleOtaFresh == {u \in Updatable : row[u].ota = "in_progress" /\ row[u].at + OtaLimit > now}

\* timeoutStaleOta: the stale updates are read, then written by id.
StaleOta == {u \in Updatable : row[u].ota = "in_progress" /\ row[u].at + OtaLimit < now}
TimeoutRead(t) ==
  /\ StaleOta # {}
  /\ Begin(t, [pc |-> "timeout", left |-> StaleOta])
  /\ UNCHANGED health
TimeoutWrite(t) ==
  /\ At(t, "timeout")
  /\ row' = [u \in Units |-> IF u \in job[t].left
                             THEN [row[u] EXCEPT !.ota = "failed"] ELSE row[u]]
  /\ Finish(t)
  /\ UNCHANGED <<alive, running, told, release, heard, overtaken>>

HealthTick == Pass /\ UNCHANGED health
HealthStep(t) ==
  \/ Confirm(t) \/ WatchWrite(t) \/ OtaWrite(t) \/ OtaSend(t) \/ TimeoutWrite(t)
HealthNext ==
  \/ HealthTick \/ Publish
  \/ \E u \in Units : Fail(u) \/ Recover(u)
  \/ \E u \in Updatable : Install(u)
  \/ \E t \in Threads :
       \/ HealthStep(t) \/ WatchRead(t) \/ TimeoutRead(t)
       \/ \E u \in Units : Heartbeat(t, u)
       \/ \E u \in Updatable : OtaRead(t, {u}, FALSE)
       \/ OtaRead(t, {u \in Updatable : row[u].ota # "in_progress" /\ row[u].fw # release}, TRUE)
healthVars == <<health, control>>
HealthSpec == HealthInit /\ [][HealthNext]_healthVars

\* The server finishes what it began, the clock runs, the jobs are run.
HealthFairness ==
  /\ \A t \in Threads : WF_healthVars(HealthStep(t))
  /\ WF_healthVars(HealthTick)
  /\ SF_healthVars(\E t \in Threads : WatchRead(t))
  /\ SF_healthVars(\E t \in Threads : TimeoutRead(t))
HealthFairSpec == HealthSpec /\ HealthFairness

----------------------------------------------------------------------------
HealthTypeOK ==
  /\ row \in [Units -> Row] /\ alive \subseteq Units
  /\ running \in [Units -> Versions] /\ told \in [Units -> SUBSET Versions]
  /\ release \in Versions /\ heard \in [Units -> SUBSET Versions]
  /\ overtaken \subseteq Updatable

\* An update counts as done only when the beacon reported its version after
\* the update was ordered, unless a second order overtook the confirmation.
SuccessWasHeard ==
  \A u \in Updatable \ overtaken : row[u].ota = "success" => row[u].ver \in heard[u]

\* An update ends: confirmed, or timed out.
UpdatesEnd ==
  \A u \in Updatable :
    (row[u].ota = "in_progress" /\ row[u].at + OtaLimit < MaxTime)
      ~> row[u].ota # "in_progress" \/ row[u].at + OtaLimit >= MaxTime

\* A unit that fell silent is not shown online for good.
Muted(u) == u \notin alive /\ row[u].online /\ row[u].seen + Silence < MaxTime
SilenceIsNoticed == \A u \in Units : Muted(u) ~> ~Muted(u)
=============================================================================
