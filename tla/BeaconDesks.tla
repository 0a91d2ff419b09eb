----------------------------- MODULE BeaconDesks -----------------------------
(***************************************************************************)
(* Which desk a beacon serves: the deskId of its row, and the one in its   *)
(* own memory, which is the MQTT topic it listens to.  A reassignment      *)
(* reaches the beacon as a command on its old topic.                       *)
(***************************************************************************)
EXTENDS ServiceRequests

CONSTANTS Beacons, Desks

ASSUME BeaconAssumption == Nil \notin Desks

VARIABLES
  deskOf,    \* Device rows: desk of each provisioned beacon
  known,     \* beacons that have a row
  nvs,       \* desk in the memory of each beacon
  wire,      \* commands on their way over SSE and MQTT, in order
  astray     \* something was lost, or two requests overlapped

beaconDesks == <<deskOf, known, nvs, wire, astray>>

BeaconDesksInit ==
  /\ ControlInit
  /\ deskOf = [b \in Beacons |-> Nil] /\ known = {}
  /\ nvs = [b \in Beacons |-> Nil] /\ wire = <<>> /\ astray = FALSE

Used(k, b) == \E c \in known \ {b} : deskOf[c] = k

\* provision: the upsert keeps the old desk when the request names none, and
\* the unique index on deskId refuses the desk of another beacon.
Provision(t, b, k) ==
  LET desk == IF k # Nil THEN k ELSE IF b \in known THEN deskOf[b] ELSE Nil IN
  /\ k # Nil => ~Used(k, b)
  /\ Arrive(t, [pc |-> "credentials", dev |-> b, desk |-> desk])
  /\ known' = known \cup {b}
  /\ deskOf' = [deskOf EXCEPT ![b] = desk]
  /\ astray' = (astray \/ ~Quiet \/ wire # <<>>)
  /\ UNCHANGED <<nvs, wire>>
\* addBeaconCredentials, then the response an installer writes to the
\* beacon; a publish nobody acknowledges fails the request.
ProvisionRespond(t) ==
  /\ At(t, "credentials")
  /\ \/ nvs' = [nvs EXCEPT ![job[t].dev] = job[t].desk] /\ UNCHANGED astray
     \/ astray' = TRUE /\ UNCHANGED nvs
  /\ Finish(t)
  /\ UNCHANGED <<deskOf, known, wire>>

\* assign: the old desk is read, the row updated, the command sent.
AssignRead(t, b, k) ==
  /\ b \in known
  /\ Arrive(t, [pc |-> "update", dev |-> b, old |-> deskOf[b], desk |-> k])
  /\ astray' = (astray \/ ~Quiet)
  /\ UNCHANGED <<deskOf, known, nvs, wire>>
AssignUpdate(t) ==
  LET b == job[t].dev IN
  /\ At(t, "update")
  /\ IF b \in known /\ ~Used(job[t].desk, b)
     THEN /\ deskOf' = [deskOf EXCEPT ![b] = job[t].desk]
          /\ GoTo(t, [job[t] EXCEPT !.pc = "send"])
     ELSE Finish(t) /\ UNCHANGED deskOf
  /\ UNCHANGED <<known, nvs, wire, astray>>

\* Variant that sends the command to the topic of the new desk.
AssignSendNew(t) ==
  /\ At(t, "send")
  /\ IF job[t].old # Nil
     THEN wire' = Append(wire, [topic |-> job[t].desk, desk |-> job[t].desk]) /\ UNCHANGED astray
     ELSE astray' = TRUE /\ UNCHANGED wire
  /\ Finish(t)
  /\ UNCHANGED <<deskOf, known, nvs>>

\* sendBeaconCommand drops the command when the gateway is not connected;
\* a beacon that had no desk cannot be told.
AssignSend(t) ==
  /\ At(t, "send")
  /\ \/ /\ job[t].old # Nil
        /\ wire' = Append(wire, [topic |-> job[t].old, desk |-> job[t].desk])
        /\ UNCHANGED astray
     \/ astray' = TRUE /\ UNCHANGED wire
  /\ Finish(t)
  /\ UNCHANGED <<deskOf, known, nvs>>

\* remove deletes the row; the beacon is not told.
RemoveBeacon(b) ==
  /\ b \in known /\ Serve
  /\ known' = known \ {b}
  /\ deskOf' = [deskOf EXCEPT ![b] = Nil]
  /\ UNCHANGED <<nvs, wire, astray>>

\* Every beacon on the topic obeys; a stream that breaks loses the rest.
DeliverCommand ==
  /\ wire # <<>>
  /\ nvs' = [b \in Beacons |-> IF nvs[b] = Head(wire).topic THEN Head(wire).desk ELSE nvs[b]]
  /\ wire' = Tail(wire)
  /\ UNCHANGED <<deskOf, known, astray, control>>
LoseCommands ==
  /\ wire # <<>>
  /\ wire' = <<>> /\ astray' = TRUE
  /\ UNCHANGED <<deskOf, known, nvs, control>>

BeaconDesksNext ==
  \/ \E t \in Threads :
       \/ ProvisionRespond(t) \/ AssignUpdate(t) \/ AssignSend(t)
       \/ \E b \in Beacons, k \in Desks \cup {Nil} : Provision(t, b, k)
       \/ \E b \in Beacons, k \in Desks : AssignRead(t, b, k)
  \/ \E b \in Beacons : RemoveBeacon(b)
  \/ DeliverCommand \/ LoseCommands
BeaconDesksSpec == BeaconDesksInit /\ [][BeaconDesksNext]_<<beaconDesks, control>>

----------------------------------------------------------------------------
BeaconDesksTypeOK ==
  /\ known \subseteq Beacons /\ astray \in BOOLEAN
  /\ deskOf \in [Beacons -> Desks \cup {Nil}] /\ nvs \in [Beacons -> Desks \cup {Nil}]
  /\ wire \in Seq([topic : Desks, desk : Desks])

\* Through any sequence of provisioning, reassignments and deletions, one
\* after the other and none lost, the commands that travel over the shared
\* topics leave every beacon with the desk its row names.
BeaconsFollowTheirDesk ==
  (Quiet /\ wire = <<>> /\ ~astray) => \A b \in known : nvs[b] = deskOf[b]
=============================================================================
