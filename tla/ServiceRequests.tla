--------------------------- MODULE ServiceRequests ---------------------------
(***************************************************************************)
(* What the services of the backend share: a thread serves one request at  *)
(* a time, which other requests can overtake at every await.  A job is a   *)
(* record whose pc names the statement that comes next.                    *)
(***************************************************************************)
EXTENDS Naturals, Sequences, FiniteSets

CONSTANTS
  Threads,       \* requests in flight
  Nil,          \* NULL, undefined
  MaxTime, MaxRequests

ASSUME ServiceAssumption == {MaxTime, MaxRequests} \subseteq Nat
ASSUME ThreadsAssumption == IsFiniteSet(Threads) /\ Threads # {}

VARIABLES job, now, requests
control == <<job, now, requests>>

Idle == [pc |-> "idle"]
ControlInit == job = [t \in Threads |-> Idle] /\ now = 0 /\ requests = 0

IsFree(t) == job[t] = Idle
At(t, pc) == job[t].pc = pc
Quiet == \A t \in Threads : IsFree(t)

\* A request arrives at thread t and waits as rec.
Arrive(t, rec) ==
  /\ IsFree(t) /\ requests < MaxRequests
  /\ requests' = requests + 1
  /\ job' = [job EXCEPT ![t] = rec]
  /\ UNCHANGED now
\* A request of one statement.
Serve ==
  /\ requests < MaxRequests
  /\ requests' = requests + 1
  /\ UNCHANGED <<job, now>>
\* A job of the server's own scheduler, which nobody requests.
Begin(t, rec) ==
  /\ IsFree(t)
  /\ job' = [job EXCEPT ![t] = rec]
  /\ UNCHANGED <<now, requests>>
GoTo(t, rec) == job' = [job EXCEPT ![t] = rec] /\ UNCHANGED <<now, requests>>
Finish(t) == GoTo(t, Idle)

\* A unit of time passes; no request takes that long.
Pass == now < MaxTime /\ Quiet /\ now' = now + 1 /\ UNCHANGED <<job, requests>>
=============================================================================
