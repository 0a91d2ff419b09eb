---------------------------- MODULE LedDispatch ----------------------------
(***************************************************************************)
(* How an LED event becomes a command of a beacon: the subscriber of       *)
(* MqttHandlers, which waits for the events of a desk to settle, numbers   *)
(* them, reads the desk's gateway and the location's colours, and sends    *)
(* SET_LED only while no newer event of the desk has come.                 *)
(*                                                                         *)
(* DeskBooking says which events are emitted (its `led` is `wanted` here); *)
(* this module says what the gateway is sent.                              *)
(***************************************************************************)
EXTENDS Integers, FiniteSets

CONSTANTS
  Desks,
  LedStates,     \* the states an event can carry
  None,          \* no state
  MaxEvents,     \* bound on the events of a desk
  MaxRestarts    \* bound on the restarts of the backend

ASSUME LedAssumption ==
  /\ None \notin LedStates
  /\ MaxEvents \in Nat /\ MaxRestarts \in Nat

VARIABLES
  seq,       \* _ledSeq: the number of a desk's newest event
  timer,     \* _ledTimers: the number of the event that waits, 0 without one
  tasks,     \* timer callbacks under way
  wanted,    \* history: the state of the newest event
  sent,      \* the last state written to the desk's gateway
  lost,      \* history: whether the newest event was given up
  restarts

vars == <<seq, timer, tasks, wanted, sent, lost, restarts>>

\* A callback waits for findGatewayForDesk, then for the location's colours.
Task == [desk : Desks, seq : Nat \ {0}, state : LedStates, pc : {"gateway", "colours"}]

Init ==
  /\ seq = [d \in Desks |-> 0]
  /\ timer = [d \in Desks |-> 0]
  /\ tasks = {}
  /\ wanted = [d \in Desks |-> None]
  /\ sent = [d \in Desks |-> None]
  /\ lost = [d \in Desks |-> FALSE]
  /\ restarts = 0

\* Mutated form of Emit: events that come while a timer runs do not restart it.
EmitKeepsTimer(d, state) ==
  /\ seq[d] < MaxEvents
  /\ seq' = [seq EXCEPT ![d] = @ + 1]
  /\ timer' = IF timer[d] = 0 THEN [timer EXCEPT ![d] = seq[d] + 1] ELSE timer
  /\ wanted' = [wanted EXCEPT ![d] = state]
  /\ lost' = [lost EXCEPT ![d] = FALSE]
  /\ UNCHANGED <<tasks, sent, restarts>>

\* An event: the timer of the previous one is cancelled, a new one is set.
Emit(d, state) ==
  /\ seq[d] < MaxEvents
  /\ seq' = [seq EXCEPT ![d] = @ + 1]
  /\ timer' = [timer EXCEPT ![d] = seq[d] + 1]
  /\ wanted' = [wanted EXCEPT ![d] = state]
  /\ lost' = [lost EXCEPT ![d] = FALSE]
  /\ UNCHANGED <<tasks, sent, restarts>>

\* Mutated form of Fire: the timer that fired is not forgotten.
FireKeepsTimer(d) ==
  /\ timer[d] # 0
  /\ tasks' = IF timer[d] = seq[d]
              THEN tasks \cup {[desk |-> d, seq |-> seq[d], state |-> wanted[d],
                                pc |-> "gateway"]}
              ELSE tasks
  /\ UNCHANGED <<seq, timer, wanted, sent, lost, restarts>>

\* LED_DEBOUNCE_MS later.  The callback of a timer set with a number that is
\* no longer the newest returns at once.
Fire(d) ==
  /\ timer[d] # 0
  /\ timer' = [timer EXCEPT ![d] = 0]
  /\ tasks' = IF timer[d] = seq[d]
              THEN tasks \cup {[desk |-> d, seq |-> seq[d], state |-> wanted[d],
                                pc |-> "gateway"]}
              ELSE tasks
  /\ UNCHANGED <<seq, wanted, sent, lost, restarts>>

Newest(task) == task.seq = seq[task.desk]

\* The desk's gateway was read: go on for the newest event only.
ReadGateway(task) ==
  /\ task.pc = "gateway"
  /\ tasks' = (tasks \ {task}) \cup
       (IF Newest(task) THEN {[task EXCEPT !.pc = "colours"]} ELSE {})
  /\ UNCHANGED <<seq, timer, wanted, sent, lost, restarts>>

\* Mutated form of Send: nothing is asked after the colours were read.
SendUnchecked(task) ==
  /\ task.pc = "colours"
  /\ tasks' = tasks \ {task}
  /\ sent' = [sent EXCEPT ![task.desk] = task.state]
  /\ UNCHANGED <<seq, timer, wanted, lost, restarts>>

\* The colours were read: the check and sendBeaconCommand's write to the open
\* SSE stream run with no await between them.
Send(task) ==
  /\ task.pc = "colours"
  /\ tasks' = tasks \ {task}
  /\ sent' = IF Newest(task) THEN [sent EXCEPT ![task.desk] = task.state] ELSE sent
  /\ UNCHANGED <<seq, timer, wanted, lost, restarts>>

\* No device at the desk, a gateway that is not connected, a read that fails:
\* the command is dropped, and nothing sends it again.
Drop(task) ==
  /\ tasks' = tasks \ {task}
  /\ lost' = [lost EXCEPT ![task.desk] = @ \/ Newest(task)]
  /\ UNCHANGED <<seq, timer, wanted, sent, restarts>>

Pending(d) == timer[d] # 0 \/ \E task \in tasks : task.desk = d /\ Newest(task)

\* The process restarts: the timers, the callbacks and the numbers are gone.
Restart ==
  /\ restarts < MaxRestarts
  /\ restarts' = restarts + 1
  /\ lost' = [d \in Desks |-> lost[d] \/ Pending(d)]
  /\ seq' = [d \in Desks |-> 0]
  /\ timer' = [d \in Desks |-> 0]
  /\ tasks' = {}
  /\ UNCHANGED <<wanted, sent>>

Proceed(task) == ReadGateway(task) \/ Send(task) \/ Drop(task)

Next ==
  \/ \E d \in Desks, state \in LedStates : Emit(d, state)
  \/ \E d \in Desks : Fire(d)
  \/ \E task \in tasks : Proceed(task)
  \/ Restart

Spec == Init /\ [][Next]_vars

(***************************************************************************)
(* Timers fire and database calls return; nothing is assumed of events.    *)
(***************************************************************************)
Fairness ==
  /\ \A d \in Desks : WF_vars(Fire(d))
  /\ WF_vars(\E task \in tasks : Proceed(task))

FairSpec == Spec /\ Fairness

-----------------------------------------------------------------------------
TypeOK ==
  /\ seq \in [Desks -> Nat]
  /\ timer \in [Desks -> Nat]
  /\ tasks \in SUBSET Task
  /\ wanted \in [Desks -> LedStates \cup {None}]
  /\ sent \in [Desks -> LedStates \cup {None}]
  /\ lost \in [Desks -> BOOLEAN]
  /\ restarts \in Nat

(***************************************************************************)
(* Once the dust settles a gateway was last sent the newest state: neither *)
(* a callback of an older event, late from its database reads, overrides   *)
(* it, nor is it dropped by the checks meant for the older ones.           *)
(***************************************************************************)
NewestStateSent == \A d \in Desks : ~Pending(d) /\ ~lost[d] => sent[d] = wanted[d]

(***************************************************************************)
(* Unless a desk's events never stop, each of which restarts the debounce, *)
(* none waits for good: the debounce ends, and the reads behind it do.     *)
(***************************************************************************)
EventsSettle ==
  \A d \in Desks : <>[][seq'[d] = seq[d]]_seq => []<>~Pending(d)

(***************************************************************************)
(* Why NewestStateSent holds: a timer waits for the newest event only, a   *)
(* callback is never ahead of the numbers, and the one that has the newest *)
(* number carries the newest state.                                        *)
(***************************************************************************)
NumbersInOrder ==
  /\ \A d \in Desks : timer[d] \in {0, seq[d]} /\ (seq[d] # 0 => wanted[d] # None)
  /\ \A task \in tasks : /\ task.seq <= seq[task.desk]
                         /\ Newest(task) => task.state = wanted[task.desk]

LedInv == TypeOK /\ NumbersInOrder
=============================================================================
