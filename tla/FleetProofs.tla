----------------------------- MODULE FleetProofs -----------------------------
(***************************************************************************)
(* The LEDs, the health and the updates of beacons, and the Outlook        *)
(* accounts, for any number of desks, events, units, releases and requests *)
(* and any lifetime of a subscription of at least two days of the job.     *)
(***************************************************************************)
EXTENDS MCFleet, TLAPS

(***************************************************************************)
(* LED events: the callback of the newest event, and nobody else, writes.  *)
(***************************************************************************)
DispatchInv == LedInv /\ NewestStateSent

LEMMA DispatchInit == Init => DispatchInv
  BY LedAssumption DEF Init, DispatchInv, LedInv, TypeOK, NumbersInOrder, NewestStateSent, Pending

-----------------------------------------------------------------------------
LEMMA DispatchEmit ==
  ASSUME DispatchInv, NEW d \in Desks, NEW state \in LedStates, Emit(d, state)
  PROVE  DispatchInv'
<1> USE DEF DispatchInv, LedInv
<1>1. TypeOK'
  BY DEF Emit, TypeOK
<1>2. /\ seq[d] \in Nat /\ seq'[d] = seq[d] + 1 /\ timer'[d] = seq'[d]
      /\ wanted'[d] = state /\ tasks' = tasks /\ sent' = sent
      /\ \A e \in Desks \ {d} : /\ seq'[e] = seq[e] /\ timer'[e] = timer[e]
                                /\ wanted'[e] = wanted[e] /\ lost'[e] = lost[e]
  BY DEF Emit, TypeOK
<1>3. \A task \in tasks : task.desk \in Desks /\ task.seq \in Nat
  BY DEF TypeOK, Task
<1>4. \A task \in tasks : task.desk = d => ~Newest(task)'
  BY <1>2, <1>3 DEF Newest, NumbersInOrder
<1>5. \A task \in tasks : task.desk # d => (Newest(task)' <=> Newest(task))
  BY <1>2, <1>3 DEF Newest
<1>6. NumbersInOrder'
  <2>1. \A e \in Desks : timer'[e] \in {0, seq'[e]} /\ (seq'[e] # 0 => wanted'[e] # None)
    BY <1>2, LedAssumption DEF NumbersInOrder
  <2>2. ASSUME NEW task \in tasks
        PROVE  task.seq <= seq'[task.desk]
    BY <1>2, <1>3 DEF NumbersInOrder, TypeOK
  <2>3. ASSUME NEW task \in tasks
        PROVE  Newest(task)' => task.state = wanted'[task.desk]
    BY <1>2, <1>3, <1>4, <1>5 DEF NumbersInOrder
  <2>4. QED BY <1>2, <2>1, <2>2, <2>3 DEF NumbersInOrder
<1>7. NewestStateSent'
  <2> SUFFICES ASSUME NEW e \in Desks, ~Pending(e)', ~lost'[e]
               PROVE  sent'[e] = wanted'[e]
    BY DEF NewestStateSent
  <2>1. e # d
    BY <1>1, <1>2 DEF Pending, TypeOK
  <2>2. ~Pending(e)
    BY <1>2, <1>5, <2>1 DEF Pending
  <2>3. QED BY <1>2, <2>1, <2>2 DEF NewestStateSent
<1>8. QED BY <1>1, <1>6, <1>7

LEMMA DispatchFire ==
  ASSUME DispatchInv, NEW d \in Desks, Fire(d)
  PROVE  DispatchInv'
<1> USE DEF DispatchInv, LedInv
<1> DEFINE new == [desk |-> d, seq |-> seq[d], state |-> wanted[d], pc |-> "gateway"]
<1>1. /\ timer[d] = seq[d] /\ seq[d] \in Nat \ {0}
      /\ tasks' = tasks \cup {new}
      /\ timer' = [timer EXCEPT ![d] = 0]
      /\ seq' = seq /\ wanted' = wanted /\ sent' = sent /\ lost' = lost
      /\ restarts' = restarts
  BY DEF Fire, TypeOK, NumbersInOrder
<1>2. new \in Task
  BY <1>1 DEF Task, TypeOK, NumbersInOrder
<1>3. new.desk = d /\ new.seq = seq[d] /\ new.state = wanted[d]
  OBVIOUS
<1> HIDE DEF new
<1>4. TypeOK'
  BY <1>1, <1>2 DEF TypeOK
<1>5. NumbersInOrder'
  <2>1. \A e \in Desks : timer'[e] \in {0, seq'[e]} /\ (seq'[e] # 0 => wanted'[e] # None)
    BY <1>1 DEF NumbersInOrder, TypeOK
  <2>2. ASSUME NEW task \in tasks'
        PROVE  task.seq <= seq'[task.desk] /\ (Newest(task)' => task.state = wanted'[task.desk])
    BY <1>1, <1>3 DEF NumbersInOrder, Newest
  <2>3. QED BY <2>1, <2>2 DEF NumbersInOrder
<1>6. NewestStateSent'
  <2> SUFFICES ASSUME NEW e \in Desks, ~Pending(e)', ~lost'[e]
               PROVE  sent'[e] = wanted'[e]
    BY DEF NewestStateSent
  <2>1. e # d
    BY <1>1, <1>3 DEF Pending, Newest
  <2>2. ~Pending(e)
    BY <1>1, <2>1 DEF Pending, Newest, TypeOK
  <2>3. QED BY <1>1, <2>2 DEF NewestStateSent
<1>7. QED BY <1>4, <1>5, <1>6

LEMMA DispatchReadGateway ==
  ASSUME DispatchInv, NEW task \in tasks, ReadGateway(task)
  PROVE  DispatchInv'
<1> USE DEF DispatchInv, LedInv
<1> DEFINE next == [task EXCEPT !.pc = "colours"]
<1>1. /\ tasks' = (tasks \ {task}) \cup (IF Newest(task) THEN {next} ELSE {})
      /\ UNCHANGED <<seq, timer, wanted, sent, lost, restarts>>
  BY DEF ReadGateway
<1>2. next \in Task
  BY DEF TypeOK, Task
<1>3. next.desk = task.desk /\ next.seq = task.seq /\ next.state = task.state
  BY DEF TypeOK, Task
<1> HIDE DEF next
<1>4. TypeOK'
  BY <1>1, <1>2 DEF TypeOK
<1>5. NumbersInOrder'
  BY <1>1, <1>3 DEF NumbersInOrder, Newest
<1>6. ASSUME NEW d \in Desks
      PROVE  Pending(d) => Pending(d)'
  BY <1>1, <1>3 DEF Pending, Newest
<1>7. NewestStateSent'
  BY <1>1, <1>6 DEF NewestStateSent
<1>8. QED BY <1>4, <1>5, <1>7

LEMMA DispatchSend ==
  ASSUME DispatchInv, NEW task \in tasks, Send(task)
  PROVE  DispatchInv'
<1> USE DEF DispatchInv, LedInv
<1>1. task.desk \in Desks /\ task.state \in LedStates
  BY DEF TypeOK, Task
<1>2. TypeOK' /\ NumbersInOrder'
  BY <1>1 DEF Send, TypeOK, NumbersInOrder, Newest
<1>3. NewestStateSent'
  <2> SUFFICES ASSUME NEW d \in Desks, ~Pending(d)', ~lost'[d]
               PROVE  sent'[d] = wanted'[d]
    BY DEF NewestStateSent
  <2>1. CASE d = task.desk /\ Newest(task)
    BY <1>1, <2>1 DEF Send, NumbersInOrder, TypeOK
  <2>2. CASE ~(d = task.desk /\ Newest(task))
    <3>1. ~Pending(d)
      BY <2>2 DEF Send, Pending, Newest
    <3>2. sent'[d] = sent[d]
      BY <1>1, <2>2 DEF Send, TypeOK
    <3>3. QED BY <3>1, <3>2 DEF Send, NewestStateSent
  <2>3. QED BY <2>1, <2>2
<1>4. QED BY <1>2, <1>3

LEMMA DispatchDrop ==
  ASSUME DispatchInv, NEW task \in tasks, Drop(task)
  PROVE  DispatchInv'
<1> USE DEF DispatchInv, LedInv
<1>1. task.desk \in Desks
  BY DEF TypeOK, Task
<1>2. Newest(task) \in BOOLEAN
  BY DEF Newest
<1>3. /\ lost' \in [Desks -> BOOLEAN]
      /\ \A d \in Desks : /\ d # task.desk => lost'[d] = lost[d]
                          /\ d = task.desk => (lost'[d] <=> lost[d] \/ Newest(task))
  BY <1>1, <1>2 DEF Drop, TypeOK
<1>4. TypeOK' /\ NumbersInOrder'
  BY <1>3 DEF Drop, TypeOK, NumbersInOrder, Newest
<1>5. NewestStateSent'
  <2> SUFFICES ASSUME NEW d \in Desks, ~Pending(d)', ~lost'[d]
               PROVE  sent'[d] = wanted'[d]
    BY DEF NewestStateSent
  <2>1. ~Pending(d) /\ ~lost[d]
    BY <1>3 DEF Drop, Pending, Newest
  <2>2. QED BY <2>1 DEF Drop, NewestStateSent
<1>6. QED BY <1>4, <1>5

LEMMA DispatchRestart ==
  ASSUME DispatchInv, Restart
  PROVE  DispatchInv'
<1> USE DEF DispatchInv, LedInv
<1>1. \A d \in Desks : (lost[d] \/ Pending(d)) \in BOOLEAN
  BY DEF TypeOK, Pending
<1>2. /\ lost' \in [Desks -> BOOLEAN]
      /\ \A d \in Desks : lost'[d] <=> lost[d] \/ Pending(d)
  BY <1>1 DEF Restart
<1>3. TypeOK' /\ NumbersInOrder'
  BY <1>2 DEF Restart, TypeOK, NumbersInOrder
<1>4. NewestStateSent'
  BY <1>2 DEF Restart, NewestStateSent
<1>5. QED BY <1>3, <1>4

LEMMA DispatchStep == DispatchInv /\ [Next]_vars => DispatchInv'
<1> SUFFICES ASSUME DispatchInv, [Next]_vars
             PROVE  DispatchInv'
  OBVIOUS
<1>1. ASSUME NEW d \in Desks, NEW state \in LedStates, Emit(d, state)
      PROVE  DispatchInv'
  BY <1>1, DispatchEmit
<1>2. ASSUME NEW d \in Desks, Fire(d)
      PROVE  DispatchInv'
  BY <1>2, DispatchFire
<1>3. ASSUME NEW task \in tasks, Proceed(task)
      PROVE  DispatchInv'
  BY <1>3, DispatchReadGateway, DispatchSend, DispatchDrop DEF Proceed
<1>4. CASE Restart
  BY <1>4, DispatchRestart
<1>5. CASE UNCHANGED vars
  BY <1>5 DEF vars, DispatchInv, LedInv, TypeOK, NumbersInOrder, NewestStateSent, Pending, Newest
<1>6. QED BY <1>1, <1>2, <1>3, <1>4, <1>5 DEF Next

-----------------------------------------------------------------------------
\* No late callback overrides a newer state, and none that is still wanted
\* is dropped by the sequence checks: once nothing is pending and nothing was
\* given up, the gateway's last SET_LED carries the newest state.
THEOREM NewestStateAlwaysSent == Spec => []NewestStateSent
<1>1. DispatchInv => NewestStateSent
  BY DEF DispatchInv
<1>2. QED BY DispatchInit, DispatchStep, <1>1, PTL DEF Spec

\* The numbers that the checks compare are never ahead of the newest event.
THEOREM NumbersAlwaysInOrder == Spec => []LedInv
<1>1. DispatchInv => LedInv
  BY DEF DispatchInv
<1>2. QED BY DispatchInit, DispatchStep, <1>1, PTL DEF Spec

-----------------------------------------------------------------------------
(***************************************************************************)
(* Outlook: the argument for a subscription is a budget.  It always has    *)
(* enough left to reach the next run of the job and, unless a run has      *)
(* failed, the one after that.                                             *)
(***************************************************************************)
PlainJobs ==
  [pc : {"idle", "use", "subscribe", "create", "dropTokens", "dropSubs"}]
  \cup [pc : {"renew", "revoke"}, left : SUBSET SubIds]
  \cup {j \in [pc : {"patch", "drop"}, row : SubIds, left : SUBSET SubIds] : j.row \in j.left}
OutlookJobs ==
  PlainJobs \cup [pc : {"refresh"}, account : Accounts, ok : PlainJobs, null : PlainJobs]

\* Whether a refresh succeeds or not, the run goes on with the same rows.
Coherent(j) == j.pc = "refresh" => Rows(j.ok) = Rows(j.null)

OutlookTyped ==
  /\ job \in [Threads -> OutlookJobs] /\ \A t \in Threads : Coherent(job[t])
  /\ token \in Accounts \cup {Nil} /\ linked \in Accounts \cup {Nil}
  /\ subs \in [SubIds -> SubRow \cup {Nil}]
  /\ phase \in 0..(Period - 1) /\ ran \in BOOLEAN

\* Hours until the next run sees row s; none while one has still to see it.
Awaited(s) == \E t \in Threads : s \in Held(job[t])
ToNextRun(s) == IF Awaited(s) \/ (phase = 0 /\ ~ran) THEN 0 ELSE Period - phase

InBudget(stored, hours) ==
  /\ stored.fails = 0 => ~stored.lapsed /\ stored.left + Period >= hours + Threshold
  /\ stored.fails = 1 => ~stored.lapsed /\ stored.left + 2 * Period >= hours + Threshold
Budget == \A s \in Stored : InBudget(subs[s], ToNextRun(s))

RenewalInv == OutlookTyped /\ Budget

\* A token read for a refresh is still the user's, or an older one that a
\* connection overtook.
RefreshesAreWanted ==
  token # Nil =>
    /\ linked # Nil /\ (token = linked \/ relinked)
    /\ \A t \in Threads : At(t, "refresh") => job[t].account = linked \/ relinked

----------------------------------------------------------------------------
LEMMA Durations ==
  /\ Period \in Nat \ {0} /\ Threshold \in Nat /\ Ttl \in Nat
  /\ 2 * Period <= Threshold /\ Threshold <= Ttl
  BY OutlookAssumption

LEMMA NextHour ==
  ASSUME NEW n \in 0..(Period - 1)
  PROVE  (n + 1) % Period = IF n + 1 = Period THEN 0 ELSE n + 1
  BY Durations

\* The jobs that no run of the renewal is at.
LEMMA PlainKinds ==
  /\ Idle \in PlainJobs /\ Idle.pc = "idle" /\ Rows(Idle) = {}
  /\ \A pc \in {"use", "subscribe", "create", "dropTokens", "dropSubs"} :
       [pc |-> pc] \in PlainJobs /\ Rows([pc |-> pc]) = {} /\ [pc |-> pc].pc = pc
  /\ \A L \in SUBSET SubIds :
       Revoking(L) \in PlainJobs /\ Rows(Revoking(L)) = {} /\ Revoking(L).pc # "refresh"
  BY DEF Idle, PlainJobs, Rows, Revoking

\* The jobs of a run, and the rows they have still to see.
LEMMA RunKinds ==
  ASSUME NEW L \in SUBSET SubIds
  PROVE  /\ [pc |-> "renew", left |-> L] \in PlainJobs
         /\ Rows([pc |-> "renew", left |-> L]) = L
         /\ \A s \in L, pc \in {"patch", "drop"} :
              /\ [pc |-> pc, row |-> s, left |-> L] \in PlainJobs
              /\ Rows([pc |-> pc, row |-> s, left |-> L]) = L
  BY DEF PlainJobs, Rows

LEMMA PlainHeld ==
  ASSUME NEW j \in PlainJobs
  PROVE  j \in OutlookJobs /\ j.pc # "refresh" /\ Coherent(j) /\ Held(j) = Rows(j)
  BY DEF PlainJobs, OutlookJobs, Coherent, Held

\* A subscription that was just made or renewed is within the budget.
LEMMA FreshBudget ==
  ASSUME NEW hours \in Nat, hours <= Period
  PROVE  NewSub \in SubRow /\ InBudget(NewSub, hours)
  <1>1. NewSub.left = Ttl /\ NewSub.lapsed = FALSE /\ NewSub.fails = 0
    BY DEF NewSub
  <1>2. NewSub \in SubRow
    BY Durations DEF NewSub, SubRow
  <1>3. NewSub.left + Period >= hours + Threshold
    BY <1>1, Durations
  <1> QED BY <1>1, <1>2, <1>3 DEF InBudget

\* A failed run costs a day of the budget, and the first one affords it.
LEMMA FailureAfforded ==
  ASSUME NEW stored \in SubRow, InBudget(stored, 0), NEW hours \in Nat, hours <= Period
  PROVE  Failed(stored) \in SubRow /\ InBudget(Failed(stored), hours)
  <1>1. /\ Failed(stored) \in SubRow
        /\ Failed(stored).left = stored.left /\ Failed(stored).lapsed = stored.lapsed
        /\ Failed(stored).fails = IF stored.fails = 2 THEN 2 ELSE stored.fails + 1
    BY DEF Failed, SubRow
  <1> QED BY <1>1, Durations DEF InBudget, SubRow, Failed

----------------------------------------------------------------------------
\* One thread goes on to j.  Each row is new or gone, or stays as it is and
\* is still awaited if it was, or was awaited and its renewal failed.
LEMMA JobStep ==
  ASSUME RenewalInv, NEW t \in Threads, NEW j \in OutlookJobs, Coherent(j),
         job' = [job EXCEPT ![t] = j], UNCHANGED <<phase, ran>>,
         token' \in Accounts \cup {Nil}, linked' \in Accounts \cup {Nil},
         subs' \in [SubIds -> SubRow \cup {Nil}],
         \A s \in SubIds :
           \/ subs'[s] \in {Nil, NewSub}
           \/ subs'[s] = subs[s] /\ (s \in Held(job[t]) => s \in Held(j))
           \/ subs[s] # Nil /\ subs'[s] = Failed(subs[s]) /\ s \in Held(job[t])
  PROVE  RenewalInv'
  <1>0. OutlookTyped
    BY DEF RenewalInv
  <1>1. OutlookTyped'
    BY <1>0 DEF OutlookTyped
  <1>2. job'[t] = j /\ \A x \in Threads \ {t} : job'[x] = job[x]
    BY <1>0 DEF OutlookTyped
  <1>3. ASSUME NEW s \in SubIds, subs'[s] # Nil
        PROVE  InBudget(subs'[s], ToNextRun(s)')
    <2>1. ToNextRun(s)' \in Nat /\ ToNextRun(s)' <= Period
      BY <1>1, Durations DEF OutlookTyped, ToNextRun
    <2>2. CASE subs'[s] = NewSub
      BY <2>1, <2>2, FreshBudget
    <2>3. CASE subs'[s] = subs[s] /\ (s \in Held(job[t]) => s \in Held(j))
      <3>1. InBudget(subs[s], ToNextRun(s)) /\ subs[s] \in SubRow
        BY <1>0, <1>3, <2>3 DEF RenewalInv, Budget, Stored, OutlookTyped
      <3>2. Awaited(s) => Awaited(s)'
        BY <1>2, <2>3 DEF Awaited
      <3>3. ToNextRun(s)' <= ToNextRun(s) /\ ToNextRun(s) \in Nat
        BY <1>0, <3>2, Durations DEF ToNextRun, OutlookTyped
      <3> QED BY <2>1, <2>3, <3>1, <3>3, Durations DEF InBudget, SubRow
    <2>4. CASE subs[s] # Nil /\ subs'[s] = Failed(subs[s]) /\ s \in Held(job[t])
      <3>1. InBudget(subs[s], ToNextRun(s)) /\ subs[s] \in SubRow
        BY <1>0, <2>4 DEF RenewalInv, Budget, Stored, OutlookTyped
      <3>2. ToNextRun(s) = 0
        BY <2>4 DEF ToNextRun, Awaited
      <3> QED BY <2>1, <2>4, <3>1, <3>2, FailureAfforded
    <2> QED BY <1>3, <2>2, <2>3, <2>4
  <1>4. Budget'
    BY <1>3 DEF Budget, Stored
  <1> QED BY <1>1, <1>4 DEF RenewalInv

\* getAccessToken, with the rows of the run, if any, awaited on either way.
LEMMA TokenKeeps ==
  ASSUME RenewalInv, NEW t \in Threads, NEW ok \in PlainJobs, NEW null \in PlainJobs,
         Rows(ok) = Rows(null), Held(job[t]) \subseteq Rows(ok), GetToken(t, ok, null)
  PROVE  RenewalInv'
  <1>0. /\ token \in Accounts \cup {Nil} /\ linked \in Accounts \cup {Nil}
        /\ subs \in [SubIds -> SubRow \cup {Nil}]
    BY DEF RenewalInv, OutlookTyped
  <1>1. UNCHANGED outlook
    BY DEF GetToken
  <1>2. PICK j \in OutlookJobs :
          job' = [job EXCEPT ![t] = j] /\ Coherent(j) /\ Held(j) = Rows(ok)
    <2>1. CASE GoTo(t, ok) \/ GoTo(t, null)
      BY <2>1, PlainHeld DEF GoTo
    <2>2. CASE /\ token # Nil
               /\ GoTo(t, [pc |-> "refresh", account |-> token, ok |-> ok, null |-> null])
      <3> DEFINE j == [pc |-> "refresh", account |-> token, ok |-> ok, null |-> null]
      <3>1. j \in OutlookJobs
        BY <1>0, <2>2 DEF OutlookJobs
      <3>2. Coherent(j) /\ Held(j) = Rows(ok)
        BY DEF Coherent, Held
      <3> QED BY <2>2, <3>1, <3>2 DEF GoTo
    <2> QED BY <2>1, <2>2 DEF GetToken
  <1>3. \A s \in SubIds : subs'[s] = subs[s] /\ (s \in Held(job[t]) => s \in Held(j))
    BY <1>1, <1>2 DEF outlook
  <1>4. UNCHANGED <<token, subs, phase, ran, linked>>
    BY <1>1 DEF outlook
  <1> QED BY <1>0, <1>2, <1>3, <1>4, JobStep

LEMMA RequestKeeps ==
  ASSUME RenewalInv, NEW t \in Threads, OutlookRequest(t)
  PROVE  RenewalInv'
  <1>0. /\ token \in Accounts \cup {Nil} /\ linked \in Accounts \cup {Nil}
        /\ subs \in [SubIds -> SubRow \cup {Nil}] /\ Stored \in SUBSET SubIds
    BY DEF RenewalInv, OutlookTyped, Stored
  <1>1. /\ UNCHANGED <<subs, phase, ran>>
        /\ token' \in Accounts \cup {Nil} /\ linked' \in Accounts \cup {Nil}
    BY <1>0 DEF OutlookRequest, UseToken, Subscribe, Disconnect, Connect, outlook
  <1>2. PICK j \in PlainJobs : Arrive(t, j)
    BY <1>0, PlainKinds DEF OutlookRequest, UseToken, Subscribe, Disconnect, Connect
  <1>3. job[t] = Idle /\ job' = [job EXCEPT ![t] = j]
    BY <1>2 DEF Arrive, IsFree
  <1>4. Held(job[t]) = {} /\ j \in OutlookJobs /\ Coherent(j)
    BY <1>3, PlainKinds, PlainHeld
  <1> QED BY <1>0, <1>1, <1>3, <1>4, JobStep

\* Requests under way, other than the renewal.
LEMMA UserKeeps ==
  ASSUME RenewalInv, NEW t \in Threads,
         Used(t) \/ SubscribeToken(t) \/ SubscribeWrite(t) \/ Revoke(t)
         \/ DropTokens(t) \/ DropSubs(t)
  PROVE  RenewalInv'
  <1>0. /\ job[t] \in OutlookJobs
        /\ token \in Accounts \cup {Nil} /\ linked \in Accounts \cup {Nil}
        /\ subs \in [SubIds -> SubRow \cup {Nil}] /\ NewSub \in SubRow
    BY FreshBudget, Durations DEF RenewalInv, OutlookTyped
  <1>1. Held(job[t]) = {}
    BY DEF Used, SubscribeToken, SubscribeWrite, Revoke, DropTokens, DropSubs, At, Held, Rows
  <1>2. CASE Used(t)
    BY <1>1, <1>2, PlainKinds, TokenKeeps DEF Used
  <1>3. CASE SubscribeToken(t)
    BY <1>1, <1>3, PlainKinds, TokenKeeps DEF SubscribeToken
  <1>4. CASE Revoke(t)
    <2>1. job[t].left \in SUBSET SubIds
      BY <1>0, <1>4 DEF Revoke, At, OutlookJobs, PlainJobs
    <2>2. PICK s \in job[t].left :
            GetToken(t, Revoking(job[t].left \ {s}), Revoking(job[t].left \ {s}))
      BY <1>4 DEF Revoke
    <2>3. job[t].left \ {s} \in SUBSET SubIds
      BY <2>1
    <2> QED BY <1>1, <2>2, <2>3, PlainKinds, TokenKeeps
  <1>5. CASE SubscribeWrite(t)
    <2>1. job' = [job EXCEPT ![t] = Idle] /\ UNCHANGED <<token, phase, ran, linked>>
      BY <1>5 DEF SubscribeWrite, Finish, GoTo
    <2>2. /\ subs' \in [SubIds -> SubRow \cup {Nil}]
          /\ \A s \in SubIds : subs'[s] \in {subs[s], NewSub}
      BY <1>0, <1>5 DEF SubscribeWrite
    <2> QED BY <1>0, <1>1, <2>1, <2>2, PlainKinds, PlainHeld, JobStep
  <1>6. CASE DropTokens(t)
    <2>1. /\ job' = [job EXCEPT ![t] = [pc |-> "dropSubs"]] /\ UNCHANGED <<subs, phase, ran>>
          /\ token' = Nil /\ linked' = Nil
      BY <1>6 DEF DropTokens, GoTo
    <2>2. [pc |-> "dropSubs"] \in PlainJobs
      BY PlainKinds
    <2> QED BY <1>0, <1>1, <2>1, <2>2, PlainHeld, JobStep
  <1>7. CASE DropSubs(t)
    <2>1. /\ job' = [job EXCEPT ![t] = Idle] /\ UNCHANGED <<token, phase, ran, linked>>
          /\ subs' = [s \in SubIds |-> Nil]
      BY <1>7 DEF DropSubs, Finish, GoTo
    <2> QED BY <1>0, <1>1, <2>1, PlainKinds, PlainHeld, JobStep
  <1> QED BY <1>2, <1>3, <1>4, <1>5, <1>6, <1>7

\* The answer of a refresh: what follows it holds the same rows.
LEMMA RefreshKeeps ==
  ASSUME RenewalInv, NEW t \in Threads, RefreshWrite(t)
  PROVE  RenewalInv'
  <1>0. /\ job[t] \in OutlookJobs /\ Coherent(job[t]) /\ job[t].pc = "refresh"
        /\ token \in Accounts \cup {Nil} /\ linked \in Accounts \cup {Nil}
        /\ subs \in [SubIds -> SubRow \cup {Nil}]
    BY DEF RenewalInv, OutlookTyped, RefreshWrite, At
  <1>1. /\ job[t].account \in Accounts /\ job[t].ok \in PlainJobs /\ job[t].null \in PlainJobs
        /\ Rows(job[t].ok) = Rows(job[t].null) /\ Held(job[t]) = Rows(job[t].ok)
    BY <1>0 DEF OutlookJobs, PlainJobs, Coherent, Held
  <1>2. PICK j \in {job[t].ok, job[t].null} : job' = [job EXCEPT ![t] = j]
    BY DEF RefreshWrite, GoTo
  <1>3. j \in OutlookJobs /\ Coherent(j) /\ Held(j) = Held(job[t])
    BY <1>1, PlainHeld
  <1>4. UNCHANGED <<subs, phase, ran, linked>> /\ token' \in Accounts \cup {Nil}
    BY <1>0, <1>1 DEF RefreshWrite
  <1> QED BY <1>0, <1>2, <1>3, <1>4, JobStep

----------------------------------------------------------------------------
\* The daily run: it begins, goes from row to row, and ends or is missed.
LEMMA RenewReadKeeps ==
  ASSUME RenewalInv, NEW t \in Threads, RenewRead(t)
  PROVE  RenewalInv'
  <1>0. /\ OutlookTyped /\ phase = 0 /\ ~ran /\ ran' = TRUE
        /\ UNCHANGED <<token, subs, phase, linked>> /\ job[t] = Idle
        /\ Due \in SUBSET SubIds
    BY DEF RenewRead, RenewalInv, Begin, IsFree, Due, Stored
  <1>1. PICK j \in PlainJobs : job' = [job EXCEPT ![t] = j] /\ Rows(j) = Due
    <2>1. CASE Due # {}
      BY <1>0, <2>1, RunKinds DEF RenewRead, Begin
    <2>2. CASE Due = {}
      <3>1. job' = [job EXCEPT ![t] = Idle]
        BY <1>0, <2>2 DEF RenewRead, control, OutlookTyped
      <3> QED BY <2>2, <3>1, PlainKinds
    <2> QED BY <2>1, <2>2
  <1>2. j \in OutlookJobs /\ Coherent(j) /\ Held(j) = Due
    BY <1>1, PlainHeld
  <1>3. OutlookTyped'
    BY <1>0, <1>1, <1>2 DEF OutlookTyped
  <1>4. ASSUME NEW s \in Stored'
        PROVE  InBudget(subs'[s], ToNextRun(s)')
    <2>1. s \in Stored /\ s \in SubIds /\ subs'[s] = subs[s] /\ subs[s] \in SubRow
      BY <1>0 DEF Stored, OutlookTyped
    <2>2. ToNextRun(s) = 0 /\ InBudget(subs[s], 0)
      BY <1>0, <2>1 DEF ToNextRun, RenewalInv, Budget
    <2>3. CASE s \in Due
      <3>1. Awaited(s)'
        BY <1>0, <1>1, <1>2, <2>3 DEF Awaited, OutlookTyped
      <3>2. ToNextRun(s)' = 0
        BY <3>1 DEF ToNextRun
      <3> QED BY <2>1, <2>2, <3>2
    <2>4. CASE s \notin Due
      <3>1. subs[s].left >= Threshold
        BY <2>1, <2>4, Durations DEF Due, SubRow
      <3>2. ToNextRun(s)' \in Nat /\ ToNextRun(s)' <= Period
        BY <1>0, Durations DEF ToNextRun
      <3> QED BY <2>1, <2>2, <3>1, <3>2, Durations DEF InBudget, SubRow
    <2> QED BY <2>3, <2>4
  <1> QED BY <1>3, <1>4 DEF RenewalInv, Budget

LEMMA RenewTokenKeeps ==
  ASSUME RenewalInv, NEW t \in Threads, RenewToken(t)
  PROVE  RenewalInv'
  <1>0. job[t] \in OutlookJobs /\ job[t].pc = "renew"
    BY DEF RenewalInv, OutlookTyped, RenewToken, At
  <1>1. job[t].left \in SUBSET SubIds /\ Held(job[t]) = job[t].left
    BY <1>0 DEF OutlookJobs, PlainJobs, Held, Rows
  <1>2. PICK s \in job[t].left :
          GetToken(t, [pc |-> "patch", row |-> s, left |-> job[t].left],
                      [pc |-> "drop", row |-> s, left |-> job[t].left])
    BY DEF RenewToken
  <1>3. /\ [pc |-> "patch", row |-> s, left |-> job[t].left] \in PlainJobs
        /\ [pc |-> "drop", row |-> s, left |-> job[t].left] \in PlainJobs
        /\ Rows([pc |-> "patch", row |-> s, left |-> job[t].left]) = job[t].left
        /\ Rows([pc |-> "drop", row |-> s, left |-> job[t].left]) = job[t].left
    BY <1>1, RunKinds
  <1> QED BY <1>1, <1>2, <1>3, TokenKeeps

\* One row is done with, renewed, failed, deleted or gone before.
LEMMA RowDone ==
  ASSUME RenewalInv, NEW t \in Threads, RenewDrop(t) \/ RenewPatch(t)
  PROVE  RenewalInv'
  <1> DEFINE s == job[t].row
             rest == job[t].left \ {s}
  <1>0. /\ job[t] \in OutlookJobs /\ job[t].pc \in {"patch", "drop"}
        /\ token \in Accounts \cup {Nil} /\ linked \in Accounts \cup {Nil}
        /\ subs \in [SubIds -> SubRow \cup {Nil}] /\ UNCHANGED <<token, phase, ran, linked>>
    BY DEF RenewalInv, OutlookTyped, RenewDrop, RenewPatch, At
  <1>1. s \in SubIds /\ s \in job[t].left /\ job[t].left \in SUBSET SubIds
    BY <1>0 DEF OutlookJobs, PlainJobs
  <1>2. Held(job[t]) = job[t].left
    BY <1>0 DEF Held, Rows
  <1>3. PICK j \in PlainJobs : job' = [job EXCEPT ![t] = j] /\ Rows(j) = rest
    <2>1. CASE rest = {}
      BY <2>1, PlainKinds DEF RenewDrop, RenewPatch, NextRow, GoTo
    <2>2. CASE rest # {}
      <3>1. /\ [pc |-> "renew", left |-> rest] \in PlainJobs
            /\ Rows([pc |-> "renew", left |-> rest]) = rest
        BY <1>1, RunKinds
      <3> QED BY <2>2, <3>1 DEF RenewDrop, RenewPatch, NextRow, GoTo
    <2> QED BY <2>1, <2>2
  <1>4. j \in OutlookJobs /\ Coherent(j) /\ Held(j) = rest
    BY <1>3, PlainHeld
  <1>5. NewSub \in SubRow /\ (subs[s] # Nil => Failed(subs[s]) \in SubRow)
    <2>1. NewSub \in SubRow
      BY FreshBudget, Durations
    <2>2. subs[s] # Nil => subs[s] \in SubRow
      BY <1>0, <1>1
    <2> QED BY <2>1, <2>2 DEF Failed, SubRow
  <1>6. PICK new \in SubRow \cup {Nil} :
          /\ subs' = [subs EXCEPT ![s] = new]
          /\ new \in {Nil, NewSub} \/ (subs[s] # Nil /\ new = Failed(subs[s]))
    <2>1. CASE RenewDrop(t)
      BY <2>1 DEF RenewDrop
    <2>2. CASE RenewPatch(t) /\ subs[s] = Nil
      <3>1. subs' = subs
        BY <2>2 DEF RenewPatch
      <3>2. subs' = [subs EXCEPT ![s] = Nil]
        BY <1>0, <1>1, <2>2, <3>1
      <3> QED BY <3>2
    <2>3. CASE RenewPatch(t) /\ subs[s] # Nil
      BY <1>5, <2>3 DEF RenewPatch
    <2> QED BY <2>1, <2>2, <2>3
  <1> HIDE DEF s
  <1>7. /\ subs' \in [SubIds -> SubRow \cup {Nil}]
        /\ \A x \in SubIds : subs'[x] = IF x = s THEN new ELSE subs[x]
    BY <1>0, <1>1, <1>6
  <1>8. ASSUME NEW x \in SubIds
        PROVE  \/ subs'[x] \in {Nil, NewSub}
               \/ subs'[x] = subs[x] /\ (x \in Held(job[t]) => x \in Held(j))
               \/ subs[x] # Nil /\ subs'[x] = Failed(subs[x]) /\ x \in Held(job[t])
    <2>1. CASE x = s
      BY <1>1, <1>2, <1>6, <1>7, <2>1
    <2>2. CASE x # s
      BY <1>2, <1>4, <1>7, <2>2
    <2> QED BY <2>1, <2>2
  <1> HIDE DEF rest
  <1> QED BY <1>0, <1>3, <1>4, <1>7, <1>8, JobStep

LEMMA RenewMissedKeeps ==
  ASSUME RenewalInv, RenewMissed
  PROVE  RenewalInv'
  <1>0. /\ OutlookTyped /\ phase = 0 /\ ~ran /\ ran' = TRUE
        /\ UNCHANGED <<token, phase, linked, job>>
        /\ subs' = [s \in SubIds |-> IF s \in Due THEN Failed(subs[s]) ELSE subs[s]]
    BY DEF RenewMissed, control, RenewalInv
  <1>1. ASSUME NEW s \in SubIds
        PROVE  /\ subs'[s] \in SubRow \cup {Nil}
               /\ subs'[s] # Nil => InBudget(subs'[s], ToNextRun(s)')
    <2>1. ToNextRun(s)' \in Nat /\ ToNextRun(s)' <= Period
      BY <1>0, Durations DEF OutlookTyped, ToNextRun
    <2>2. subs[s] # Nil => subs[s] \in SubRow /\ InBudget(subs[s], 0)
      BY <1>0 DEF ToNextRun, RenewalInv, Budget, Stored, OutlookTyped
    <2>3. CASE s \in Due
      BY <1>0, <2>1, <2>2, <2>3, FailureAfforded DEF Due, Stored
    <2>4. CASE s \notin Due
      <3>1. subs'[s] = subs[s] /\ (subs[s] # Nil => subs[s].left >= Threshold)
        BY <1>0, <2>2, <2>4, Durations DEF Due, Stored, SubRow
      <3> QED BY <2>1, <2>2, <3>1, Durations DEF InBudget, SubRow
    <2> QED BY <2>3, <2>4
  <1>2. OutlookTyped'
    BY <1>0, <1>1 DEF OutlookTyped
  <1> QED BY <1>1, <1>2 DEF RenewalInv, Budget, Stored

LEMMA HourKeeps ==
  ASSUME RenewalInv, Hour
  PROVE  RenewalInv'
  <1>0. /\ OutlookTyped /\ (phase = 0 => ran) /\ phase' = (phase + 1) % Period /\ ran' = FALSE
        /\ UNCHANGED <<token, linked, job>> /\ subs' = [s \in SubIds |-> Aged(subs[s])]
        /\ \A t \in Threads : job[t] = Idle
    BY DEF Hour, control, Quiet, IsFree, RenewalInv
  <1>1. phase \in 0..(Period - 1)
    BY <1>0 DEF OutlookTyped
  <1>2. phase' = IF phase + 1 = Period THEN 0 ELSE phase + 1
    BY <1>0, <1>1, NextHour
  <1>3. phase' \in 0..(Period - 1)
    BY <1>1, <1>2, Durations
  <1>4. ASSUME NEW s \in SubIds
        PROVE  /\ ToNextRun(s) = Period - phase
               /\ ToNextRun(s)' = Period - phase - 1
    <2>1. ~Awaited(s) /\ ~Awaited(s)'
      BY <1>0, PlainKinds, PlainHeld DEF Awaited
    <2> QED BY <1>0, <1>1, <1>2, <2>1, Durations DEF ToNextRun
  <1>5. ASSUME NEW s \in SubIds
        PROVE  /\ subs'[s] \in SubRow \cup {Nil}
               /\ subs'[s] # Nil => InBudget(subs'[s], ToNextRun(s)')
    <2>0. subs[s] \in SubRow \cup {Nil} /\ subs'[s] = Aged(subs[s])
      BY <1>0 DEF OutlookTyped
    <2>1. CASE subs[s] = Nil
      BY <2>0, <2>1 DEF Aged
    <2>2. CASE subs[s] # Nil
      <3>1. subs[s] \in SubRow /\ InBudget(subs[s], Period - phase)
        BY <1>4, <2>0, <2>2 DEF RenewalInv, Budget, Stored
      <3>2. CASE subs[s].left = 0
        <4>1. subs[s].fails = 2
          BY <1>1, <3>1, <3>2, Durations DEF InBudget, SubRow
        <4>2. subs'[s] \in SubRow /\ subs'[s].fails = 2
          BY <2>0, <2>2, <3>1, <3>2, <4>1 DEF Aged, SubRow
        <4> QED BY <4>2 DEF InBudget
      <3>3. CASE subs[s].left # 0
        <4>1. /\ subs'[s] \in SubRow /\ subs'[s].left = subs[s].left - 1
              /\ subs'[s].fails = subs[s].fails /\ subs'[s].lapsed = subs[s].lapsed
          BY <2>0, <2>2, <3>1, <3>3, Durations DEF Aged, SubRow
        <4> QED BY <1>1, <1>4, <3>1, <4>1, Durations DEF InBudget, SubRow
      <3> QED BY <3>2, <3>3
    <2> QED BY <2>1, <2>2
  <1>6. OutlookTyped'
    BY <1>0, <1>3, <1>5 DEF OutlookTyped
  <1> QED BY <1>5, <1>6 DEF RenewalInv, Budget, Stored

LEMMA RenewalInit == OutlookInit => RenewalInv
  <1> SUFFICES ASSUME OutlookInit PROVE RenewalInv
    OBVIOUS
  <1>1. OutlookTyped
    BY PlainKinds, PlainHeld, Durations DEF OutlookInit, ControlInit, OutlookTyped
  <1> QED BY <1>1 DEF OutlookInit, RenewalInv, Budget, Stored

LEMMA RenewalStep == RenewalInv /\ [OutlookNext]_outlookVars => RenewalInv'
  <1> SUFFICES ASSUME RenewalInv, [OutlookNext]_outlookVars PROVE RenewalInv'
    OBVIOUS
  <1>1. ASSUME NEW t \in Threads, OutlookStep(t) \/ OutlookRequest(t) \/ RenewRead(t)
        PROVE  RenewalInv'
    BY <1>1, RequestKeeps, UserKeeps, RefreshKeeps, RenewReadKeeps, RenewTokenKeeps, RowDone
    DEF OutlookStep
  <1>2. CASE UNCHANGED outlookVars
    <2>1. UNCHANGED <<job, token, subs, phase, ran, linked>>
      BY <1>2 DEF outlookVars, outlook, control
    <2> QED BY <2>1 DEF RenewalInv, OutlookTyped, Budget, Stored, ToNextRun, Awaited
  <1> QED BY <1>1, <1>2, RenewMissedKeeps, HourKeeps DEF OutlookNext

\* The types, a run that goes on with the same rows whether or not a refresh
\* succeeds, and for each stored row enough time left for the runs to come:
\* renewExpiringSubscriptions, its constants, and getAccessToken with its
\* failures.
THEOREM RenewalHolds == OutlookSpec => []RenewalInv
  BY RenewalInit, RenewalStep, PTL DEF OutlookSpec

\* A row that is still stored lapses only after two runs in a row refused it
\* or were missed, for every lifetime and threshold of at least two periods
\* and any number of subscriptions.  It does not say that the row stays:
\* one token that cannot be had deletes it (RenewDrop).
THEOREM StoredRowsAffordOneFailure == OutlookSpec => []LapseNeedsTwoFailures
  <1>1. RenewalInv => LapseNeedsTwoFailures
    <2> SUFFICES ASSUME RenewalInv, NEW s \in Stored, subs[s].lapsed PROVE subs[s].fails = 2
      BY DEF LapseNeedsTwoFailures
    <2>1. subs[s] \in SubRow /\ InBudget(subs[s], ToNextRun(s))
      BY DEF RenewalInv, OutlookTyped, Budget, Stored
    <2> QED BY <2>1 DEF InBudget, SubRow
  <1> QED BY <1>1, RenewalHolds, PTL

----------------------------------------------------------------------------
\* A thread that goes on leaves the others' refreshes as they are, and its
\* own, if it begins one, is of the tokens stored now.
LEMMA OthersRefresh ==
  ASSUME RenewalInv, RefreshesAreWanted, UNCHANGED <<token, linked, relinked>>,
         NEW t \in Threads, NEW j, job' = [job EXCEPT ![t] = j],
         j.pc = "refresh" => j.account = token
  PROVE  RefreshesAreWanted'
  <1>1. job'[t] = j /\ \A x \in Threads \ {t} : job'[x] = job[x]
    BY DEF RenewalInv, OutlookTyped
  <1> QED BY <1>1 DEF RefreshesAreWanted, At

LEMMA TokenWanted ==
  ASSUME RenewalInv, RefreshesAreWanted, NEW t \in Threads,
         NEW ok \in PlainJobs, NEW null \in PlainJobs, GetToken(t, ok, null)
  PROVE  RefreshesAreWanted'
  <1>1. UNCHANGED <<token, linked, relinked>>
    BY DEF GetToken, outlook
  <1>2. ok.pc # "refresh" /\ null.pc # "refresh"
    BY PlainHeld
  <1>3. CASE GoTo(t, ok)
    BY <1>1, <1>2, <1>3, OthersRefresh DEF GoTo
  <1>4. CASE GoTo(t, null)
    BY <1>1, <1>2, <1>4, OthersRefresh DEF GoTo
  <1>5. CASE GoTo(t, [pc |-> "refresh", account |-> token, ok |-> ok, null |-> null])
    BY <1>1, <1>5, OthersRefresh DEF GoTo
  <1> QED BY <1>3, <1>4, <1>5 DEF GetToken

LEMMA WantedStep ==
  RenewalInv /\ RefreshesAreWanted /\ [OutlookNext]_outlookVars => RefreshesAreWanted'
  <1> SUFFICES ASSUME RenewalInv, RefreshesAreWanted, [OutlookNext]_outlookVars
               PROVE  RefreshesAreWanted'
    OBVIOUS
  <1>0. job \in [Threads -> OutlookJobs] /\ token \in Accounts \cup {Nil}
    BY DEF RenewalInv, OutlookTyped
  <1>1. ASSUME NEW t \in Threads, NEW a \in Accounts, Connect(t, a) PROVE RefreshesAreWanted'
    <2>1. /\ job' = [job EXCEPT ![t] = [pc |-> "subscribe"]]
          /\ linked' = a /\ token' = a /\ relinked' = \E x \in Threads : At(x, "refresh")
      BY <1>1 DEF Connect, Arrive
    <2>2. \A x \in Threads : At(x, "refresh")' => At(x, "refresh")
      BY <1>0, <2>1 DEF At
    <2> QED BY <2>1, <2>2, OutlookAssumption DEF RefreshesAreWanted
  <1>2. ASSUME NEW t \in Threads, UseToken(t) \/ Subscribe(t) \/ Disconnect(t)
        PROVE  RefreshesAreWanted'
    <2>1. UNCHANGED <<token, linked, relinked>>
      BY <1>2 DEF UseToken, Subscribe, Disconnect, outlook
    <2>2. Stored \in SUBSET SubIds
      BY DEF Stored
    <2>3. PICK j \in PlainJobs : job' = [job EXCEPT ![t] = j]
      BY <1>2, <2>2, PlainKinds DEF UseToken, Subscribe, Disconnect, Arrive
    <2>4. j.pc # "refresh"
      BY PlainHeld
    <2> QED BY <2>1, <2>3, <2>4, OthersRefresh
  <1>3. ASSUME NEW t \in Threads, RefreshWrite(t) PROVE RefreshesAreWanted'
    <2>1. /\ At(t, "refresh") /\ UNCHANGED <<linked, relinked>>
          /\ token' = token \/ (token # Nil /\ token' = job[t].account)
      BY <1>3 DEF RefreshWrite
    <2>2. PICK j \in PlainJobs : job' = [job EXCEPT ![t] = j]
      BY <1>0, <1>3 DEF RefreshWrite, GoTo, At, OutlookJobs, PlainJobs
    <2>3. \A x \in Threads : At(x, "refresh")' => At(x, "refresh") /\ job'[x] = job[x]
      BY <1>0, <2>2, PlainHeld DEF At
    <2> QED BY <2>1, <2>3 DEF RefreshesAreWanted, At
  <1>4. ASSUME NEW t \in Threads, DropTokens(t) PROVE RefreshesAreWanted'
    BY <1>4 DEF DropTokens, RefreshesAreWanted
  <1>5. ASSUME NEW t \in Threads, Used(t) \/ SubscribeToken(t) \/ Revoke(t) \/ RenewToken(t)
        PROVE  RefreshesAreWanted'
    <2>1. PICK ok \in PlainJobs, null \in PlainJobs : GetToken(t, ok, null)
      <3>0. job[t] \in OutlookJobs
        BY <1>0
      <3>1. CASE Used(t) \/ SubscribeToken(t)
        BY <3>1, PlainKinds DEF Used, SubscribeToken
      <3>2. CASE Revoke(t)
        <4>1. job[t].left \in SUBSET SubIds
          BY <3>0, <3>2 DEF Revoke, At, OutlookJobs, PlainJobs
        <4>2. \A s \in job[t].left : Revoking(job[t].left \ {s}) \in PlainJobs
          BY <4>1, PlainKinds
        <4> QED BY <3>2, <4>2 DEF Revoke
      <3>3. CASE RenewToken(t)
        <4>1. job[t].left \in SUBSET SubIds
          BY <3>0, <3>3 DEF RenewToken, At, OutlookJobs, PlainJobs
        <4>2. \A s \in job[t].left :
                /\ [pc |-> "patch", row |-> s, left |-> job[t].left] \in PlainJobs
                /\ [pc |-> "drop", row |-> s, left |-> job[t].left] \in PlainJobs
          BY <4>1, RunKinds
        <4> QED BY <3>3, <4>2 DEF RenewToken
      <3> QED BY <1>5, <3>1, <3>2, <3>3
    <2> QED BY <2>1, TokenWanted
  <1>6. ASSUME NEW t \in Threads,
               SubscribeWrite(t) \/ DropSubs(t) \/ RenewDrop(t) \/ RenewPatch(t)
        PROVE  RefreshesAreWanted'
    <2>1. UNCHANGED <<token, linked, relinked>>
      BY <1>6 DEF SubscribeWrite, DropSubs, RenewDrop, RenewPatch
    <2>2. PICK j \in {Idle, [pc |-> "renew", left |-> job[t].left \ {job[t].row}]} :
            job' = [job EXCEPT ![t] = j]
      BY <1>6 DEF SubscribeWrite, DropSubs, RenewDrop, RenewPatch, NextRow, Finish, GoTo
    <2>3. j.pc # "refresh"
      BY PlainKinds
    <2> QED BY <2>1, <2>2, <2>3, OthersRefresh
  <1>7. ASSUME NEW t \in Threads, RenewRead(t) PROVE RefreshesAreWanted'
    <2>1. UNCHANGED <<token, linked, relinked>>
      BY <1>7 DEF RenewRead
    <2>2. CASE job' = job
      BY <2>1, <2>2 DEF RefreshesAreWanted, At
    <2>3. CASE job' = [job EXCEPT ![t] = [pc |-> "renew", left |-> Due]]
      BY <2>1, <2>3, OthersRefresh
    <2> QED BY <1>7, <2>2, <2>3 DEF RenewRead, Begin, control
  <1>8. CASE RenewMissed \/ Hour \/ UNCHANGED outlookVars
    BY <1>8 DEF RenewMissed, Hour, outlookVars, outlook, control, RefreshesAreWanted, At
  <1> QED
    BY <1>1, <1>2, <1>3, <1>4, <1>5, <1>6, <1>7, <1>8 DEF OutlookNext, OutlookStep, OutlookRequest

\* A refresh under way does not bring back the tokens of a user who
\* disconnected: saveTokens creates the row, _refreshAccessToken only updates
\* it, and another account's tokens survive only beside a connection.
THEOREM OnlyWantedTokens == OutlookSpec => []TokensAreWanted
  <1>1. OutlookInit => RefreshesAreWanted
    BY DEF OutlookInit, RefreshesAreWanted
  <1>2. OutlookSpec => []RefreshesAreWanted
    BY <1>1, WantedStep, RenewalHolds, PTL DEF OutlookSpec
  <1>3. RefreshesAreWanted => TokensAreWanted
    BY DEF RefreshesAreWanted, TokensAreWanted
  <1> QED BY <1>2, <1>3, PTL

----------------------------------------------------------------------------
(***************************************************************************)
(* Health and updates.  A confirmation that no order overtook was begun by *)
(* a heartbeat that reported the version the row waits for.                *)
(***************************************************************************)
HealthJobs ==
  [pc : {"idle"}] \cup [pc : {"confirm"}, unit : Units]
  \cup [pc : {"watch", "timeout"}, left : SUBSET Units]
  \cup [pc : {"ota", "send"}, left : SUBSET Updatable, ver : Versions]
HealthTyped == HealthTypeOK /\ job \in [Threads -> HealthJobs] /\ now \in 0..MaxTime

Confirming(t, u) == At(t, "confirm") /\ job[t].unit = u
ConfirmedHeard ==
  \A t \in Threads, u \in Updatable \ overtaken :
    Confirming(t, u) => row[u].ver \in heard[u]

HealthInv == HealthTyped /\ ConfirmedHeard /\ SuccessWasHeard

LEMMA HealthConstants ==
  /\ Updatable \subseteq Units /\ Releases \in Nat /\ MaxTime \in Nat
  /\ 0 \in Versions /\ 0 \in 0..MaxTime
  BY HealthAssumption, ServiceAssumption DEF Versions

LEMMA HealthIdle == Idle \in HealthJobs /\ Idle.pc = "idle"
  BY DEF Idle, HealthJobs

\* A job of each kind, and what is read of it.
LEMMA HealthJobKinds ==
  /\ \A u \in Units : [pc |-> "confirm", unit |-> u] \in HealthJobs
  /\ \A L \in SUBSET Units : /\ [pc |-> "watch", left |-> L] \in HealthJobs
                             /\ [pc |-> "timeout", left |-> L] \in HealthJobs
  /\ \A L \in SUBSET Updatable, v \in Versions :
       [pc |-> "ota", left |-> L, ver |-> v] \in HealthJobs
  /\ \A j \in HealthJobs :
       /\ j.pc = "confirm" => j.unit \in Units
       /\ j.pc \in {"watch", "timeout"} => j.left \in SUBSET Units
       /\ j.pc \in {"ota", "send"} => /\ j.left \in SUBSET Updatable /\ j.ver \in Versions
                                      /\ [j EXCEPT !.pc = "send"] \in HealthJobs
                                      /\ [j EXCEPT !.pc = "send"].pc = "send"
  BY DEF HealthJobs

\* What is left of a batch once one unit of it was served.
LEMMA BatchShrinks ==
  ASSUME NEW j \in HealthJobs, j.pc \in {"watch", "send"}, NEW u
  PROVE  /\ [j EXCEPT !.left = j.left \ {u}] \in HealthJobs
         /\ [j EXCEPT !.left = j.left \ {u}].pc = j.pc
  BY DEF HealthJobs

\* One thread goes on to a step that confirms nothing.
LEMMA ConfirmsLess ==
  ASSUME job \in [Threads -> HealthJobs], NEW t \in Threads,
         NEW j \in HealthJobs, j.pc # "confirm",
         job' = [job EXCEPT ![t] = j]
  PROVE  /\ job' \in [Threads -> HealthJobs]
         /\ \A x \in Threads, u \in Updatable : Confirming(x, u)' => Confirming(x, u)
  BY DEF Confirming, At

\* A step after which rows keep their order and versions stay heard.
LEMMA HealthKept ==
  ASSUME HealthInv, HealthTyped', overtaken' = overtaken,
         \A x \in Threads, u \in Updatable : Confirming(x, u)' => Confirming(x, u),
         \A u \in Updatable :
           /\ row'[u].ver = row[u].ver /\ heard[u] \subseteq heard'[u]
           /\ row'[u].ota = "success" => row[u].ota = "success"
  PROVE  HealthInv'
  BY DEF HealthInv, ConfirmedHeard, SuccessWasHeard

LEMMA RowFields ==
  ASSUME HealthTyped, NEW u \in Units
  PROVE  /\ row[u] \in Row /\ row[u].ver \in Versions /\ running[u] \in Versions
         /\ heard[u] \in SUBSET Versions /\ now \in 0..MaxTime
  BY DEF HealthTyped, HealthTypeOK, Row

LEMMA HeartbeatKeeps ==
  ASSUME HealthInv, NEW t \in Threads, NEW u \in Units, Heartbeat(t, u)
  PROVE  HealthInv'
  <1> DEFINE new == [row[u] EXCEPT !.online = TRUE, !.seen = now, !.fw = running[u]]
  <1>1. /\ new \in Row /\ new.ver = row[u].ver /\ new.ota = row[u].ota
        /\ row[u].ver \in Versions /\ running[u] \in Versions
    BY RowFields DEF HealthInv, Row
  <1>2. /\ row' = [row EXCEPT ![u] = new] /\ heard' = [heard EXCEPT ![u] = @ \cup {running[u]}]
        /\ UNCHANGED <<alive, running, told, release, overtaken>> /\ now' = now
    BY DEF Heartbeat, Begin, control
  <1>3. \/ job' = job
        \/ /\ new.ota = "in_progress" /\ new.ver = running[u]
           /\ job' = [job EXCEPT ![t] = [pc |-> "confirm", unit |-> u]]
    BY DEF Heartbeat, Begin, control
  <1> HIDE DEF new
  <1>4. job' \in [Threads -> HealthJobs]
    BY <1>3, HealthJobKinds DEF HealthInv, HealthTyped
  <1>5. HealthTyped'
    BY <1>1, <1>2, <1>4 DEF HealthInv, HealthTyped, HealthTypeOK
  <1>6. \A v \in Updatable : /\ row'[v].ver = row[v].ver /\ row'[v].ota = row[v].ota
                             /\ heard[v] \subseteq heard'[v]
    BY <1>1, <1>2, HealthConstants DEF HealthInv, HealthTyped, HealthTypeOK
  <1>7. running[u] \in heard'[u]
    BY <1>2 DEF HealthInv, HealthTyped, HealthTypeOK
  <1>8. ASSUME NEW x \in Threads, NEW v \in Updatable \ overtaken', Confirming(x, v)'
        PROVE  row'[v].ver \in heard'[v]
    <2>1. CASE Confirming(x, v)
      BY <1>2, <1>6, <2>1 DEF HealthInv, ConfirmedHeard
    <2>2. CASE ~Confirming(x, v)
      <3>1. v = u /\ new.ver = running[u]
        BY <1>3, <1>8, <2>2 DEF Confirming, At, HealthInv, HealthTyped
      <3> QED BY <1>1, <1>6, <1>7, <3>1
    <2> QED BY <2>1, <2>2
  <1>9. SuccessWasHeard'
    BY <1>2, <1>6 DEF HealthInv, SuccessWasHeard
  <1> QED BY <1>5, <1>8, <1>9 DEF HealthInv, ConfirmedHeard

LEMMA ConfirmKeeps ==
  ASSUME HealthInv, NEW t \in Threads, Confirm(t)
  PROVE  HealthInv'
  <1>0. PICK u \in Units : u = job[t].unit
    BY HealthJobKinds DEF Confirm, At, HealthInv, HealthTyped
  <1> DEFINE new == [row[u] EXCEPT !.ota = "success"]
  <1>1. new \in Row /\ new.ver = row[u].ver /\ new.ota = "success"
    BY RowFields DEF HealthInv, Row
  <1>2. /\ row' = [row EXCEPT ![u] = new] /\ job' = [job EXCEPT ![t] = Idle] /\ now' = now
        /\ UNCHANGED <<alive, running, told, release, heard, overtaken>> /\ Confirming(t, u)
    BY <1>0 DEF Confirm, Finish, GoTo, Confirming
  <1> HIDE DEF new
  <1>3. /\ job' \in [Threads -> HealthJobs]
        /\ \A x \in Threads, v \in Updatable : Confirming(x, v)' => Confirming(x, v)
    BY <1>2, HealthIdle, ConfirmsLess DEF HealthInv, HealthTyped
  <1>4. HealthTyped'
    BY <1>1, <1>2, <1>3 DEF HealthInv, HealthTyped, HealthTypeOK
  <1>5. \A v \in Updatable : /\ row'[v].ver = row[v].ver
                             /\ v # u => row'[v] = row[v]
    BY <1>1, <1>2, HealthConstants DEF HealthInv, HealthTyped, HealthTypeOK
  <1>6. ConfirmedHeard'
    BY <1>2, <1>3, <1>5 DEF HealthInv, ConfirmedHeard
  <1>7. SuccessWasHeard'
    BY <1>2, <1>5 DEF HealthInv, ConfirmedHeard, SuccessWasHeard
  <1> QED BY <1>4, <1>6, <1>7 DEF HealthInv

\* The watchdog, the reads of the jobs and the commands to the beacons.
LEMMA JobsKeep ==
  ASSUME HealthInv, NEW t \in Threads,
         \/ WatchRead(t) \/ WatchWrite(t) \/ TimeoutRead(t) \/ TimeoutWrite(t) \/ OtaSend(t)
         \/ \E batch \in SUBSET Updatable, all \in BOOLEAN : OtaRead(t, batch, all)
  PROVE  HealthInv'
  <1>0. /\ HealthTyped /\ job \in [Threads -> HealthJobs] /\ job[t] \in HealthJobs
        /\ row \in [Units -> Row] /\ release \in Versions /\ Updatable \subseteq Units
    BY HealthConstants DEF HealthInv, HealthTyped, HealthTypeOK
  <1>1. ASSUME NEW j \in HealthJobs, j.pc # "confirm", job' = [job EXCEPT ![t] = j],
               now' = now, UNCHANGED <<alive, running, release, heard, overtaken>>,
               told' \in [Units -> SUBSET Versions], row' \in [Units -> Row],
               \A u \in Updatable : /\ row'[u].ver = row[u].ver
                                    /\ row'[u].ota = "success" => row[u].ota = "success"
        PROVE  HealthInv'
    <2>1. /\ job' \in [Threads -> HealthJobs]
          /\ \A x \in Threads, u \in Updatable : Confirming(x, u)' => Confirming(x, u)
      BY <1>0, <1>1, ConfirmsLess
    <2>2. HealthTyped'
      BY <1>1, <2>1 DEF HealthInv, HealthTyped, HealthTypeOK
    <2> QED BY <1>1, <2>1, <2>2, HealthKept
  <1>2. told \in [Units -> SUBSET Versions]
    BY DEF HealthInv, HealthTyped, HealthTypeOK
  <1>3. CASE WatchRead(t)
    <2> DEFINE j == [pc |-> "watch", left |-> Silent]
    <2>1. j \in HealthJobs /\ j.pc = "watch" /\ job' = [job EXCEPT ![t] = j] /\ UNCHANGED <<now, health>>
      BY <1>3, HealthJobKinds DEF WatchRead, Begin, Silent
    <2> HIDE DEF j
    <2> QED BY <1>0, <1>1, <1>2, <2>1 DEF health
  <1>4. CASE TimeoutRead(t)
    <2> DEFINE j == [pc |-> "timeout", left |-> StaleOta]
    <2>1. j \in HealthJobs /\ j.pc = "timeout" /\ job' = [job EXCEPT ![t] = j] /\ UNCHANGED <<now, health>>
      BY <1>0, <1>4, HealthJobKinds DEF TimeoutRead, Begin, StaleOta
    <2> HIDE DEF j
    <2> QED BY <1>0, <1>1, <1>2, <2>1 DEF health
  <1>5. ASSUME NEW batch \in SUBSET Updatable, NEW all \in BOOLEAN, OtaRead(t, batch, all)
        PROVE  HealthInv'
    <2> DEFINE j == [pc |-> "ota", left |-> batch, ver |-> release]
    <2>1. j \in HealthJobs /\ j.pc = "ota" /\ job' = [job EXCEPT ![t] = j] /\ UNCHANGED <<now, health>>
      BY <1>0, <1>5, HealthJobKinds DEF OtaRead, Arrive
    <2> HIDE DEF j
    <2> QED BY <1>0, <1>1, <1>2, <2>1 DEF health
  \* A batch of which one unit was served.
  <1> DEFINE Rest(u) == IF job[t].left = {u} THEN Idle ELSE [job[t] EXCEPT !.left = job[t].left \ {u}]
  <1>6. ASSUME NEW u, job[t].pc \in {"watch", "send"}
        PROVE  Rest(u) \in HealthJobs /\ Rest(u).pc # "confirm"
    BY <1>0, <1>6, BatchShrinks, HealthIdle
  <1>7. CASE WatchWrite(t)
    <2>1. PICK u \in job[t].left :
            /\ row' = [row EXCEPT ![u].online = FALSE]
            /\ job' = [job EXCEPT ![t] = Rest(u)] /\ now' = now
      BY <1>7 DEF WatchWrite, GoTo
    <2>2. job[t].pc = "watch" /\ u \in Units
      BY <1>0, <1>7, HealthJobKinds DEF WatchWrite, At
    <2>3. Rest(u) \in HealthJobs /\ Rest(u).pc # "confirm"
      BY <1>6, <2>2
    <2> HIDE DEF Rest
    <2> DEFINE new == [row[u] EXCEPT !.online = FALSE]
    <2>4. new \in Row /\ new.ver = row[u].ver /\ new.ota = row[u].ota
      BY <1>0, <2>2 DEF Row
    <2>5. row' = [row EXCEPT ![u] = new]
      BY <2>1
    <2> HIDE DEF new
    <2>6. /\ row' \in [Units -> Row]
          /\ \A v \in Updatable : row'[v].ver = row[v].ver /\ row'[v].ota = row[v].ota
      BY <1>0, <2>4, <2>5
    <2> QED BY <1>1, <1>2, <1>7, <2>1, <2>3, <2>6 DEF WatchWrite
  <1>8. CASE OtaSend(t)
    <2>1. PICK u \in job[t].left :
            /\ told' = [told EXCEPT ![u] = @ \cup {job[t].ver}] \/ told' = told
            /\ job' = [job EXCEPT ![t] = Rest(u)] /\ now' = now
      BY <1>8 DEF OtaSend, GoTo
    <2>2. job[t].pc = "send" /\ job[t].ver \in Versions
      BY <1>0, <1>8, HealthJobKinds DEF OtaSend, At
    <2>3. Rest(u) \in HealthJobs /\ Rest(u).pc # "confirm"
      BY <1>6, <2>2
    <2> HIDE DEF Rest
    <2>4. told' \in [Units -> SUBSET Versions]
      BY <1>2, <2>1, <2>2
    <2> QED BY <1>0, <1>1, <1>8, <2>1, <2>3, <2>4 DEF OtaSend
  <1>9. CASE TimeoutWrite(t)
    <2>1. /\ row' = [u \in Units |-> IF u \in job[t].left
                                     THEN [row[u] EXCEPT !.ota = "failed"] ELSE row[u]]
          /\ job' = [job EXCEPT ![t] = Idle] /\ now' = now
          /\ UNCHANGED <<alive, running, told, release, heard, overtaken>>
      BY <1>9 DEF TimeoutWrite, Finish, GoTo
    <2>2. ASSUME NEW u \in Units
          PROVE  /\ row'[u] \in Row /\ row'[u].ver = row[u].ver
                 /\ row'[u].ota = "success" => row[u].ota = "success"
      <3> DEFINE new == [row[u] EXCEPT !.ota = "failed"]
      <3>1. row[u] \in Row /\ new \in Row /\ new.ver = row[u].ver /\ new.ota = "failed"
        BY <1>0 DEF Row
      <3>2. row'[u] = new \/ row'[u] = row[u]
        BY <2>1
      <3> HIDE DEF new
      <3> QED BY <3>1, <3>2
    <2>3. row' \in [Units -> Row]
      BY <2>1, <2>2
    <2> QED BY <1>0, <1>1, <1>2, <2>1, <2>2, <2>3, HealthIdle
  <1> QED BY <1>3, <1>4, <1>5, <1>7, <1>8, <1>9

\* An order: what was heard before it counts no more, and a confirmation
\* under way is overtaken.
LEMMA OtaWriteKeeps ==
  ASSUME HealthInv, NEW t \in Threads, OtaWrite(t)
  PROVE  HealthInv'
  <1> DEFINE confirming == {job[x].unit : x \in {y \in Threads : At(y, "confirm")}}
             L == job[t].left
             j == [job[t] EXCEPT !.pc = "send"]
  <1>0. /\ HealthTyped /\ job \in [Threads -> HealthJobs] /\ job[t] \in HealthJobs
        /\ row \in [Units -> Row] /\ Updatable \subseteq Units /\ job[t].pc = "ota"
        /\ heard \in [Units -> SUBSET Versions] /\ overtaken \subseteq Updatable
        /\ now \in 0..MaxTime
    BY HealthConstants DEF HealthInv, HealthTyped, HealthTypeOK, OtaWrite, At
  <1>1. /\ row' = [u \in Units |-> IF u \in L
               THEN [row[u] EXCEPT !.ota = "in_progress", !.ver = job[t].ver, !.at = now]
               ELSE row[u]]
        /\ heard' = [u \in Units |-> IF u \in L THEN {} ELSE heard[u]]
        /\ overtaken' = (overtaken \ L) \cup (L \cap confirming)
        /\ job' = [job EXCEPT ![t] = j] /\ now' = now
        /\ UNCHANGED <<alive, running, told, release>>
    BY DEF OtaWrite, GoTo
  <1>2. j \in HealthJobs /\ j.pc = "send" /\ L \in SUBSET Updatable /\ job[t].ver \in Versions
    BY <1>0, HealthJobKinds
  <1>3. \A x \in Threads, u \in Updatable : Confirming(x, u) => u \in confirming
    BY DEF Confirming
  <1> HIDE DEF j, confirming
  <1>4. /\ job' \in [Threads -> HealthJobs]
        /\ \A x \in Threads, u \in Updatable : Confirming(x, u)' => Confirming(x, u)
    BY <1>0, <1>1, <1>2, ConfirmsLess
  <1>5. ASSUME NEW u \in Units
        PROVE  /\ row'[u] \in Row
               /\ u \notin L => row'[u] = row[u] /\ heard'[u] = heard[u]
               /\ u \in L => row'[u].ota = "in_progress"
    <2> DEFINE new == [row[u] EXCEPT !.ota = "in_progress", !.ver = job[t].ver, !.at = now]
    <2>1. new \in Row /\ new.ota = "in_progress" /\ row[u] \in Row
      BY <1>0, <1>2 DEF Row
    <2>2. row'[u] = IF u \in L THEN new ELSE row[u]
      BY <1>1
    <2> HIDE DEF new
    <2> QED BY <1>1, <2>1, <2>2
  <1>6. row' \in [Units -> Row] /\ heard' \in [Units -> SUBSET Versions] /\ overtaken' \subseteq Updatable
    BY <1>0, <1>1, <1>2, <1>5
  <1>7. HealthTyped'
    BY <1>1, <1>4, <1>6 DEF HealthInv, HealthTyped, HealthTypeOK
  <1>8. ConfirmedHeard'
    <2> SUFFICES ASSUME NEW x \in Threads, NEW u \in Updatable \ overtaken', Confirming(x, u)'
                 PROVE  row'[u].ver \in heard'[u]
      BY DEF ConfirmedHeard
    <2>1. Confirming(x, u) /\ u \notin L /\ u \notin overtaken
      BY <1>1, <1>3, <1>4
    <2> QED BY <1>0, <1>5, <2>1 DEF HealthInv, ConfirmedHeard
  <1>9. SuccessWasHeard'
    <2> SUFFICES ASSUME NEW u \in Updatable \ overtaken', row'[u].ota = "success"
                 PROVE  row'[u].ver \in heard'[u]
      BY DEF SuccessWasHeard
    <2>1. u \notin L /\ u \notin overtaken
      BY <1>0, <1>1, <1>5
    <2> QED BY <1>0, <1>5, <2>1 DEF HealthInv, SuccessWasHeard
  <1> QED BY <1>7, <1>8, <1>9 DEF HealthInv

\* What happens to the units themselves, to the clock and to the releases.
LEMMA WorldKeeps ==
  ASSUME HealthInv,
         \/ HealthTick \/ Publish
         \/ \E u \in Units : Fail(u) \/ Recover(u)
         \/ \E u \in Updatable : Install(u)
  PROVE  HealthInv'
  <1>0. Updatable \subseteq Units /\ Releases \in Nat
    BY HealthConstants
  <1>1. job' = job /\ UNCHANGED <<row, heard, overtaken>>
    BY DEF HealthTick, Pass, Publish, Fail, Recover, Install, Serve, health, control
  <1>2. HealthTyped'
    <2>1. CASE HealthTick
      BY <1>1, <2>1, HealthConstants DEF HealthTick, Pass, health, HealthInv, HealthTyped, HealthTypeOK
    <2>2. CASE Publish
      BY <1>0, <1>1, <2>2 DEF Publish, control, HealthInv, HealthTyped, HealthTypeOK, Versions
    <2>3. ASSUME NEW u \in Units, Fail(u) \/ Recover(u) PROVE HealthTyped'
      BY <1>1, <2>3 DEF Fail, Recover, Serve, HealthInv, HealthTyped, HealthTypeOK
    <2>4. ASSUME NEW u \in Updatable, Install(u) PROVE HealthTyped'
      BY <1>0, <1>1, <2>4 DEF Install, control, HealthInv, HealthTyped, HealthTypeOK
    <2> QED BY <2>1, <2>2, <2>3, <2>4
  <1> QED BY <1>1, <1>2, HealthKept DEF Confirming, At

LEMMA HealthInitHolds == HealthInit => HealthInv
  <1> SUFFICES ASSUME HealthInit PROVE HealthInv
    OBVIOUS
  <1> DEFINE new == [online |-> TRUE, seen |-> 0, fw |-> 0, ota |-> "none", ver |-> 0, at |-> 0]
  <1>1. new \in Row /\ new.ota = "none"
    BY HealthConstants DEF Row
  <1>2. \A u \in Units : row[u] = new
    BY DEF HealthInit
  <1>3. HealthTyped
    BY <1>1, HealthConstants, HealthIdle
    DEF HealthInit, ControlInit, HealthTyped, HealthTypeOK
  <1>4. ConfirmedHeard
    BY HealthIdle DEF HealthInit, ControlInit, ConfirmedHeard, Confirming, At
  <1> HIDE DEF new
  <1>5. SuccessWasHeard
    BY <1>1, <1>2, HealthConstants DEF SuccessWasHeard
  <1> QED BY <1>3, <1>4, <1>5 DEF HealthInv

LEMMA HealthStepHolds == HealthInv /\ [HealthNext]_healthVars => HealthInv'
  <1> SUFFICES ASSUME HealthInv, [HealthNext]_healthVars PROVE HealthInv'
    OBVIOUS
  <1>1. ASSUME NEW t \in Threads, HealthStep(t) PROVE HealthInv'
    BY <1>1, ConfirmKeeps, OtaWriteKeeps, JobsKeep DEF HealthStep
  <1>2. ASSUME NEW t \in Threads,
               \/ OtaRead(t, {u \in Updatable : row[u].ota # "in_progress" /\ row[u].fw # release}, TRUE)
               \/ \E u \in Updatable : OtaRead(t, {u}, FALSE)
        PROVE  HealthInv'
    <2>1. \E batch \in SUBSET Updatable, all \in BOOLEAN : OtaRead(t, batch, all)
      BY <1>2
    <2> QED BY <2>1, JobsKeep
  <1>3. ASSUME NEW t \in Threads, WatchRead(t) \/ TimeoutRead(t) PROVE HealthInv'
    BY <1>3, JobsKeep
  <1>4. CASE UNCHANGED healthVars
    BY <1>4 DEF healthVars, health, control, HealthInv, HealthTyped, HealthTypeOK,
       ConfirmedHeard, Confirming, At, SuccessWasHeard
  <1> QED BY <1>1, <1>2, <1>3, <1>4, HeartbeatKeeps, WorldKeeps DEF HealthNext

\* An update is shown as done only if the beacon reported its version after
\* the order, unless another order overtook the confirmation: deviceHeartbeat
\* asks the row it has just written, and confirms in a second UPDATE.
THEOREM UpdatesWereHeard == HealthSpec => []SuccessWasHeard
  <1>1. HealthInv => SuccessWasHeard
    BY DEF HealthInv
  <1> QED BY <1>1, HealthInitHolds, HealthStepHolds, PTL DEF HealthSpec

----------------------------------------------------------------------------
(***************************************************************************)
(* The three parts together, each alone in its behaviours.                 *)
(***************************************************************************)
FleetKept ==
  /\ FleetInv /\ part \in {"leds", "health", "outlook"}
  /\ DispatchInv
  /\ part = "health" => HealthInv
  /\ part = "outlook" => RenewalInv

\* The tables of the parts are well typed and LED events are numbered in
\* order, whichever part runs.
THEOREM FleetTyped == FleetSpec => []FleetInv
  <1>1. FleetInit => FleetKept
    <2> SUFFICES ASSUME FleetInit PROVE FleetKept
      OBVIOUS
    <2>1. DispatchInv /\ HealthInv /\ RenewalInv /\ relinked = FALSE
      BY DispatchInit, HealthInitHolds, RenewalInit DEF FleetInit, OutlookInit
    <2> QED
      BY <2>1 DEF FleetKept, FleetInv, FleetInit, DispatchInv, HealthInv, HealthTyped,
         RenewalInv, OutlookTyped, OutlookTypeOK
  <1>2. FleetKept /\ [FleetNext]_fleet => FleetKept'
    <2> SUFFICES ASSUME FleetKept, [FleetNext]_fleet PROVE FleetKept'
      OBVIOUS
    <2>1. DispatchInv' /\ LedInv'
      <3>1. [Next]_vars
        BY DEF FleetNext, fleet
      <3> QED BY <3>1, DispatchStep DEF FleetKept, DispatchInv
    <2>2. part' = part
      BY DEF FleetNext, fleet
    <2>3. CASE part = "leds" \/ UNCHANGED fleet
      <3>1. UNCHANGED <<health, outlook>> /\ (part # "leds" => UNCHANGED <<health, outlook, control>>)
        BY <2>3 DEF FleetNext, fleet
      <3>2. HealthTypeOK' /\ OutlookTypeOK'
        BY <3>1 DEF FleetKept, FleetInv, HealthTypeOK, OutlookTypeOK, health, outlook
      <3>3. part = "health" => HealthInv'
        BY <3>1, HealthStepHolds DEF FleetKept, healthVars
      <3>4. part = "outlook" => RenewalInv'
        BY <3>1, RenewalStep DEF FleetKept, outlookVars
      <3> QED BY <2>1, <2>2, <3>2, <3>3, <3>4 DEF FleetKept, FleetInv
    <2>4. CASE part = "health" /\ ~UNCHANGED fleet
      <3>1. HealthInv' /\ UNCHANGED outlook
        BY <2>4, HealthStepHolds DEF FleetNext, FleetKept
      <3>2. OutlookTypeOK'
        BY <3>1 DEF FleetKept, FleetInv, OutlookTypeOK, outlook
      <3> QED BY <2>1, <2>2, <2>4, <3>1, <3>2 DEF FleetKept, FleetInv, HealthInv, HealthTyped
    <2>5. CASE part = "outlook" /\ ~UNCHANGED fleet
      <3>1. OutlookNext /\ RenewalInv' /\ UNCHANGED health
        BY <2>5, RenewalStep DEF FleetNext, FleetKept
      <3>2. HealthTypeOK'
        BY <3>1 DEF FleetKept, FleetInv, HealthTypeOK, health
      <3>3. relinked' \in BOOLEAN
        BY <3>1 DEF FleetKept, FleetInv, OutlookTypeOK, OutlookNext, OutlookStep, OutlookRequest,
           Connect, UseToken, Used, Subscribe, SubscribeToken, SubscribeWrite, Disconnect, Revoke,
           GetToken, RefreshWrite, DropTokens, DropSubs, RenewRead, RenewToken, RenewDrop,
           RenewPatch, RenewMissed, Hour, outlook
      <3>4. OutlookTypeOK'
        BY <3>1, <3>3 DEF RenewalInv, OutlookTyped, OutlookTypeOK
      <3> QED BY <2>1, <2>2, <2>5, <3>1, <3>2, <3>4 DEF FleetKept, FleetInv
    <2> QED BY <2>3, <2>4, <2>5 DEF FleetKept
  <1>3. FleetKept => FleetInv
    BY DEF FleetKept
  <1> QED BY <1>1, <1>2, <1>3, PTL DEF FleetSpec
=============================================================================
