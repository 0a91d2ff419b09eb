---------------------------- MODULE OutlookTokens ----------------------------
(***************************************************************************)
(* The Microsoft account of a user: its tokens, refreshed when they are    *)
(* used, and the subscriptions that make Outlook report changes, renewed   *)
(* by a daily job.  Time is kept as what is left of a subscription and the *)
(* part of the day, so that it can go on for ever.                         *)
(***************************************************************************)
EXTENDS ServiceRequests

CONSTANTS
  Accounts,      \* Microsoft accounts the user may connect
  SubIds,        \* subscriptions the user may have at a time, a bound
  Ttl,           \* SUB_TTL_HOURS, 70 hours
  Threshold,     \* a subscription with less left is renewed, 48 hours
  Period         \* the job runs once in it, 24 hours

ASSUME OutlookAssumption ==
  /\ Nil \notin Accounts /\ {Ttl, Threshold, Period} \subseteq Nat \ {0}
  /\ 2 * Period <= Threshold /\ Threshold <= Ttl

VARIABLES
  token,      \* GraphToken row: the account its tokens are of
  subs,       \* GraphSubscription rows
  phase,      \* time since the job was last due
  ran,        \* whether it ran, or was missed, today
  linked,     \* the account connected last
  relinked    \* it was connected while older tokens were being refreshed

outlook == <<token, subs, phase, ran, linked, relinked>>

SubRow == [left : 0..Ttl, lapsed : BOOLEAN, fails : 0..2]
NewSub == [left |-> Ttl, lapsed |-> FALSE, fails |-> 0]
Failed(s) == [s EXCEPT !.fails = IF @ = 2 THEN 2 ELSE @ + 1]

OutlookInit ==
  /\ ControlInit
  /\ token = Nil /\ subs = [s \in SubIds |-> Nil] /\ phase = 0 /\ ran = TRUE
  /\ linked = Nil /\ relinked = FALSE

Stored == {s \in SubIds : subs[s] # Nil}

\* Rows that a run of the job still has to see, whether or not its job is
\* waiting for a token; their ids are not used again before.
Rows(j) == IF j.pc \in {"renew", "patch", "drop"} THEN j.left ELSE {}
Held(j) == IF j.pc = "refresh" THEN Rows(j.ok) ELSE Rows(j)
Unused(s) == subs[s] = Nil /\ \A t \in Threads : s \notin Held(job[t])
NewId == CHOOSE s \in SubIds : Unused(s)

----------------------------------------------------------------------------
\* getAccessToken: a token that is still valid, none, or one that Microsoft
\* is asked to refresh; the caller goes on at ok or, with null, at null.
\* How long a token lives is Microsoft's choice.
GetToken(t, ok, null) ==
  /\ \/ token # Nil /\ GoTo(t, ok)
     \/ token # Nil /\ GoTo(t, [pc |-> "refresh", account |-> token, ok |-> ok, null |-> null])
     \/ GoTo(t, null)
  /\ UNCHANGED outlook

\* Variant that writes the row whether or not it is still there.
RefreshWriteUpsert(t) ==
  /\ At(t, "refresh")
  /\ \/ token' = job[t].account /\ GoTo(t, job[t].ok)
     \/ UNCHANGED token /\ GoTo(t, job[t].null)
  /\ UNCHANGED <<subs, phase, ran, linked, relinked>>

\* Microsoft is asked between the read and the UPDATE, which throws when the
\* row is gone.  No configuration, a refusal, a timeout and an exception all
\* end in null.
RefreshWrite(t) ==
  /\ At(t, "refresh")
  /\ \/ token # Nil /\ token' = job[t].account /\ GoTo(t, job[t].ok)
     \/ UNCHANGED token /\ GoTo(t, job[t].null)
  /\ UNCHANGED <<subs, phase, ran, linked, relinked>>

----------------------------------------------------------------------------
\* saveTokens at the end of the OAuth dialogue, which then subscribes.
Connect(t, a) ==
  /\ Arrive(t, [pc |-> "subscribe"])
  /\ token' = a /\ linked' = a
  /\ relinked' = \E x \in Threads : At(x, "refresh")
  /\ UNCHANGED <<subs, phase, ran>>

\* A request that needs a token and changes nothing else here.
UseToken(t) == Arrive(t, [pc |-> "use"]) /\ UNCHANGED outlook
Used(t) == At(t, "use") /\ GetToken(t, Idle, Idle)

\* createSubscription: Microsoft creates one more, and its row is written.
Subscribe(t) == Arrive(t, [pc |-> "subscribe"]) /\ UNCHANGED outlook
SubscribeToken(t) == At(t, "subscribe") /\ GetToken(t, [pc |-> "create"], Idle)
SubscribeWrite(t) ==
  /\ At(t, "create")
  /\ \/ (\E s \in SubIds : Unused(s)) /\ subs' = [subs EXCEPT ![NewId] = NewSub]
     \/ UNCHANGED subs
  /\ Finish(t)
  /\ UNCHANGED <<token, phase, ran, linked, relinked>>

\* disconnectUser: Microsoft is told of each subscription, which takes a
\* token, then the tokens are deleted, then the rows of the subscriptions.
Revoking(rows) == IF rows = {} THEN [pc |-> "dropTokens"] ELSE [pc |-> "revoke", left |-> rows]
Disconnect(t) == Arrive(t, Revoking(Stored)) /\ UNCHANGED outlook
Revoke(t) ==
  /\ At(t, "revoke")
  /\ \E s \in job[t].left :
       LET next == Revoking(job[t].left \ {s}) IN GetToken(t, next, next)
DropTokens(t) ==
  /\ At(t, "dropTokens")
  /\ token' = Nil /\ linked' = Nil
  /\ GoTo(t, [pc |-> "dropSubs"])
  /\ UNCHANGED <<subs, phase, ran, relinked>>
DropSubs(t) ==
  /\ At(t, "dropSubs")
  /\ subs' = [s \in SubIds |-> Nil]
  /\ Finish(t)
  /\ UNCHANGED <<token, phase, ran, linked, relinked>>

----------------------------------------------------------------------------
\* Variant that waits until the last day.
DueLate == {s \in Stored : subs[s].left < Period}

\* renewExpiringSubscriptions: the rows one run reads.
Due == {s \in Stored : subs[s].left < Threshold}

RenewRead(t) ==
  /\ phase = 0 /\ ~ran
  /\ IF Due # {} THEN Begin(t, [pc |-> "renew", left |-> Due])
                 ELSE IsFree(t) /\ UNCHANGED control
  /\ ran' = TRUE
  /\ UNCHANGED <<token, subs, phase, linked, relinked>>

\* One row after the other, each with a token of its own.
RenewToken(t) ==
  /\ At(t, "renew")
  /\ \E s \in job[t].left :
       GetToken(t, [pc |-> "patch", row |-> s, left |-> job[t].left],
                   [pc |-> "drop", row |-> s, left |-> job[t].left])
NextRow(t) ==
  LET rest == job[t].left \ {job[t].row}
  IN GoTo(t, IF rest = {} THEN Idle ELSE [pc |-> "renew", left |-> rest])

\* Variant that keeps the row of a user without tokens.
RenewDropKeep(t) == At(t, "drop") /\ NextRow(t) /\ UNCHANGED outlook

\* Without a token, for whatever reason, the row is deleted.
RenewDrop(t) ==
  /\ At(t, "drop")
  /\ subs' = [subs EXCEPT ![job[t].row] = Nil]
  /\ NextRow(t)
  /\ UNCHANGED <<token, phase, ran, linked, relinked>>
\* Microsoft accepts the PATCH and the row, if it is still there, is written,
\* or the PATCH fails (or the backend stops before it).
RenewPatch(t) ==
  /\ At(t, "patch")
  /\ LET s == job[t].row IN
     IF subs[s] = Nil THEN UNCHANGED subs
     ELSE \E new \in {NewSub, Failed(subs[s])} : subs' = [subs EXCEPT ![s] = new]
  /\ NextRow(t)
  /\ UNCHANGED <<token, phase, ran, linked, relinked>>
\* The backend is down when the job is due.
RenewMissed ==
  /\ phase = 0 /\ ~ran /\ Quiet
  /\ ran' = TRUE
  /\ subs' = [s \in SubIds |-> IF s \in Due THEN Failed(subs[s]) ELSE subs[s]]
  /\ UNCHANGED <<token, phase, linked, relinked, control>>

Aged(row) == IF row = Nil THEN Nil
             ELSE IF row.left = 0 THEN [row EXCEPT !.lapsed = TRUE]
             ELSE [row EXCEPT !.left = @ - 1]
Hour ==
  /\ Quiet /\ (phase = 0 => ran)
  /\ phase' = (phase + 1) % Period
  /\ ran' = FALSE
  /\ subs' = [s \in SubIds |-> Aged(subs[s])]
  /\ UNCHANGED <<token, linked, relinked, control>>

OutlookStep(t) ==
  \/ Used(t) \/ RefreshWrite(t) \/ SubscribeToken(t) \/ SubscribeWrite(t)
  \/ Revoke(t) \/ DropTokens(t) \/ DropSubs(t)
  \/ RenewToken(t) \/ RenewDrop(t) \/ RenewPatch(t)
OutlookRequest(t) ==
  UseToken(t) \/ Subscribe(t) \/ Disconnect(t) \/ \E a \in Accounts : Connect(t, a)
OutlookNext ==
  \/ \E t \in Threads : OutlookStep(t) \/ OutlookRequest(t) \/ RenewRead(t)
  \/ RenewMissed \/ Hour
outlookVars == <<outlook, control>>
OutlookSpec == OutlookInit /\ [][OutlookNext]_outlookVars

\* Requests end, time passes, and the job is not missed for ever.
OutlookFairness ==
  /\ \A t \in Threads : WF_outlookVars(OutlookStep(t))
  /\ WF_outlookVars(Hour)
  /\ SF_outlookVars(\E t \in Threads : RenewRead(t))
OutlookFairSpec == OutlookSpec /\ OutlookFairness

----------------------------------------------------------------------------
OutlookTypeOK ==
  /\ token \in Accounts \cup {Nil} /\ subs \in [SubIds -> SubRow \cup {Nil}]
  /\ phase \in 0..(Period - 1) /\ ran \in BOOLEAN
  /\ linked \in Accounts \cup {Nil} /\ relinked \in BOOLEAN

\* A subscription whose row is kept lapses only when its renewal was refused,
\* or the job was missed, on two days running.  (A token that cannot be had
\* on one day is worse: the job then deletes the row.)
LapseNeedsTwoFailures ==
  \A s \in Stored : subs[s].lapsed => subs[s].fails = 2

\* No refresh under way brings back the tokens of a user who disconnected,
\* nor those of another account unless that one was just being connected.
TokensAreWanted == token # Nil => linked # Nil /\ (token = linked \/ relinked)

\* The subscriptions of a user without tokens do not stay, even those created
\* beside the disconnection.
Orphaned == Stored # {} /\ token = Nil
OrphansGo == Orphaned ~> ~Orphaned
=============================================================================
