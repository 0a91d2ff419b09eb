---------------------------- MODULE NfcEnrolment ----------------------------
(***************************************************************************)
(* Giving a card to a user: an administrator opens a session of a minute,  *)
(* and the next unknown card scanned anywhere goes to the session that     *)
(* waits longest.  Sessions and their timers live in memory.               *)
(***************************************************************************)
EXTENDS ServiceRequests

CONSTANTS Admins, Holders, Cards, Minute

ASSUME EnrolmentAssumption == Nil \notin Cards /\ Minute \in Nat

VARIABLES
  waiters,   \* NfcScanService.waiters, a Map in the order of insertion
  timers,    \* setTimeout calls that have not fired or been cleared
  cardOf     \* User.cardUid

enrolment == <<waiters, timers, cardOf>>

Session == [admin : Admins, user : Holders, since : 0..MaxTime]
EnrolmentInit ==
  /\ ControlInit
  /\ waiters = <<>> /\ timers = {} /\ cardOf = [u \in Holders |-> Nil]

\* Map.delete: an administrator has one entry at most.
Others(a) ==
  LET own == {i \in DOMAIN waiters : waiters[i].admin = a}
      i == CHOOSE i \in own : TRUE IN
  IF own = {} THEN waiters
  ELSE SubSeq(waiters, 1, i - 1) \o SubSeq(waiters, i + 1, Len(waiters))
TimersOf(a) == {x \in timers : x.admin = a}

\* Variant that replaces the session and leaves its timer running.
StartSessionOver(a, u) ==
  /\ Serve
  /\ waiters' = Append(Others(a), [admin |-> a, user |-> u, since |-> now])
  /\ timers' = timers \cup {[admin |-> a, due |-> now + Minute]}
  /\ UNCHANGED cardOf

\* startSession cancels the administrator's session before, with its timer.
StartSession(a, u) ==
  /\ Serve
  /\ waiters' = Append(Others(a), [admin |-> a, user |-> u, since |-> now])
  /\ timers' = (timers \ TimersOf(a)) \cup {[admin |-> a, due |-> now + Minute]}
  /\ UNCHANGED cardOf

TimeOut ==
  \E x \in timers :
    /\ x.due <= now
    /\ waiters' = Others(x.admin) /\ timers' = timers \ {x}
    /\ UNCHANGED <<cardOf, control>>

\* checkinNfc looks the card up; notifyScan of a card nobody holds resolves
\* the first session of the Map.
ScanCard(t, c) ==
  /\ \A u \in Holders : cardOf[u] # c
  /\ Arrive(t, [pc |-> "notify", card |-> c])
  /\ UNCHANGED enrolment
NotifyScan(t) ==
  /\ At(t, "notify")
  /\ IF waiters = <<>>
     THEN Finish(t) /\ UNCHANGED <<waiters, timers>>
     ELSE /\ GoTo(t, [pc |-> "updateCard", card |-> job[t].card, user |-> Head(waiters).user])
          /\ waiters' = Tail(waiters)
          /\ timers' = timers \ TimersOf(Head(waiters).admin)
  /\ UNCHANGED cardOf
\* updateCardUid; the unique index refuses a card somebody else holds by
\* now, which nobody is told.
UpdateCard(t) ==
  /\ At(t, "updateCard")
  /\ cardOf' = IF \E u \in Holders \ {job[t].user} : cardOf[u] = job[t].card
               THEN cardOf ELSE [cardOf EXCEPT ![job[t].user] = job[t].card]
  /\ Finish(t)
  /\ UNCHANGED <<waiters, timers>>
\* assignCard by hand; hardDelete takes the card away.
AssignCard(u, c) ==
  /\ c # cardOf[u] /\ Serve
  /\ c # Nil => \A v \in Holders : cardOf[v] # c
  /\ cardOf' = [cardOf EXCEPT ![u] = c]
  /\ UNCHANGED <<waiters, timers>>

EnrolmentRestart ==
  /\ waiters # <<>>
  /\ waiters' = <<>> /\ timers' = {} /\ job' = [t \in Threads |-> Idle]
  /\ UNCHANGED <<cardOf, now, requests>>

EnrolmentTick == (\A x \in timers : x.due > now) /\ Pass /\ UNCHANGED enrolment
EnrolmentNext ==
  \/ \E a \in Admins, u \in Holders : StartSession(a, u)
  \/ \E t \in Threads : NotifyScan(t) \/ UpdateCard(t) \/ \E c \in Cards : ScanCard(t, c)
  \/ \E u \in Holders, c \in Cards \cup {Nil} : AssignCard(u, c)
  \/ TimeOut \/ EnrolmentRestart \/ EnrolmentTick
EnrolmentSpec == EnrolmentInit /\ [][EnrolmentNext]_<<enrolment, control>>

----------------------------------------------------------------------------
EnrolmentTypeOK ==
  /\ waiters \in Seq(Session) /\ cardOf \in [Holders -> Cards \cup {Nil}]
  /\ \A x \in timers : x.admin \in Admins /\ x.due \in 0..(MaxTime + Minute)

\* Whatever sessions came and went before it, a session waits its full
\* minute, ended only by a scan, its administrator or a restart: the timer
\* that is to end it is its own, and each session has one.
SessionsLastTheirMinute ==
  /\ \A i \in 1..Len(waiters) :
       TimersOf(waiters[i].admin)
         = {[admin |-> waiters[i].admin, due |-> waiters[i].since + Minute]}
  /\ Cardinality(timers) = Len(waiters)
=============================================================================
