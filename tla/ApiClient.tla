------------------------------ MODULE ApiClient ------------------------------
(***************************************************************************)
(* The HTTP client of the web application in one tab: a call answered 401  *)
(* waits for a refresh of the session, which all such calls share, and is  *)
(* tried once more; after a failed refresh none is tried for a while.      *)
(***************************************************************************)
EXTENDS ServiceRequests

CONSTANT Cooldown      \* _REFRESH_COOLDOWN, 15 seconds

ASSUME CooldownAssumption == Cooldown \in Nat /\ Nil \notin 0..MaxTime

VARIABLES
  refreshing,   \* _refreshPromise: whether it is set
  flights,      \* refresh requests the backend has not answered
  lastFail,     \* _REFRESH_TS_KEY in sessionStorage, or Nil
  failures,     \* times at which refreshes failed since one succeeded
  fresh         \* whether the access cookie is valid

client == <<refreshing, flights, lastFail, failures, fresh>>

ClientInit ==
  /\ ControlInit
  /\ refreshing = FALSE /\ flights = 0 /\ lastFail = Nil /\ failures = <<>> /\ fresh = TRUE

\* req of a path that is not public; the answer of the backend.
Call(t) == Arrive(t, [pc |-> "first"]) /\ UNCHANGED client
Answer(t) ==
  /\ At(t, "first") \/ At(t, "second")
  /\ \/ Finish(t)
     \/ ~fresh /\ At(t, "first") /\ GoTo(t, [pc |-> "refresh"])
     \/ ~fresh /\ At(t, "second") /\ GoTo(t, [pc |-> "login"])
  /\ UNCHANGED client

\* Variant without the shared promise.
TryRefreshAlone(t) ==
  /\ At(t, "refresh")
  /\ IF lastFail # Nil /\ now - lastFail < Cooldown
     THEN GoTo(t, [pc |-> "login"]) /\ UNCHANGED client
     ELSE /\ GoTo(t, [pc |-> "await"])
          /\ refreshing' = TRUE /\ flights' = flights + 1
          /\ UNCHANGED <<lastFail, failures, fresh>>

\* tryRefresh: joins the refresh under way, gives up within the cooldown, or
\* asks the backend.
TryRefresh(t) ==
  /\ At(t, "refresh")
  /\ \/ refreshing /\ GoTo(t, [pc |-> "await"]) /\ UNCHANGED client
     \/ /\ ~refreshing /\ lastFail # Nil /\ now - lastFail < Cooldown
        /\ GoTo(t, [pc |-> "login"])
        /\ UNCHANGED client
     \/ /\ ~refreshing /\ (lastFail # Nil => now - lastFail >= Cooldown)
        /\ GoTo(t, [pc |-> "await"])
        /\ refreshing' = TRUE /\ flights' = flights + 1
        /\ UNCHANGED <<lastFail, failures, fresh>>

\* The backend answers a refresh, or the network does not; every call that
\* shares the promise goes on.
Waiting(next) ==
  job' = [t \in Threads |-> IF At(t, "await") THEN [pc |-> next] ELSE job[t]]
RefreshOk ==
  /\ flights > 0
  /\ flights' = flights - 1 /\ refreshing' = FALSE /\ fresh' = TRUE
  /\ lastFail' = Nil /\ failures' = <<>>
  /\ Waiting("second")
  /\ UNCHANGED <<now, requests>>
RefreshFails ==
  /\ flights > 0
  /\ flights' = flights - 1 /\ refreshing' = FALSE
  /\ lastFail' = now /\ failures' = Append(failures, now)
  /\ Waiting("login")
  /\ UNCHANGED <<fresh, now, requests>>
\* The client forgets the impersonation and goes to the login page.
ToLogin(t) == At(t, "login") /\ Finish(t) /\ UNCHANGED client

\* The access cookie runs out; the user logs in again.
TokenExpires == fresh /\ fresh' = FALSE /\ UNCHANGED <<refreshing, flights, lastFail, failures, control>>
Login ==
  /\ ~fresh /\ Serve /\ fresh' = TRUE
  /\ UNCHANGED <<refreshing, flights, lastFail, failures>>

\* Time passes under a request too.
ClientTick ==
  /\ now < MaxTime /\ now' = now + 1
  /\ UNCHANGED <<client, job, requests>>

ClientStep(t) == Answer(t) \/ TryRefresh(t) \/ ToLogin(t)
ClientNext ==
  \/ \E t \in Threads : Call(t) \/ ClientStep(t)
  \/ RefreshOk \/ RefreshFails \/ TokenExpires \/ Login \/ ClientTick
ClientSpec == ClientInit /\ [][ClientNext]_<<client, control>>

----------------------------------------------------------------------------
ClientTypeOK ==
  /\ refreshing \in BOOLEAN /\ flights \in Nat /\ fresh \in BOOLEAN
  /\ lastFail \in 0..MaxTime \cup {Nil} /\ failures \in Seq(0..MaxTime)

\* However many calls are refused at once, refreshes that fail are at least
\* a cooldown apart as long as none succeeds.
FailuresAreSpaced ==
  \A i, j \in 1..Len(failures) : i < j => failures[j] - failures[i] >= Cooldown
=============================================================================
