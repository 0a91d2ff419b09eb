------------------------------ MODULE Accounts ------------------------------
(***************************************************************************)
(* The accounts of an organization: sessions, registration, deactivation   *)
(* and clean-up together, over one table of users.                         *)
(***************************************************************************)
EXTENDS AuthSessions, AccountLifecycle

Init ==
  /\ users = [u \in Uids |-> IF u = Admin THEN
       [email |-> AdminEmail, isActive |-> TRUE, deleted |-> FALSE,
        purgeAt |-> None, verify |-> FALSE, createdAt |-> 0, kiosk |-> FALSE,
        sso |-> FALSE, history |-> FALSE, origin |-> None, edits |-> {}]
       ELSE None]
  /\ sessions = {} /\ signed = <<>> /\ lines = 0 /\ revoked = {}
  /\ invites = [i \in Invites |-> None]
  /\ jar = [b \in Browsers |-> None] /\ cut = {}
  /\ job = [t \in Threads |-> Idle]
  /\ now = 0 /\ requests = 0

\* A day passes; no request takes that long.
Tick ==
  /\ now < MaxTime /\ \A t \in Threads : IsFree(t)
  /\ now' = now + 1
  /\ UNCHANGED <<store, jar, job, requests, ghosts>>

Session(t) ==
  \/ \E b \in Browsers, u \in Uids : LoginRead(t, b, u) \/ SsoRead(t, b, u)
  \/ \E b \in Browsers : RefreshRead(t, b)
  \/ \E u \in Uids : PasswordRead(t, u) \/ KioskRemoveRead(t, u)
                     \/ (\E on \in BOOLEAN : ToggleRead(t, u, on))
Account(t) ==
  \/ \E i \in Invites : RegisterRead(t, i)
  \/ \E op \in {"admin", "sso", "kiosk"}, e \in Emails, k \in BOOLEAN, b \in Browsers :
       CreateRead(t, op, e, k, b)
  \/ \E u \in Uids : HardDeleteRead(t, u) \/ OwnerDropRead(t, u)
Atomic ==
  \/ \E b \in Browsers : Logout(b)
  \/ \E u \in Uids : SoftDelete(u) \/ Restore(u) \/ UseAccount(u)
  \/ \E u \in Uids, e \in Emails \cup {None}, k, hash \in BOOLEAN :
       UpdateUser(u, e, k, hash)
  \/ \E i \in Invites, e \in Emails, k \in BOOLEAN : CreateInvitation(i, e, k)
\* The next database call of the request that thread t serves.
Step(t) ==
  \/ InsertSession(t) \/ Respond(t) \/ RefreshDelete(t)
  \/ AccountUpdate(t) \/ RevokeAll(t) \/ KioskDelete(t)
  \/ RegisterCreate(t) \/ CreateInsert(t) \/ HardDeleteErase(t)
  \/ DropUnverified(t)

Next ==
  \/ Atomic \/ Tick
  \/ \E t \in Threads : Session(t) \/ Account(t) \/ CleanupRead(t) \/ Step(t)
Spec == Init /\ [][Next]_vars

\* The server finishes what it started, the clock runs, and the job is run.
Fairness ==
  /\ \A t \in Threads : WF_vars(Step(t))
  /\ WF_vars(Tick)
  /\ SF_vars(\E t \in Threads : CleanupRead(t))
FairSpec == Spec /\ Fairness

----------------------------------------------------------------------------
TypeOK ==
  /\ users \in [Uids -> UserRow \cup {None, Gone}]
  /\ sessions \subseteq SessionRow
  /\ invites \in [Invites -> InviteRow \cup {None}]
  /\ jar \in [Browsers -> Tokens \cup {None}] /\ cut \subseteq Browsers
  /\ now \in 0..MaxTime /\ requests \in 0..MaxRequests
  /\ signed \in Seq([user : Uids, at : 0..MaxTime]) /\ Len(signed) <= MaxRequests
  /\ lines \in 0..MaxRequests /\ revoked \subseteq 1..lines
  /\ job \in [Threads ->
       [op : {"idle", "login", "refresh", "password", "enable", "disable",
              "removeKiosk", "register", "admin", "sso", "kiosk", "hardDelete",
              "cleanup"},
        pc : {"idle", "insert", "respond", "delete", "update", "revoke", "create",
              "erase", "drop"},
        uid : Uids \cup {None}, br : Browsers \cup {None}, tok : Tokens \cup {0},
        line : 0..lines, ok : BOOLEAN, inv : Invites \cup {None},
        email : Emails \cup {None}, kiosk : BOOLEAN, batch : SUBSET Uids]]

Carriers(l) == {t \in Threads : At(t, "refresh", "insert") /\ job[t].line = l}
RowsOf(l) == {r \in sessions : r.line = l}

\* A login is continued by one refresh token at a time: however many tabs
\* refresh at once, the rows of a session never fork.
OneRowPerLine ==
  \A l \in 1..lines : Cardinality(RowsOf(l)) + Cardinality(Carriers(l)) <= 1

\* A session whose row was revoked (password change, kiosk switched off,
\* account deleted) does not come back through a refresh that was under way.
RevokedStaysRevoked == \A l \in revoked : RowsOf(l) = {} /\ Carriers(l) = {}

\* Two tabs of one browser that refresh together leave it signed in: its
\* cookie names a stored token unless something other than a refresh ended
\* the session, a response was lost, or two tokens were one string.
TabsShareTheSession ==
  \A b \in Browsers \ cut :
    (jar[b] # None /\ \A t \in Threads : job[t].br # b) => jar[b] \in Live

\* When a deactivated account is due for erasure none of its sessions is
\* still valid, although deactivation deletes no refresh token.  Accounts that
\* have, or may have had, the KIOSK role are left out: their sessions live as
\* long as the retention period, and the kiosk's switch lets a deactivated
\* account in again.
PurgeableHasNoSession ==
  \A u \in Uids : (Exists(u) /\ users[u].deleted /\ now >= users[u].purgeAt
                    /\ ~users[u].kiosk /\ "role" \notin users[u].edits)
    => \A r \in sessions : r.user = u => r.until < now

\* Requests that found an invitation unused, or the kiosk's role free, at the
\* same time make one account, unless an administrator changed the address or
\* the role of one of them in between: nothing but the unique index on the
\* address refuses the second.
CreatesCollapse ==
  \A u, v \in Uids : (Exists(u) /\ Exists(v) /\ u # v
                       /\ users[u].origin # None /\ users[u].origin = users[v].origin)
    => users[u].edits \cup users[v].edits # {}

\* An account nobody verified or used is gone, or active, in the end, unless it
\* has the KIOSK role, which the job leaves alone.
Abandoned(u) == Unverified(u) /\ ~users[u].history /\ ~users[u].kiosk
                /\ users[u].createdAt + VerifyDays < MaxTime
UnverifiedAccountsGo == \A u \in Uids : Abandoned(u) ~> ~Abandoned(u)

\* Logging out revokes the refresh token of the browser.
LogoutRevokes ==
  [][\A b \in Browsers : (jar[b] # None /\ jar'[b] = None)
       => \A r \in sessions' : r.id # jar[b]]_vars
=============================================================================
