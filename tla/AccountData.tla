---------------------------- MODULE AccountData ----------------------------
(***************************************************************************)
(* The tables behind signing in: users, refresh tokens and invitations,    *)
(* with the cookie each browser holds and the local state of the requests  *)
(* in flight.  A request is split at the awaits where another request can  *)
(* run; one time unit is a day.                                            *)
(***************************************************************************)
EXTENDS Naturals, Sequences, FiniteSets

CONSTANTS
  Uids, Browsers, Invites, Threads,
  Emails, KioskEmail,    \* addresses; the kiosk's is built from the slug
  Admin, AdminEmail,     \* the account every organization starts with
  None, Gone,            \* never written; deleted
  SessionDays,           \* lifetime of a refresh token
  KioskDays,             \* and of one of an account with the KIOSK role
  VerifyDays,            \* time an account may stay unverified
  InviteDays,            \* lifetime of an invitation
  RetentionDays,         \* delay between deactivation and erasure
  MaxTime, MaxRequests

ASSUME AccountAssumption ==
  /\ {None, Gone} \cap (Uids \cup Browsers \cup Invites \cup Emails) = {}
  /\ None # Gone /\ Admin \in Uids /\ {KioskEmail, AdminEmail} \subseteq Emails
  /\ KioskEmail # AdminEmail /\ KioskEmail \notin Invites
  /\ {SessionDays, KioskDays, VerifyDays, InviteDays, RetentionDays} \subseteq Nat
  /\ {MaxTime, MaxRequests} \subseteq Nat
  /\ SessionDays < RetentionDays /\ KioskDays <= RetentionDays
  /\ InviteDays <= RetentionDays

VARIABLES
  users,      \* user rows
  sessions,   \* refresh token rows
  invites,    \* invitation rows
  jar,        \* the refresh_token cookie of each browser
  job,        \* the request each thread is serving
  now, requests,
  signed,     \* the JWTs signed so far: whose, and on which day
  lines,      \* number of logins so far, each the head of a line of tokens
  revoked,    \* lines whose row a revocation deleted
  cut         \* browsers whose session something other than a refresh ended

store == <<users, sessions, invites>>
ghosts == <<signed, lines, revoked, cut>>
vars == <<users, sessions, invites, jar, job, now, requests, signed, lines,
          revoked, cut>>

Times == 0..(MaxTime + RetentionDays)
Tokens == 1..MaxRequests
UserRow ==
  [email : Emails \cup {None}, isActive : BOOLEAN, deleted : BOOLEAN,
   purgeAt : Times \cup {None}, verify : BOOLEAN, createdAt : Times,
   kiosk : BOOLEAN,       \* the role, as far as it is KIOSK or another
   sso : BOOLEAN, history : BOOLEAN,
   \* ghosts: what made the row, and what an administrator changed in it
   origin : Invites \cup {KioskEmail, None}, edits : SUBSET {"email", "role"}]
SessionRow == [id : Tokens, user : Uids, until : Times, line : 1..MaxRequests]
InviteRow == [email : Emails, kiosk : BOOLEAN, until : Times, used : BOOLEAN]

\* A row that was never written, or is deleted, is no row, and NULL no date.
ASSUME RowAssumption ==
  /\ None \notin InviteRow /\ None \notin UserRow /\ Gone \notin UserRow
  /\ None \notin Times

Idle == [op |-> "idle", pc |-> "idle", uid |-> None, br |-> None, tok |-> 0,
         line |-> 0, ok |-> FALSE, inv |-> None, email |-> None,
         kiosk |-> FALSE, batch |-> {}]

----------------------------------------------------------------------------
Exists(u) == users[u] \notin {None, Gone}
Taken(e) == \E u \in Uids : Exists(u) /\ users[u].email = e
IsKiosk(u) == Exists(u) /\ users[u].kiosk
IsFree(t) == job[t] = Idle
Live == {r.id : r \in sessions}

\* A request arrives at thread t and waits at step pc.
Start(t, rec) ==
  /\ IsFree(t)
  /\ requests < MaxRequests
  /\ requests' = requests + 1
  /\ job' = [job EXCEPT ![t] = rec]
\* A request that one step serves.
Serve ==
  /\ requests < MaxRequests
  /\ requests' = requests + 1
  /\ UNCHANGED job
At(t, op, pc) == job[t].op = op /\ job[t].pc = pc
GoTo(t, pc) == job' = [job EXCEPT ![t].pc = pc] /\ UNCHANGED requests
Finish(t) == job' = [job EXCEPT ![t] = Idle] /\ UNCHANGED requests

\* The row that a request to make an account inserts, with the role it is given.
NewRow(j) ==
  [email |-> j.email, isActive |-> j.op # "register", deleted |-> FALSE,
   purgeAt |-> None, verify |-> j.op = "register", createdAt |-> now,
   kiosk |-> j.kiosk, sso |-> j.op = "sso", history |-> FALSE,
   origin |-> CASE j.op = "register" -> j.inv
                [] j.op = "kiosk" -> KioskEmail
                [] OTHER -> None,
   edits |-> {}]

\* INSERT of a user under a new id: the unique index on email refuses a
\* second row.  Ids are generated, so any unused one will do.  No id left ends
\* the request too: Uids is a bound of the model.
Refused(e) == Taken(e) \/ \A u \in Uids : users[u] # None
NextId == CHOOSE u \in Uids : users[u] = None
\* Variant without the unique index.
InsertUserAnyway(u, row) ==
  /\ users[u] = None
  /\ users' = [users EXCEPT ![u] = row]

InsertUser(u, row) ==
  /\ users[u] = None /\ ~Taken(row.email) /\ u = NextId
  /\ users' = [users EXCEPT ![u] = row]

Holders(tk) == {b \in Browsers : jar[b] = tk}

\* DELETE of refresh tokens; the browsers that hold them are cut off.
Revoke(gone) ==
  /\ sessions' = sessions \ gone
  /\ revoked' = revoked \cup {r.line : r \in gone}
  /\ cut' = cut \cup UNION {Holders(r.id) : r \in gone}

\* DELETE of a user: its refresh tokens cascade, its reservations forbid it.
CanDelete(u) == Exists(u) /\ ~users[u].history
DeleteUser(u) ==
  /\ users' = [users EXCEPT ![u] = Gone]
  /\ Revoke({r \in sessions : r.user = u})
=============================================================================
