------------------------- MODULE AccountStoreProofs -------------------------
(***************************************************************************)
(* The tables of accounts, sessions and invitations, for any number of     *)
(* users, browsers, invitations, requests in flight and days: they are     *)
(* well typed, requests that race make one account, tabs that race stay    *)
(* signed in, and no session outlives the retention of its account.        *)
(***************************************************************************)
EXTENDS AccountProofs

\* A request carries what its steps will use.
JobOK(j, n) ==
  /\ j \in JobRow /\ j.tok \in Tokens \cup {0} /\ j.line \in 0..n
  /\ (j.pc \in {"insert", "respond"} \/ j.op = "refresh") => j.uid \in Uids /\ j.br \in Browsers
  /\ (j.pc = "respond" \/ j.op = "refresh") => j.tok \in Tokens
  /\ j.pc = "create" => j.email \in Emails
  /\ j.op = "register" => j.inv \in Invites
  /\ j.op = "sso" => j.br \in Browsers
  /\ j.pc \in {"insert", "respond"} => j.op \in {"login", "sso", "refresh"}
  /\ j.op = "kiosk" => j.kiosk
  /\ (j.op = "sso" /\ j.pc = "create") => ~j.kiosk

Stored == [id : Tokens, user : Uids, until : Times, line : Nat]
Signature == [user : Uids, at : 0..MaxTime]

UsersOK == users \in [Uids -> UserRow \cup {None, Gone}]
SessionsOK == sessions \subseteq Stored /\ \A r \in sessions : r.line \in 1..lines
InvitesOK == invites \in [Invites -> InviteRow \cup {None}]
JarOK == jar \in [Browsers -> Tokens \cup {None}] /\ cut \subseteq Browsers
CountsOK == now \in 0..MaxTime /\ requests \in 0..MaxRequests /\ lines \in Nat
SignedOK == signed \in Seq(Signature) /\ Len(signed) <= MaxRequests
JobsOK == job \in [Threads -> JobRow] /\ \A t \in Threads : JobOK(job[t], lines)

Shape == UsersOK /\ SessionsOK /\ InvitesOK /\ JarOK /\ CountsOK /\ SignedOK /\ JobsOK

----------------------------------------------------------------------------
LEMMA NoneAndGoneAreNeither ==
  /\ None \notin Uids /\ None \notin Browsers /\ None \notin Invites /\ None \notin Emails
  /\ Gone \notin Uids /\ None # Gone
  BY AccountAssumption

LEMMA IdleIsOK == ASSUME NEW n \in Nat PROVE JobOK(Idle, n)
  BY NoneAndGoneAreNeither DEF JobOK, Idle, JobRow, Ops, Pcs

LEMMA RowIsRow ==
  ASSUME NEW j \in JobRow
  PROVE  /\ j.op \in Ops /\ j.pc \in Pcs /\ j.uid \in Uids \cup {None}
         /\ j.br \in Browsers \cup {None} /\ j.tok \in Nat /\ j.line \in Nat
         /\ j.ok \in BOOLEAN /\ j.inv \in Invites \cup {None}
         /\ j.email \in Emails \cup {None} /\ j.kiosk \in BOOLEAN /\ j.batch \in SUBSET Uids
  BY DEF JobRow

\* A thread takes up a job, or moves its own on.
LEMMA JobSet ==
  ASSUME JobsOK, CountsOK, lines' \in Nat, lines <= lines',
         NEW t \in Threads, NEW j, JobOK(j, lines'), job' = [job EXCEPT ![t] = j]
  PROVE  JobsOK'
  <1>1. j \in JobRow
    BY DEF JobOK
  <1>2. job' \in [Threads -> JobRow]
    BY <1>1 DEF JobsOK
  <1>3. ASSUME NEW x \in Threads PROVE JobOK(job'[x], lines')
    <2>1. CASE x = t
      BY <2>1 DEF JobsOK
    <2>2. CASE x # t
      <3>1. job'[x] = job[x] /\ JobOK(job[x], lines)
        BY <2>2 DEF JobsOK
      <3>2. job[x].line \in 0..lines'
        BY <3>1 DEF JobOK, CountsOK
      <3> QED BY <3>1, <3>2 DEF JobOK
    <2> QED BY <2>1, <2>2
  <1> QED BY <1>2, <1>3 DEF JobsOK

LEMMA JobsSame ==
  ASSUME JobsOK, job' = job, lines' = lines
  PROVE  JobsOK'
  BY DEF JobsOK

LEMMA JobFinished ==
  ASSUME JobsOK, CountsOK, lines' = lines, NEW t \in Threads, job' = [job EXCEPT ![t] = Idle]
  PROVE  JobsOK'
  <1>1. JobOK(Idle, lines') /\ lines' \in Nat /\ lines <= lines'
    BY IdleIsOK DEF CountsOK
  <1> QED BY <1>1, JobSet

LEMMA JobMoved ==
  ASSUME JobsOK, CountsOK, lines' = lines, NEW t \in Threads, NEW pc \in {"revoke", "delete"},
         job' = [job EXCEPT ![t].pc = pc]
  PROVE  JobsOK'
  <1> DEFINE j == [job[t] EXCEPT !.pc = pc]
  <1>1. job[t] \in JobRow /\ JobOK(job[t], lines)
    BY DEF JobsOK
  <1>2. /\ j \in JobRow /\ j.pc = pc /\ j.op = job[t].op /\ j.uid = job[t].uid
        /\ j.br = job[t].br /\ j.tok = job[t].tok /\ j.line = job[t].line
        /\ j.inv = job[t].inv /\ j.email = job[t].email /\ j.kiosk = job[t].kiosk
    BY <1>1 DEF JobRow, Pcs
  <1>3. job' = [job EXCEPT ![t] = j]
    OBVIOUS
  <1> HIDE DEF j
  <1>4. JobOK(j, lines)
    BY <1>1, <1>2 DEF JobOK
  <1>5. lines' \in Nat /\ lines <= lines' /\ JobOK(j, lines')
    BY <1>4 DEF CountsOK
  <1> QED BY <1>3, <1>5, JobSet

----------------------------------------------------------------------------
LEMMA JobIsOK ==
  ASSUME NEW j \in JobRow, NEW n \in Nat, j.tok \in Tokens \cup {0}, j.line \in 0..n,
         (j.pc \in {"insert", "respond"} \/ j.op = "refresh") => j.uid \in Uids /\ j.br \in Browsers,
         (j.pc = "respond" \/ j.op = "refresh") => j.tok \in Tokens,
         j.pc = "create" => j.email \in Emails,
         j.op = "register" => j.inv \in Invites,
         j.op = "sso" => j.br \in Browsers,
         j.pc \in {"insert", "respond"} => j.op \in {"login", "sso", "refresh"},
         j.op = "kiosk" => j.kiosk, (j.op = "sso" /\ j.pc = "create") => ~j.kiosk
  PROVE  JobOK(j, n)
  BY DEF JobOK

\* The requests that begin.
LEMMA JobBegins ==
  ASSUME Shape, NEW t \in Threads, Session(t) \/ Account(t) \/ CleanupRead(t)
  PROVE  JobsOK' /\ UNCHANGED <<store, jar, now, ghosts>> /\ requests' \in 0..MaxRequests
  <1> DEFINE Goal == JobsOK' /\ UNCHANGED <<store, jar, now, ghosts>> /\ requests' \in 0..MaxRequests
  <1>1. ASSUME NEW j, JobOK(j, lines), Start(t, j), UNCHANGED <<store, jar, now, ghosts>>
        PROVE  Goal
    <2>1. lines' = lines
      BY <1>1 DEF ghosts
    <2>2. job' = [job EXCEPT ![t] = j] /\ requests < MaxRequests /\ requests' = requests + 1
      BY <1>1 DEF Start
    <2>3. requests' \in 0..MaxRequests
      BY <2>2, AccountAssumption DEF Shape, CountsOK
    <2>4. lines' \in Nat /\ lines <= lines'
      BY <2>1 DEF Shape, CountsOK
    <2>5. JobsOK'
      BY <1>1, <2>1, <2>2, <2>4, JobSet DEF Shape
    <2> QED BY <1>1, <2>3, <2>5
  <1> HIDE DEF Goal
  <1>2. lines \in Nat
    BY DEF Shape, CountsOK
  <1> USE DEF Ops, Pcs
  <1>3. ASSUME NEW b \in Browsers, NEW u \in Uids, LoginRead(t, b, u)
        PROVE  Goal
    <2> DEFINE j == [Idle EXCEPT !.op = "login", !.pc = "insert", !.uid = u, !.br = b,
                                 !.kiosk = IsKiosk(u)]
    <2>10. IsKiosk(u) \in BOOLEAN
      BY DEF IsKiosk
    <2>11. /\ j \in JobRow /\ j.op = "login" /\ j.pc = "insert" /\ j.uid = u /\ j.br = b
           /\ j.tok = 0 /\ j.line = 0
      BY <1>2, <2>10 DEF Idle, JobRow
    <2> HIDE DEF j
    <2>1. JobOK(j, lines)
      BY <1>2, <2>11, JobIsOK
    <2> USE DEF j
    <2> QED BY <1>3, <2>1, <1>1 DEF LoginRead
  <1>4. ASSUME NEW b \in Browsers, NEW u \in Uids, SsoRead(t, b, u)
        PROVE  Goal
    <2> DEFINE j == [Idle EXCEPT !.op = "sso", !.pc = "insert", !.uid = u, !.br = b,
                                 !.kiosk = IsKiosk(u)]
    <2>10. IsKiosk(u) \in BOOLEAN
      BY DEF IsKiosk
    <2>11. /\ j \in JobRow /\ j.op = "sso" /\ j.pc = "insert" /\ j.uid = u /\ j.br = b
           /\ j.tok = 0 /\ j.line = 0
      BY <1>2, <2>10 DEF Idle, JobRow
    <2> HIDE DEF j
    <2>1. JobOK(j, lines)
      BY <1>2, <2>11, JobIsOK
    <2> USE DEF j
    <2> QED BY <1>4, <2>1, <1>1 DEF SsoRead
  <1>5. ASSUME NEW b \in Browsers, RefreshRead(t, b)
        PROVE  Goal
    <2>1. PICK r \in sessions : Start(t,
            [Idle EXCEPT !.op = "refresh", !.pc = "delete", !.uid = r.user,
               !.br = b, !.tok = r.id, !.line = r.line,
               !.kiosk = IsKiosk(r.user), !.ok = r.until >= now /\ users[r.user].isActive])
      BY <1>5 DEF RefreshRead
    <2> DEFINE good == r.until >= now /\ users[r.user].isActive
               j == [Idle EXCEPT !.op = "refresh", !.pc = "delete", !.uid = r.user,
               !.br = b, !.tok = r.id, !.line = r.line,
               !.kiosk = IsKiosk(r.user), !.ok = good]
    <2>2. r.user \in Uids /\ r.id \in Tokens /\ r.line \in 0..lines
      BY DEF Shape, SessionsOK, Stored, CountsOK
    <2>6. r.id \in Nat /\ r.line \in Nat
      BY DEF Shape, SessionsOK, Stored, Tokens
    <2>3. good \in BOOLEAN /\ IsKiosk(r.user) \in BOOLEAN
      BY DEF IsKiosk
    <2>4. Start(t, j)
      BY <2>1
    <2> HIDE DEF good
    <2>15. /\ j \in JobRow /\ j.op = "refresh" /\ j.pc = "delete" /\ j.uid = r.user
           /\ j.br = b /\ j.tok = r.id /\ j.line = r.line
      BY <1>2, <2>2, <2>3, <2>6 DEF Idle, JobRow
    <2> HIDE DEF j
    <2>5. JobOK(j, lines)
      BY <1>2, <2>15, <2>2, JobIsOK
    <2> USE DEF j
    <2> QED BY <1>5, <2>4, <2>5, <1>1 DEF RefreshRead
  <1>6. ASSUME NEW u \in Uids, PasswordRead(t, u)
        PROVE  Goal
    <2> DEFINE j == [Idle EXCEPT !.op = "password", !.pc = "update", !.uid = u]
    <2>11. /\ j \in JobRow /\ j.op = "password" /\ j.pc = "update" /\ j.uid = u /\ j.tok = 0
           /\ j.line = 0
      BY <1>2 DEF Idle, JobRow
    <2> HIDE DEF j
    <2>1. JobOK(j, lines)
      BY <1>2, <2>11, JobIsOK
    <2> USE DEF j
    <2> QED BY <1>6, <2>1, <1>1 DEF PasswordRead
  <1>7. ASSUME NEW u \in Uids, KioskRemoveRead(t, u)
        PROVE  Goal
    <2> DEFINE j == [Idle EXCEPT !.op = "removeKiosk", !.pc = "revoke", !.uid = u]
    <2>11. /\ j \in JobRow /\ j.op = "removeKiosk" /\ j.pc = "revoke" /\ j.uid = u
           /\ j.tok = 0 /\ j.line = 0
      BY <1>2 DEF Idle, JobRow
    <2> HIDE DEF j
    <2>1. JobOK(j, lines)
      BY <1>2, <2>11, JobIsOK
    <2> USE DEF j
    <2> QED BY <1>7, <2>1, <1>1 DEF KioskRemoveRead
  <1>8. ASSUME NEW u \in Uids, NEW on \in BOOLEAN, ToggleRead(t, u, on)
        PROVE  Goal
    <2> DEFINE j == [Idle EXCEPT !.op = IF on THEN "enable" ELSE "disable",
                                 !.pc = "update", !.uid = u]
    <2>11. /\ j \in JobRow /\ j.op \in {"enable", "disable"} /\ j.pc = "update" /\ j.uid = u
           /\ j.tok = 0 /\ j.line = 0
      BY <1>2 DEF Idle, JobRow
    <2> HIDE DEF j
    <2>1. JobOK(j, lines)
      BY <1>2, <2>11, JobIsOK
    <2> USE DEF j
    <2> QED BY <1>8, <2>1, <1>1 DEF ToggleRead
  <1>9. ASSUME NEW i \in Invites, RegisterRead(t, i)
        PROVE  Goal
    <2> DEFINE j == [Idle EXCEPT !.op = "register", !.pc = "create", !.inv = i,
                                 !.email = invites[i].email, !.kiosk = invites[i].kiosk]
    <2>1. invites[i].email \in Emails /\ invites[i].kiosk \in BOOLEAN
      BY <1>9 DEF RegisterRead, Shape, InvitesOK, InviteRow
    <2>12. /\ j \in JobRow /\ j.op = "register" /\ j.pc = "create" /\ j.tok = 0
           /\ j.line = 0 /\ j.inv = i /\ j.email = invites[i].email
      BY <1>2, <2>1 DEF Idle, JobRow
    <2> HIDE DEF j
    <2>2. JobOK(j, lines)
      BY <1>2, <2>12, <2>1, JobIsOK
    <2> USE DEF j
    <2> QED BY <1>9, <2>2, <1>1 DEF RegisterRead
  <1>10. ASSUME NEW op \in {"admin", "sso", "kiosk"}, NEW e \in Emails, NEW k \in BOOLEAN,
                NEW b \in Browsers, CreateRead(t, op, e, k, b)
        PROVE  Goal
    <2> DEFINE j == [Idle EXCEPT !.op = op, !.pc = "create", !.email = e, !.kiosk = k,
                                 !.br = IF op = "sso" THEN b ELSE None]
    <2>11. /\ j \in JobRow /\ j.op = op /\ j.pc = "create"
           /\ j.br = (IF op = "sso" THEN b ELSE None) /\ j.tok = 0 /\ j.line = 0
           /\ j.email = e /\ j.kiosk = k
      BY <1>2 DEF Idle, JobRow
    <2>12. (op = "kiosk" => k) /\ (op = "sso" => ~k)
      BY <1>10 DEF CreateRead
    <2> HIDE DEF j
    <2>1. JobOK(j, lines)
      BY <1>2, <2>11, <2>12, JobIsOK
    <2> USE DEF j
    <2> QED BY <1>10, <2>1, <1>1 DEF CreateRead
  <1>11. ASSUME NEW u \in Uids, HardDeleteRead(t, u)
        PROVE  Goal
    <2> DEFINE j == [Idle EXCEPT !.op = "hardDelete", !.pc = "erase", !.uid = u]
    <2>11. /\ j \in JobRow /\ j.op = "hardDelete" /\ j.pc = "erase" /\ j.uid = u
           /\ j.tok = 0 /\ j.line = 0
      BY <1>2 DEF Idle, JobRow
    <2> HIDE DEF j
    <2>1. JobOK(j, lines)
      BY <1>2, <2>11, JobIsOK
    <2> USE DEF j
    <2> QED BY <1>11, <2>1, <1>1 DEF HardDeleteRead
  <1>12. ASSUME NEW u \in Uids, OwnerDropRead(t, u)
        PROVE  Goal
    <2> DEFINE j == [Idle EXCEPT !.op = "cleanup", !.pc = "drop", !.batch = {u}]
    <2>11. /\ j \in JobRow /\ j.op = "cleanup" /\ j.pc = "drop" /\ j.tok = 0 /\ j.line = 0
      BY <1>2 DEF Idle, JobRow
    <2> HIDE DEF j
    <2>1. JobOK(j, lines)
      BY <1>2, <2>11, JobIsOK
    <2> USE DEF j
    <2> QED BY <1>12, <2>1, <1>1 DEF OwnerDropRead
  <1>13. ASSUME CleanupRead(t)
        PROVE  Goal
    <2> DEFINE late == {u \in Uids : Stale(u)}
               j == [Idle EXCEPT !.op = "cleanup", !.pc = "drop", !.batch = late]
    <2>0. late \in SUBSET Uids /\ job' = [job EXCEPT ![t] = j]
      BY <1>13 DEF CleanupRead
    <2> HIDE DEF late
    <2>11. /\ j \in JobRow /\ j.op = "cleanup" /\ j.pc = "drop" /\ j.tok = 0 /\ j.line = 0
      BY <1>2, <2>0 DEF Idle, JobRow
    <2> HIDE DEF j
    <2>1. JobOK(j, lines)
      BY <1>2, <2>11, <2>0, JobIsOK
    <2>2. lines' = lines /\ requests' = requests /\ UNCHANGED <<store, jar, now, ghosts>>
      BY <1>13 DEF CleanupRead, ghosts
    <2>3. lines' \in Nat /\ lines <= lines'
      BY <2>2, <1>2
    <2>4. JobsOK'
      BY <2>0, <2>1, <2>2, <2>3, JobSet DEF Shape
    <2> QED BY <2>2, <2>4 DEF Goal, Shape, CountsOK
  <1>14. Goal
    BY <1>3, <1>4, <1>5, <1>6, <1>7, <1>8, <1>9, <1>10, <1>11, <1>12, <1>13
    DEF Session, Account
  <1> QED BY <1>14 DEF Goal

----------------------------------------------------------------------------
(***************************************************************************)
(* What a step does to one row of users: nothing, a deletion, an INSERT    *)
(* under a new id, or an UPDATE that keeps what the row was made with.     *)
(***************************************************************************)
Registers(t) == At(t, "register", "create")
Erases(t, u) == At(t, "hardDelete", "erase") /\ job[t].uid = u
Enables(t, u) == At(t, "enable", "update") /\ job[t].uid = u

InsertedBy(t, u) ==
  /\ users[u] = None /\ ~Taken(job[t].email) /\ job[t].pc = "create"
  /\ users'[u] = NewRow(job[t])
  /\ job[t].op = "register" => invites' = [invites EXCEPT ![job[t].inv].used = TRUE]

Edited(u) ==
  /\ Exists(u) /\ users'[u] \in UserRow
  /\ users'[u].createdAt = users[u].createdAt
  /\ users'[u].origin = users[u].origin
  /\ users[u].edits \subseteq users'[u].edits
  /\ users'[u].kiosk = users[u].kiosk \/ "role" \in users'[u].edits
  /\ \/ users'[u].email = users[u].email \/ "email" \in users'[u].edits
     \/ \E t \in Threads : Erases(t, u)
  /\ \/ /\ users'[u].deleted = users[u].deleted /\ users'[u].purgeAt = users[u].purgeAt
        /\ \/ users'[u].isActive => users[u].isActive
           \/ \E t \in Threads : Enables(t, u)
     \/ users'[u].deleted /\ users'[u].purgeAt = now + RetentionDays /\ ~users'[u].isActive
     \/ ~users'[u].deleted /\ users'[u].purgeAt = None

Removed(u) == Exists(u) /\ users'[u] = Gone

UserStep(u) ==
  \/ users'[u] = users[u] \/ Removed(u) \/ Edited(u)
  \/ \E t \in Threads : InsertedBy(t, u)

\* One row at most.
UsersStep ==
  /\ users' \in [Uids -> UserRow \cup {None, Gone}] /\ \A u \in Uids : UserStep(u)
  /\ \E u \in Uids : \A v \in Uids \ {u} : users'[v] = users[v]

LEMMA UserRowFields ==
  ASSUME NEW r \in UserRow
  PROVE  /\ r.email \in Emails \cup {None} /\ r.isActive \in BOOLEAN /\ r.deleted \in BOOLEAN
         /\ r.purgeAt \in Times \cup {None} /\ r.verify \in BOOLEAN /\ r.createdAt \in Times
         /\ r.kiosk \in BOOLEAN /\ r.sso \in BOOLEAN /\ r.history \in BOOLEAN
         /\ r.origin \in Invites \cup {KioskEmail, None}
         /\ r.edits \in SUBSET {"email", "role"}
  BY DEF UserRow

LEMMA ExistingIsRow ==
  ASSUME UsersOK, NEW u \in Uids, Exists(u)
  PROVE  users[u] \in UserRow
  BY DEF UsersOK, Exists

LEMMA TimesOK ==
  ASSUME CountsOK
  PROVE  now \in Times /\ now + RetentionDays \in Times /\ now + SessionDays \in Times
         /\ now + KioskDays \in Times /\ now + InviteDays \in Times
  BY AccountAssumption DEF CountsOK, Times

\* One row is written.
LEMMA RowWritten ==
  ASSUME UsersOK, NEW u \in Uids, NEW row \in UserRow \cup {None, Gone},
         users' = [users EXCEPT ![u] = row], UserStep(u)
  PROVE  UsersStep
  <1>1. users' \in [Uids -> UserRow \cup {None, Gone}]
    BY DEF UsersOK
  <1>2. \A v \in Uids : v # u => users'[v] = users[v]
    BY DEF UsersOK
  <1> QED BY <1>1, <1>2 DEF UsersStep, UserStep

LEMMA NoRowWritten ==
  ASSUME UsersOK, users' = users
  PROVE  UsersStep
  BY AccountAssumption DEF UsersOK, UsersStep, UserStep

LEMMA UserDeleted ==
  ASSUME UsersOK, NEW u \in Uids,
         IF CanDelete(u) THEN DeleteUser(u) ELSE UNCHANGED <<users, sessions, revoked, cut>>
  PROVE  UsersStep
  <1>1. CASE CanDelete(u)
    <2>1. users' = [users EXCEPT ![u] = Gone] /\ Exists(u)
      BY <1>1 DEF DeleteUser, CanDelete
    <2>2. Removed(u)
      BY <2>1 DEF Removed, UsersOK
    <2> QED BY <2>1, <2>2, RowWritten DEF UserStep
  <1>2. CASE ~CanDelete(u)
    BY <1>2, NoRowWritten
  <1> QED BY <1>1, <1>2

\* The row that an INSERT writes.
LEMMA NewRowIsRow ==
  ASSUME CountsOK, JobsOK, NEW t \in Threads, job[t].pc = "create"
  PROVE  NewRow(job[t]) \in UserRow /\ NewRow(job[t]).email = job[t].email
  <1> DEFINE e == job[t].email
             k == job[t].kiosk
             op == job[t].op
             origin == CASE op = "register" -> job[t].inv
                         [] op = "kiosk" -> KioskEmail
                         [] OTHER -> None
  <1>1. e \in Emails /\ k \in BOOLEAN /\ now \in Times
    BY TimesOK DEF JobsOK, JobOK, JobRow
  <1>2. origin \in Invites \cup {KioskEmail, None}
    BY DEF JobsOK, JobOK
  <1>3. NewRow(job[t]) =
          [email |-> e, isActive |-> op # "register", deleted |-> FALSE, purgeAt |-> None,
           verify |-> op = "register", createdAt |-> now, kiosk |-> k, sso |-> op = "sso",
           history |-> FALSE, origin |-> origin, edits |-> {}]
    BY DEF NewRow
  <1> HIDE DEF e, k, op, origin
  <1>4. NewRow(job[t]) \in UserRow /\ NewRow(job[t]).email = e
    BY <1>1, <1>2, <1>3 DEF UserRow
  <1> QED BY <1>4 DEF e

LEMMA UserInserted ==
  ASSUME UsersOK, CountsOK, JobsOK, NEW t \in Threads, NEW u \in Uids, job[t].pc = "create",
         InsertUser(u, NewRow(job[t])),
         job[t].op = "register" => invites' = [invites EXCEPT ![job[t].inv].used = TRUE]
  PROVE  UsersStep
  <1>1. PICK row : row = NewRow(job[t])
    OBVIOUS
  <1>2. row \in UserRow /\ row.email = job[t].email
    BY <1>1, NewRowIsRow
  <1>3. users[u] = None /\ ~Taken(job[t].email) /\ users' = [users EXCEPT ![u] = row]
    BY <1>1, <1>2 DEF InsertUser
  <1>4. InsertedBy(t, u)
    BY <1>1, <1>3 DEF InsertedBy, UsersOK
  <1> QED BY <1>2, <1>3, <1>4, RowWritten DEF UserStep

\* An UPDATE of some columns of one row.
LEMMA UserEdited ==
  ASSUME UsersOK, NEW u \in Uids, Exists(u), NEW row \in UserRow,
         users' = [users EXCEPT ![u] = row],
         row.createdAt = users[u].createdAt, row.origin = users[u].origin,
         users[u].edits \subseteq row.edits,
         row.kiosk = users[u].kiosk \/ "role" \in row.edits,
         \/ row.email = users[u].email \/ "email" \in row.edits
         \/ \E t \in Threads : Erases(t, u),
         \/ /\ row.deleted = users[u].deleted /\ row.purgeAt = users[u].purgeAt
            /\ (row.isActive => users[u].isActive) \/ \E t \in Threads : Enables(t, u)
         \/ row.deleted /\ row.purgeAt = now + RetentionDays /\ ~row.isActive
         \/ ~row.deleted /\ row.purgeAt = None
  PROVE  UsersStep
  <1>1. users'[u] = row
    BY DEF UsersOK
  <1>2. Edited(u)
    BY <1>1 DEF Edited
  <1> QED BY <1>2, RowWritten DEF UserStep

LEMMA UserUpdates ==
  ASSUME Shape, NEW u \in Uids, SoftDelete(u) \/ Restore(u) \/ UseAccount(u)
  PROVE  UsersStep
  <1> USE DEF Shape
  <1>1. Exists(u) /\ users[u] \in UserRow
    BY ExistingIsRow DEF SoftDelete, Restore, UseAccount
  <1>2. CASE SoftDelete(u)
    <2> DEFINE row == [users[u] EXCEPT !.isActive = FALSE, !.deleted = TRUE,
                                       !.purgeAt = now + RetentionDays]
    <2>1. users' = [users EXCEPT ![u] = row]
      BY <1>2 DEF SoftDelete
    <2>2. /\ row \in UserRow /\ row.deleted /\ row.purgeAt = now + RetentionDays
          /\ ~row.isActive /\ row.createdAt = users[u].createdAt
          /\ row.kiosk = users[u].kiosk /\ row.origin = users[u].origin
          /\ row.edits = users[u].edits /\ row.email = users[u].email
      BY <1>1, TimesOK DEF UserRow
    <2> HIDE DEF row
    <2> QED BY <1>1, <2>1, <2>2, UserEdited
  <1>3. CASE Restore(u)
    <2> DEFINE row == [users[u] EXCEPT !.isActive = TRUE, !.deleted = FALSE, !.purgeAt = None]
    <2>1. users' = [users EXCEPT ![u] = row]
      BY <1>3 DEF Restore
    <2>2. /\ row \in UserRow /\ ~row.deleted /\ row.purgeAt = None
          /\ row.createdAt = users[u].createdAt
          /\ row.kiosk = users[u].kiosk /\ row.origin = users[u].origin
          /\ row.edits = users[u].edits /\ row.email = users[u].email
      BY <1>1 DEF UserRow
    <2> HIDE DEF row
    <2> QED BY <1>1, <2>1, <2>2, UserEdited
  <1>4. CASE UseAccount(u)
    <2> DEFINE row == [users[u] EXCEPT !.history = TRUE]
    <2>1. users' = [users EXCEPT ![u] = row]
      BY <1>4 DEF UseAccount
    <2>2. /\ row \in UserRow /\ row.deleted = users[u].deleted
          /\ row.purgeAt = users[u].purgeAt /\ row.isActive = users[u].isActive
          /\ row.createdAt = users[u].createdAt
          /\ row.kiosk = users[u].kiosk /\ row.origin = users[u].origin
          /\ row.edits = users[u].edits /\ row.email = users[u].email
      BY <1>1 DEF UserRow
    <2> HIDE DEF row
    <2> QED BY <1>1, <2>1, <2>2, UserEdited
  <1> QED BY <1>2, <1>3, <1>4

LEMMA UserChanged ==
  ASSUME Shape, NEW u \in Uids, NEW e \in Emails \cup {None}, NEW k \in BOOLEAN,
         NEW hash \in BOOLEAN, UpdateUser(u, e, k, hash)
  PROVE  UsersStep
  <1> USE DEF Shape
  <1>1. Exists(u) /\ users[u] \in UserRow
    BY ExistingIsRow DEF UpdateUser
  <1> DEFINE sso == users[u].sso /\ ~hash
             edits == users[u].edits \cup {c \in {"email"} : e # users[u].email}
                                     \cup {c \in {"role"} : k # users[u].kiosk}
             row == [users[u] EXCEPT !.email = e, !.kiosk = k, !.sso = sso, !.edits = edits]
  <1>2. users' = [users EXCEPT ![u] = row]
    BY DEF UpdateUser
  <1>3. /\ edits \in SUBSET {"email", "role"} /\ users[u].edits \subseteq edits
        /\ e = users[u].email \/ "email" \in edits
        /\ k = users[u].kiosk \/ "role" \in edits
    BY <1>1, UserRowFields
  <1>4. sso \in BOOLEAN
    OBVIOUS
  <1> HIDE DEF sso, edits
  <1>5. /\ row \in UserRow /\ row.email = e /\ row.kiosk = k /\ row.edits = edits
        /\ row.origin = users[u].origin /\ row.createdAt = users[u].createdAt
        /\ row.deleted = users[u].deleted /\ row.purgeAt = users[u].purgeAt
        /\ row.isActive = users[u].isActive
    BY <1>1, <1>3, <1>4 DEF UserRow
  <1> HIDE DEF row
  <1> QED BY <1>1, <1>2, <1>3, <1>5, UserEdited

LEMMA JobUpdatesUser ==
  ASSUME Shape, NEW t \in Threads, AccountUpdate(t) \/ HardDeleteErase(t)
  PROVE  UsersStep
  <1> USE DEF Shape
  <1> DEFINE u == job[t].uid
  <1>1. CASE users' = users
    BY <1>1, NoRowWritten
  <1>2. CASE u \notin Uids
    <2>1. users' = users
      BY <1>2 DEF AccountUpdate, HardDeleteErase, UsersOK
    <2> QED BY <2>1, NoRowWritten
  <1>3. CASE u \in Uids /\ users' # users /\ AccountUpdate(t) /\ job[t].op = "password"
    <2> DEFINE row == [users[u] EXCEPT !.sso = FALSE]
    <2>1. Exists(u) /\ users[u] \in UserRow
      BY <1>3, ExistingIsRow DEF AccountUpdate
    <2>2. users' = [users EXCEPT ![u] = row]
      BY <1>3 DEF AccountUpdate
    <2>4. /\ row \in UserRow /\ row.deleted = users[u].deleted
          /\ row.purgeAt = users[u].purgeAt /\ row.isActive = users[u].isActive
          /\ row.createdAt = users[u].createdAt
          /\ row.kiosk = users[u].kiosk /\ row.origin = users[u].origin
          /\ row.edits = users[u].edits /\ row.email = users[u].email
      BY <2>1 DEF UserRow
    <2> HIDE DEF row
    <2> QED BY <1>3, <2>1, <2>2, <2>4, UserEdited
  <1>5. CASE u \in Uids /\ users' # users /\ AccountUpdate(t) /\ job[t].op # "password"
    <2> DEFINE on == job[t].op = "enable"
               row == [users[u] EXCEPT !.isActive = on]
    <2>1. Exists(u) /\ users[u] \in UserRow
      BY <1>5, ExistingIsRow DEF AccountUpdate
    <2>2. users' = [users EXCEPT ![u] = row]
      BY <1>5 DEF AccountUpdate
    <2>3. on \in BOOLEAN /\ (on => Enables(t, u))
      BY <1>5 DEF AccountUpdate, Enables, At
    <2> HIDE DEF on
    <2>4. /\ row \in UserRow /\ row.deleted = users[u].deleted
          /\ row.purgeAt = users[u].purgeAt /\ row.isActive = on
          /\ row.createdAt = users[u].createdAt
          /\ row.kiosk = users[u].kiosk /\ row.origin = users[u].origin
          /\ row.edits = users[u].edits /\ row.email = users[u].email
      BY <2>1, <2>3 DEF UserRow
    <2> HIDE DEF row
    <2> QED BY <1>5, <2>1, <2>2, <2>3, <2>4, UserEdited
  <1>4. CASE u \in Uids /\ users' # users /\ HardDeleteErase(t)
    <2> DEFINE row == [users[u] EXCEPT !.email = None, !.isActive = FALSE]
    <2>1. Exists(u) /\ users[u] \in UserRow
      BY <1>4, ExistingIsRow DEF HardDeleteErase
    <2>2. users' = [users EXCEPT ![u] = row] /\ Erases(t, u)
      BY <1>4 DEF HardDeleteErase, Erases
    <2>3. /\ row \in UserRow /\ row.deleted = users[u].deleted
          /\ row.purgeAt = users[u].purgeAt /\ ~row.isActive
          /\ row.createdAt = users[u].createdAt
          /\ row.kiosk = users[u].kiosk /\ row.origin = users[u].origin
          /\ row.edits = users[u].edits
      BY <2>1 DEF UserRow
    <2> HIDE DEF row
    <2> QED BY <1>4, <2>1, <2>2, <2>3, UserEdited
  <1> QED BY <1>1, <1>2, <1>3, <1>4, <1>5

LEMMA EveryStepOnUsers ==
  ASSUME Shape, [Next]_vars
  PROVE  UsersStep
  <1> USE DEF Shape
  <1>1. CASE UNCHANGED vars \/ Tick
    BY <1>1, NoRowWritten DEF vars, Tick, store
  <1>2. CASE Atomic
    <2>1. CASE users' = users
      BY <2>1, NoRowWritten
    <2>2. CASE users' # users
      <3>1. \/ \E u \in Uids : SoftDelete(u) \/ Restore(u) \/ UseAccount(u)
            \/ \E u \in Uids, e \in Emails \cup {None}, k, hash \in BOOLEAN : UpdateUser(u, e, k, hash)
        BY <1>2, <2>2 DEF Atomic, Logout, CreateInvitation
      <3> QED BY <3>1, UserUpdates, UserChanged
    <2> QED BY <2>1, <2>2
  <1>3. ASSUME NEW t \in Threads, Session(t) \/ Account(t) \/ CleanupRead(t)
        PROVE  UsersStep
    <2>1. users' = users
      BY <1>3, JobBegins DEF store
    <2> QED BY <2>1, NoRowWritten
  <1>4. ASSUME NEW t \in Threads, InsertSession(t) \/ Respond(t) \/ RefreshDelete(t) \/ RevokeAll(t)
        PROVE  UsersStep
    <2>1. users' = users
      BY <1>4 DEF InsertSession, Respond, RefreshDelete, RevokeAll, store
    <2> QED BY <2>1, NoRowWritten
  <1>5. ASSUME NEW t \in Threads, KioskDelete(t)
        PROVE  UsersStep
    <2>1. CASE job[t].uid \in Uids
      BY <1>5, <2>1, UserDeleted DEF KioskDelete
    <2>2. CASE job[t].uid \notin Uids
      <3>1. users' = users
        BY <1>5, <2>2 DEF KioskDelete, DeleteUser, UsersOK
      <3> QED BY <3>1, NoRowWritten
    <2> QED BY <2>1, <2>2
  <1>6. ASSUME NEW t \in Threads, DropUnverified(t)
        PROVE  UsersStep
    <2>1. PICK u \in job[t].batch :
            IF CanDelete(u) THEN DeleteUser(u) ELSE UNCHANGED <<users, sessions, revoked, cut>>
      BY <1>6 DEF DropUnverified
    <2>2. u \in Uids
      BY DEF JobsOK, JobRow
    <2> QED BY <2>1, <2>2, UserDeleted
  <1>7. ASSUME NEW t \in Threads, RegisterCreate(t)
        PROVE  UsersStep
    <2>1. CASE users' = users
      BY <2>1, NoRowWritten
    <2>2. CASE users' # users
      <3>1. job[t].op = "register" /\ job[t].pc = "create"
        BY <1>7 DEF RegisterCreate, At
      <3>2. PICK u \in Uids : /\ InsertUser(u, NewRow(job[t]))
                              /\ invites' = [invites EXCEPT ![job[t].inv].used = TRUE]
        BY <1>7, <2>2 DEF RegisterCreate
      <3> QED BY <3>1, <3>2, UserInserted
    <2> QED BY <2>1, <2>2
  <1>8. ASSUME NEW t \in Threads, CreateInsert(t)
        PROVE  UsersStep
    <2>1. CASE users' = users
      BY <2>1, NoRowWritten
    <2>2. CASE users' # users
      <3>1. job[t].op \in {"admin", "sso", "kiosk"} /\ job[t].pc = "create"
        BY <1>8 DEF CreateInsert
      <3>2. PICK u \in Uids : InsertUser(u, NewRow(job[t]))
        BY <1>8, <2>2 DEF CreateInsert
      <3> QED BY <3>1, <3>2, UserInserted
    <2> QED BY <2>1, <2>2
  <1>9. ASSUME NEW t \in Threads, AccountUpdate(t) \/ HardDeleteErase(t)
        PROVE  UsersStep
    BY <1>9, JobUpdatesUser
  <1> QED BY <1>1, <1>2, <1>3, <1>4, <1>5, <1>6, <1>7, <1>8, <1>9 DEF Next, Step

----------------------------------------------------------------------------
(***************************************************************************)
(* The other tables stay well typed.                                       *)
(***************************************************************************)
RestOK == SessionsOK /\ InvitesOK /\ JarOK /\ CountsOK /\ SignedOK /\ JobsOK

LEMMA RevokeTyped ==
  ASSUME SessionsOK, JarOK, NEW gone \in SUBSET sessions, Revoke(gone), lines' = lines
  PROVE  SessionsOK' /\ cut' \in SUBSET Browsers
  <1>1. sessions' = sessions \ gone /\ cut' = cut \cup UNION {Holders(r.id) : r \in gone}
    BY DEF Revoke
  <1>2. \A tk : Holders(tk) \subseteq Browsers
    BY DEF Holders
  <1>3. cut' \subseteq Browsers
    BY <1>1, <1>2 DEF JarOK
  <1> QED BY <1>1, <1>3 DEF SessionsOK

LEMMA BeginTyped ==
  ASSUME Shape, NEW t \in Threads, Session(t) \/ Account(t) \/ CleanupRead(t)
  PROVE  RestOK'
  <1>1. JobsOK' /\ UNCHANGED <<sessions, invites, jar, now, signed, lines, cut>>
        /\ requests' \in 0..MaxRequests
    BY JobBegins DEF store, ghosts
  <1> QED BY <1>1 DEF Shape, RestOK, SessionsOK, InvitesOK, JarOK, CountsOK, SignedOK

\* What a request that one step serves leaves alone.
LEMMA AtomicServes ==
  ASSUME Atomic
  PROVE  /\ Serve /\ UNCHANGED <<now, signed, lines>> /\ sessions' \subseteq sessions
         /\ (\E b \in Browsers : Logout(b)) \/ UNCHANGED <<sessions, cut, jar>>
         /\ invites' = invites
            \/ \E i \in Invites, e \in Emails, k \in BOOLEAN : CreateInvitation(i, e, k)
  <1> DEFINE Goal ==
        /\ Serve /\ UNCHANGED <<now, signed, lines>> /\ sessions' \subseteq sessions
        /\ (\E b \in Browsers : Logout(b)) \/ UNCHANGED <<sessions, cut, jar>>
        /\ invites' = invites
           \/ \E i \in Invites, e \in Emails, k \in BOOLEAN : CreateInvitation(i, e, k)
  <1>1. ASSUME NEW b \in Browsers, Logout(b) PROVE Goal
    <2>1. Serve /\ UNCHANGED <<now, signed, lines, invites>> /\ sessions' \subseteq sessions
      BY <1>1 DEF Logout, Revoke
    <2> QED BY <1>1, <2>1
  <1>2. ASSUME NEW u \in Uids, SoftDelete(u) \/ Restore(u) \/ UseAccount(u) PROVE Goal
    BY <1>2 DEF SoftDelete, Restore, UseAccount, ghosts
  <1>3. ASSUME NEW u \in Uids, NEW e \in Emails \cup {None}, NEW k \in BOOLEAN,
               NEW hash \in BOOLEAN, UpdateUser(u, e, k, hash)
        PROVE  Goal
    BY <1>3 DEF UpdateUser, ghosts
  <1>4. ASSUME NEW i \in Invites, NEW e \in Emails, NEW k \in BOOLEAN, CreateInvitation(i, e, k)
        PROVE  Goal
    <2>1. Serve /\ UNCHANGED <<now, signed, lines, sessions, cut, jar>>
      BY <1>4 DEF CreateInvitation, ghosts
    <2> QED BY <1>4, <2>1
  <1> HIDE DEF Goal
  <1>5. Goal
    BY <1>1, <1>2, <1>3, <1>4 DEF Atomic
  <1> QED BY <1>5 DEF Goal

LEMMA AtomicTyped ==
  ASSUME Shape, Atomic
  PROVE  RestOK'
  <1> USE DEF Shape
  <1>1. job' = job /\ UNCHANGED <<now, signed, lines>> /\ requests' \in 0..MaxRequests
    <2>1. Serve /\ UNCHANGED <<now, signed, lines>>
      BY AtomicServes
    <2> QED BY <2>1, AccountAssumption DEF Serve, CountsOK
  <1>2. JobsOK' /\ CountsOK' /\ SignedOK'
    BY <1>1, JobsSame DEF CountsOK, SignedOK
  <1>3. ASSUME NEW b \in Browsers, Logout(b)
        PROVE  RestOK'
    <2> DEFINE tk == IF CookieSent("logout") THEN jar[b] ELSE None
               gone == {r \in sessions : r.id = tk}
    <2>1. Revoke(gone) /\ jar' = [jar EXCEPT ![b] = None] /\ invites' = invites
      BY <1>3 DEF Logout
    <2>2. gone \in SUBSET sessions
      OBVIOUS
    <2> HIDE DEF gone
    <2>3. SessionsOK' /\ cut' \in SUBSET Browsers
      BY <1>1, <2>1, <2>2, RevokeTyped
    <2> QED BY <1>2, <2>1, <2>3 DEF RestOK, InvitesOK, JarOK
  <1>4. ASSUME NEW u \in Uids, SoftDelete(u) \/ Restore(u) \/ UseAccount(u)
        PROVE  RestOK'
    <2>1. UNCHANGED <<sessions, invites, jar, cut, lines>>
      BY <1>4 DEF SoftDelete, Restore, UseAccount, ghosts
    <2> QED BY <1>2, <2>1 DEF RestOK, SessionsOK, InvitesOK, JarOK
  <1>6. ASSUME NEW u \in Uids, NEW e \in Emails \cup {None}, NEW k \in BOOLEAN, NEW hash \in BOOLEAN,
               UpdateUser(u, e, k, hash)
        PROVE  RestOK'
    <2>1. UNCHANGED <<sessions, invites, jar, cut, lines>>
      BY <1>6 DEF UpdateUser, ghosts
    <2> QED BY <1>2, <2>1 DEF RestOK, SessionsOK, InvitesOK, JarOK
  <1>5. ASSUME NEW i \in Invites, NEW e \in Emails, NEW k \in BOOLEAN, CreateInvitation(i, e, k)
        PROVE  RestOK'
    <2>1. [email |-> e, kiosk |-> k, until |-> now + InviteDays, used |-> FALSE] \in InviteRow
      BY TimesOK DEF InviteRow
    <2>2. InvitesOK' /\ UNCHANGED <<sessions, jar, cut, lines>>
      BY <1>5, <2>1 DEF CreateInvitation, InvitesOK, ghosts
    <2> QED BY <1>2, <2>2 DEF RestOK, SessionsOK, JarOK
  <1> QED BY <1>3, <1>4, <1>5, <1>6 DEF Atomic

LEMMA SignTyped ==
  ASSUME SignedOK, CountsOK, NEW u \in Uids, NEW tk, Sign(u, tk)
  PROVE  SignedOK'
  <1>1. CASE signed' = signed
    BY <1>1 DEF SignedOK
  <1>2. CASE signed' # signed
    <2> DEFINE sig == [user |-> u, at |-> now]
    <2>1. tk = Len(signed) + 1 /\ tk \in Tokens /\ signed' = Append(signed, sig)
      BY <1>2 DEF Sign
    <2>2. sig \in Signature
      BY DEF Signature, CountsOK
    <2> HIDE DEF sig
    <2>3. signed' \in Seq(Signature) /\ Len(signed') = Len(signed) + 1
      BY <2>1, <2>2 DEF SignedOK
    <2>4. Len(signed) + 1 <= MaxRequests
      BY <2>1, AccountAssumption DEF Tokens
    <2> QED BY <2>3, <2>4 DEF SignedOK
  <1> QED BY <1>1, <1>2

LEMMA InsertSessionTyped ==
  ASSUME Shape, NEW t \in Threads, InsertSession(t)
  PROVE  RestOK'
  <1> USE DEF Shape
  <1> DEFINE u == job[t].uid
             line == IF job[t].line = 0 THEN lines + 1 ELSE job[t].line
  <1>1. job[t].pc = "insert" /\ UNCHANGED <<users, invites, jar, now, revoked>>
    BY DEF InsertSession
  <1>2. PICK tk \in Tokens :
          /\ Sign(u, tk)
          /\ IF tk \in Live \/ ~Exists(u)
             THEN /\ Finish(t)
                  /\ cut' = IF job[t].op = "refresh" THEN cut \cup {job[t].br} ELSE cut
                  /\ UNCHANGED <<sessions, lines>>
             ELSE /\ lines' = IF job[t].line = 0 THEN lines + 1 ELSE lines
                  /\ sessions' = sessions \cup
                       {[id |-> tk, user |-> u, until |-> now + Lifetime(job[t]), line |-> line]}
                  /\ job' = [job EXCEPT ![t].pc = "respond", ![t].tok = tk]
                  /\ UNCHANGED <<requests, cut>>
    BY DEF InsertSession
  <1>3. job[t] \in JobRow /\ JobOK(job[t], lines)
    BY DEF JobsOK
  <1>4. u \in Uids /\ job[t].br \in Browsers /\ job[t].line \in 0..lines
    BY <1>1, <1>3 DEF JobOK
  <1>5. SignedOK'
    BY <1>2, <1>4, SignTyped
  <1>6. CASE tk \in Live \/ ~Exists(u)
    <2>1. job' = [job EXCEPT ![t] = Idle] /\ UNCHANGED <<requests, sessions, lines>>
      BY <1>2, <1>6 DEF Finish
    <2>2. JobsOK'
      BY <2>1, JobFinished
    <2>3. cut' \subseteq Browsers
      BY <1>2, <1>4, <1>6 DEF JarOK
    <2> QED BY <1>1, <1>5, <2>1, <2>2, <2>3 DEF RestOK, SessionsOK, InvitesOK, JarOK, CountsOK
  <1>7. CASE ~(tk \in Live \/ ~Exists(u))
    <2> DEFINE row == [id |-> tk, user |-> u, until |-> now + Lifetime(job[t]), line |-> line]
               j == [job[t] EXCEPT !.pc = "respond", !.tok = tk]
    <2>1. /\ lines' = (IF job[t].line = 0 THEN lines + 1 ELSE lines)
          /\ sessions' = sessions \cup {row} /\ job' = [job EXCEPT ![t] = j]
          /\ UNCHANGED <<requests, cut>>
      BY <1>2, <1>7
    <2>2. /\ lines' \in Nat /\ lines <= lines' /\ line \in 1..lines'
      BY <1>4, <2>1 DEF CountsOK
    <2>3. tk \in Nat
      BY DEF Tokens
    <2>4. /\ j \in JobRow /\ j.pc = "respond" /\ j.op = job[t].op /\ j.uid = job[t].uid
          /\ j.br = job[t].br /\ j.tok = tk /\ j.line = job[t].line
          /\ j.inv = job[t].inv /\ j.email = job[t].email /\ j.kiosk = job[t].kiosk
      BY <1>3, <2>3 DEF JobRow, Pcs
    <2>5. row \in Stored /\ row.line = line
      BY <1>4, <2>2, TimesOK DEF Stored, Lifetime
    <2> HIDE DEF j, row, line
    <2>6. JobOK(j, lines')
      <3>1. j.line \in 0..lines'
        BY <1>4, <2>2, <2>4 DEF CountsOK
      <3>2. job[t].op \in {"login", "sso", "refresh"} /\ (job[t].op = "register" => job[t].inv \in Invites)
        BY <1>1, <1>3 DEF JobOK
      <3>3. job[t].op = "kiosk" => job[t].kiosk
        BY <1>3 DEF JobOK
      <3> QED BY <1>4, <2>2, <2>4, <3>1, <3>2, <3>3, JobIsOK
    <2>7. JobsOK'
      BY <2>1, <2>2, <2>6, JobSet
    <2>8. SessionsOK'
      BY <2>1, <2>2, <2>5 DEF SessionsOK, CountsOK
    <2> QED BY <1>1, <1>5, <2>1, <2>2, <2>7, <2>8 DEF RestOK, InvitesOK, JarOK, CountsOK
  <1> QED BY <1>6, <1>7

LEMMA RefreshDeleteTyped ==
  ASSUME Shape, NEW t \in Threads, RefreshDelete(t)
  PROVE  RestOK'
  <1> USE DEF Shape
  <1>1. At(t, "refresh", "delete") /\ UNCHANGED <<users, invites, jar, now, signed, lines>>
    BY DEF RefreshDelete
  <1>2. \A tk : Holders(tk) \subseteq Browsers
    BY DEF Holders
  <1>3. cut' \subseteq Browsers /\ sessions' \subseteq sessions
    BY <1>2 DEF RefreshDelete, JarOK
  <1>4. JobsOK' /\ requests' = requests
    <2>1. CASE Finish(t)
      BY <1>1, <2>1, JobFinished DEF Finish
    <2>2. CASE ~Finish(t)
      <3>1. PICK r \in sessions : /\ job' = [job EXCEPT ![t].pc = "insert", ![t].line = r.line]
                                  /\ UNCHANGED requests
        BY <2>2 DEF RefreshDelete
      <3> DEFINE j == [job[t] EXCEPT !.pc = "insert", !.line = r.line]
      <3>2. r.line \in 1..lines /\ r.line \in Nat /\ r.line \in 0..lines
        BY DEF SessionsOK, Stored, CountsOK
      <3>3. job[t] \in JobRow /\ JobOK(job[t], lines) /\ job[t].op = "refresh"
        BY <1>1 DEF JobsOK, At
      <3>4. /\ j \in JobRow /\ j.pc = "insert" /\ j.op = job[t].op /\ j.uid = job[t].uid
            /\ j.br = job[t].br /\ j.tok = job[t].tok /\ j.line = r.line
            /\ j.inv = job[t].inv /\ j.email = job[t].email /\ j.kiosk = job[t].kiosk
        BY <3>2, <3>3 DEF JobRow, Pcs
      <3>5. job' = [job EXCEPT ![t] = j]
        BY <3>1
      <3> HIDE DEF j
      <3>6. JobOK(j, lines')
        BY <1>1, <3>2, <3>3, <3>4 DEF JobOK
      <3>7. lines' \in Nat /\ lines <= lines'
        BY <1>1 DEF CountsOK
      <3> QED BY <3>1, <3>5, <3>6, <3>7, JobSet
    <2> QED BY <2>1, <2>2
  <1> QED BY <1>1, <1>3, <1>4 DEF RestOK, SessionsOK, InvitesOK, JarOK, CountsOK, SignedOK

LEMMA RespondTyped ==
  ASSUME Shape, NEW t \in Threads, Respond(t)
  PROVE  RestOK'
  <1> USE DEF Shape
  <1> DEFINE b == job[t].br
  <1>1. b \in Browsers /\ job[t].tok \in Tokens
    BY DEF Respond, JobsOK, JobOK
  <1>2. Finish(t) /\ UNCHANGED <<sessions, invites, now, signed, lines>>
    BY DEF Respond, store
  <1>3. JobsOK' /\ requests' = requests
    BY <1>2, JobFinished DEF Finish
  <1>4. JarOK'
    BY <1>1 DEF Respond, JarOK
  <1> QED BY <1>2, <1>3, <1>4 DEF RestOK, SessionsOK, InvitesOK, CountsOK, SignedOK

\* The steps of an account's requests: they end, or move on to revoke rows.
LEMMA AccountStepTyped ==
  ASSUME Shape, NEW t \in Threads, AccountUpdate(t) \/ RevokeAll(t) \/ HardDeleteErase(t)
  PROVE  RestOK'
  <1> USE DEF Shape
  <1>1. UNCHANGED <<invites, jar, now, signed, lines>>
    BY DEF AccountUpdate, RevokeAll, HardDeleteErase, ghosts
  <1>2. Finish(t) \/ GoTo(t, "revoke") \/ GoTo(t, "delete")
    BY DEF AccountUpdate, RevokeAll, HardDeleteErase
  <1>3. JobsOK' /\ requests' = requests
    BY <1>1, <1>2, JobFinished, JobMoved DEF Finish, GoTo
  <1>4. SessionsOK' /\ cut' \in SUBSET Browsers
    <2>1. CASE UNCHANGED <<sessions, cut>>
      BY <1>1, <2>1 DEF SessionsOK, JarOK
    <2>2. CASE RevokeAll(t)
      <3> DEFINE gone == {r \in sessions : r.user = job[t].uid}
      <3>1. Revoke(gone) /\ gone \in SUBSET sessions
        BY <2>2 DEF RevokeAll
      <3> HIDE DEF gone
      <3> QED BY <1>1, <3>1, RevokeTyped
    <2> QED BY <2>1, <2>2 DEF AccountUpdate, HardDeleteErase, ghosts
  <1> QED BY <1>1, <1>3, <1>4 DEF RestOK, InvitesOK, JarOK, CountsOK, SignedOK

LEMMA DeletionTyped ==
  ASSUME Shape, lines' = lines, NEW u,
         IF CanDelete(u) THEN DeleteUser(u) ELSE UNCHANGED <<users, sessions, revoked, cut>>
  PROVE  SessionsOK' /\ cut' \in SUBSET Browsers
  <1> USE DEF Shape
  <1>1. CASE CanDelete(u)
    <2> DEFINE gone == {r \in sessions : r.user = u}
    <2>1. Revoke(gone) /\ gone \in SUBSET sessions
      BY <1>1 DEF DeleteUser
    <2> HIDE DEF gone
    <2> QED BY <2>1, RevokeTyped
  <1>2. CASE ~CanDelete(u)
    BY <1>2 DEF SessionsOK, JarOK
  <1> QED BY <1>1, <1>2

LEMMA DropTyped ==
  ASSUME Shape, NEW t \in Threads, KioskDelete(t) \/ DropUnverified(t)
  PROVE  RestOK'
  <1> USE DEF Shape
  <1>1. UNCHANGED <<invites, jar, now, signed, lines>>
    BY DEF KioskDelete, DropUnverified
  <1>2. SessionsOK' /\ cut' \in SUBSET Browsers
    <2>1. CASE KioskDelete(t)
      BY <1>1, <2>1, DeletionTyped DEF KioskDelete
    <2>2. CASE DropUnverified(t)
      BY <1>1, <2>2, DeletionTyped DEF DropUnverified
    <2> QED BY <2>1, <2>2
  <1>3. JobsOK' /\ requests' = requests
    <2>1. CASE Finish(t)
      BY <1>1, <2>1, JobFinished DEF Finish
    <2>2. CASE ~Finish(t)
      <3>1. PICK u \in job[t].batch : job' = [job EXCEPT ![t].batch = @ \ {u}] /\ UNCHANGED requests
        BY <2>2 DEF KioskDelete, DropUnverified
      <3> DEFINE fewer == job[t].batch \ {u}
                 j == [job[t] EXCEPT !.batch = fewer]
      <3>2. job[t] \in JobRow /\ JobOK(job[t], lines) /\ fewer \in SUBSET Uids
        BY DEF JobsOK, JobRow
      <3>3. job' = [job EXCEPT ![t] = j]
        BY <3>1
      <3> HIDE DEF fewer
      <3>4. /\ j \in JobRow /\ j.pc = job[t].pc /\ j.op = job[t].op /\ j.uid = job[t].uid
            /\ j.br = job[t].br /\ j.tok = job[t].tok /\ j.line = job[t].line
            /\ j.inv = job[t].inv /\ j.email = job[t].email /\ j.kiosk = job[t].kiosk
        BY <3>2 DEF JobRow
      <3> HIDE DEF j
      <3>5. JobOK(j, lines')
        BY <1>1, <3>2, <3>4 DEF JobOK
      <3>6. lines' \in Nat /\ lines <= lines'
        BY <1>1 DEF CountsOK
      <3> QED BY <3>1, <3>3, <3>5, <3>6, JobSet
    <2> QED BY <2>1, <2>2
  <1> QED BY <1>1, <1>2, <1>3 DEF RestOK, InvitesOK, JarOK, CountsOK, SignedOK

LEMMA CreationTyped ==
  ASSUME Shape, NEW t \in Threads, RegisterCreate(t) \/ CreateInsert(t)
  PROVE  RestOK'
  <1> USE DEF Shape
  <1>1. UNCHANGED <<sessions, jar, now, signed, lines, cut>>
    BY DEF RegisterCreate, CreateInsert, ghosts
  <1>2. job[t] \in JobRow /\ JobOK(job[t], lines)
    BY DEF JobsOK
  <1>3. InvitesOK'
    <2>1. CASE invites' = invites
      BY <2>1 DEF InvitesOK
    <2>2. CASE invites' # invites
      <3> DEFINE i == job[t].inv
      <3>1. invites[i] # None /\ invites' = [invites EXCEPT ![i].used = TRUE] /\ job[t].op = "register"
        BY <2>2 DEF RegisterCreate, CreateInsert, At
      <3>2. i \in Invites
        BY <1>2, <3>1 DEF JobOK
      <3>3. invites[i] \in InviteRow
        BY <3>1, <3>2 DEF InvitesOK
      <3>4. [invites[i] EXCEPT !.used = TRUE] \in InviteRow
        BY <3>3 DEF InviteRow
      <3> QED BY <3>1, <3>4 DEF InvitesOK
    <2> QED BY <2>1, <2>2
  <1>4. JobsOK' /\ requests' = requests
    <2>1. CASE Finish(t)
      BY <1>1, <2>1, JobFinished DEF Finish
    <2>2. CASE ~Finish(t)
      <3>1. PICK u \in Uids : job' = [job EXCEPT ![t].pc = "insert", ![t].uid = u] /\ UNCHANGED requests
        BY <2>2 DEF RegisterCreate, CreateInsert
      <3>2. job[t].op = "sso"
        BY <2>2 DEF RegisterCreate, CreateInsert
      <3> DEFINE j == [job[t] EXCEPT !.pc = "insert", !.uid = u]
      <3>3. job' = [job EXCEPT ![t] = j]
        BY <3>1
      <3>4. /\ j \in JobRow /\ j.pc = "insert" /\ j.op = job[t].op /\ j.uid = u
            /\ j.br = job[t].br /\ j.tok = job[t].tok /\ j.line = job[t].line
            /\ j.inv = job[t].inv /\ j.email = job[t].email /\ j.kiosk = job[t].kiosk
        BY <1>2 DEF JobRow, Pcs
      <3> HIDE DEF j
      <3>5. JobOK(j, lines')
        BY <1>1, <1>2, <3>2, <3>4 DEF JobOK
      <3>6. lines' \in Nat /\ lines <= lines'
        BY <1>1 DEF CountsOK
      <3> QED BY <3>1, <3>3, <3>5, <3>6, JobSet
    <2> QED BY <2>1, <2>2
  <1> QED BY <1>1, <1>3, <1>4 DEF RestOK, SessionsOK, JarOK, CountsOK, SignedOK

----------------------------------------------------------------------------
LEMMA ShapeInit == Init => Shape
  <1> SUFFICES ASSUME Init PROVE Shape
    OBVIOUS
  <1>1. UsersOK
    <2> DEFINE row == [email |-> AdminEmail, isActive |-> TRUE, deleted |-> FALSE,
          purgeAt |-> None, verify |-> FALSE, createdAt |-> 0, kiosk |-> FALSE,
          sso |-> FALSE, history |-> FALSE, origin |-> None, edits |-> {}]
    <2>1. row \in UserRow
      BY AccountAssumption DEF UserRow, Times
    <2>2. users = [u \in Uids |-> IF u = Admin THEN row ELSE None]
      BY DEF Init
    <2> HIDE DEF row
    <2> QED BY <2>1, <2>2 DEF UsersOK
  <1>2. JobsOK
    BY IdleIsOK, IdleIsRow DEF Init, JobsOK
  <1>3. SessionsOK /\ InvitesOK /\ JarOK /\ CountsOK
    BY AccountAssumption DEF Init, SessionsOK, InvitesOK, JarOK, CountsOK
  <1>4. SignedOK
    BY AccountAssumption DEF Init, SignedOK
  <1> QED BY <1>1, <1>2, <1>3, <1>4 DEF Shape

LEMMA ShapeStep == Shape /\ [Next]_vars => Shape'
  <1> SUFFICES ASSUME Shape, [Next]_vars PROVE Shape'
    OBVIOUS
  <1>1. UsersOK'
    BY EveryStepOnUsers DEF UsersStep, UsersOK
  <1>2. CASE UNCHANGED vars
    BY <1>2 DEF vars, Shape, UsersOK, SessionsOK, InvitesOK, JarOK, CountsOK, SignedOK, JobsOK
  <1>3. CASE Tick
    <2>1. now' = now + 1 /\ now < MaxTime /\ UNCHANGED <<store, jar, job, requests, ghosts>>
      BY <1>3 DEF Tick
    <2>2. CountsOK'
      BY <2>1, AccountAssumption DEF Shape, CountsOK, ghosts
    <2> QED BY <1>1, <2>1, <2>2 DEF Shape, store, ghosts, SessionsOK, InvitesOK, JarOK, SignedOK, JobsOK
  <1>4. CASE Atomic
    BY <1>1, <1>4, AtomicTyped DEF RestOK, Shape
  <1>5. ASSUME NEW t \in Threads, Session(t) \/ Account(t) \/ CleanupRead(t) \/ Step(t)
        PROVE  Shape'
    <2>1. RestOK'
      BY <1>5, BeginTyped, InsertSessionTyped, RefreshDeleteTyped, RespondTyped, AccountStepTyped,
         DropTyped, CreationTyped DEF Step
    <2> QED BY <1>1, <2>1 DEF RestOK, Shape
  <1> QED BY <1>2, <1>3, <1>4, <1>5 DEF Next

LEMMA ShapeHolds == Spec => []Shape
  BY ShapeInit, ShapeStep, PTL DEF Spec

----------------------------------------------------------------------------
(***************************************************************************)
(* The number of lines is bounded by the number of requests: each login in *)
(* flight has a request of its own.                                        *)
(***************************************************************************)
NewLines == {t \in Threads : job[t].op \in {"login", "sso"} /\ job[t].pc \in {"create", "insert"}}

LinesBounded == IsFiniteSet(NewLines) /\ lines + Cardinality(NewLines) <= requests

LEMMA LinesStay ==
  ASSUME CountsOK, CountsOK', LinesBounded, NewLines' \subseteq NewLines, lines' = lines,
         requests <= requests'
  PROVE  LinesBounded'
  <1> DEFINE n == Cardinality(NewLines)
             m == Cardinality(NewLines')
  <1>1. IsFiniteSet(NewLines') /\ m \in Nat /\ n \in Nat /\ m <= n
    BY FS_Subset, FS_CardinalityType DEF LinesBounded
  <1>2. lines + n <= requests
    BY DEF LinesBounded
  <1>3. lines' + m <= requests'
    <2> HIDE DEF n, m
    <2> QED BY <1>1, <1>2 DEF CountsOK
  <1> QED BY <1>1, <1>3 DEF LinesBounded

LEMMA LineReserved ==
  ASSUME CountsOK, LinesBounded, NEW t \in Threads, NewLines' \subseteq NewLines \cup {t},
         lines' = lines, requests' = requests + 1
  PROVE  LinesBounded'
  <1> DEFINE n == Cardinality(NewLines)
             m == Cardinality(NewLines')
             o == Cardinality(NewLines \cup {t})
  <1>1. /\ IsFiniteSet(NewLines \cup {t}) /\ n \in Nat
        /\ o = n \/ o = n + 1
    BY FS_AddElement, FS_CardinalityType DEF LinesBounded
  <1>2. IsFiniteSet(NewLines') /\ m \in Nat /\ o \in Nat /\ m <= o
    BY <1>1, FS_Subset, FS_CardinalityType
  <1>3. lines + n <= requests
    BY DEF LinesBounded
  <1>4. lines' + m <= requests'
    <2> HIDE DEF n, m, o
    <2> QED BY <1>1, <1>2, <1>3 DEF CountsOK
  <1> QED BY <1>2, <1>4 DEF LinesBounded

LEMMA LineOpened ==
  ASSUME CountsOK, LinesBounded, NEW t \in NewLines, NewLines' \subseteq NewLines \ {t},
         lines' = lines + 1, requests' = requests
  PROVE  LinesBounded'
  <1> DEFINE n == Cardinality(NewLines)
             m == Cardinality(NewLines')
             o == Cardinality(NewLines \ {t})
  <1>1. IsFiniteSet(NewLines \ {t}) /\ n \in Nat /\ o = n - 1
    BY FS_RemoveElement, FS_CardinalityType DEF LinesBounded
  <1>2. IsFiniteSet(NewLines') /\ m \in Nat /\ o \in Nat /\ m <= o
    BY <1>1, FS_Subset, FS_CardinalityType
  <1>3. lines + n <= requests
    BY DEF LinesBounded
  <1>4. lines' + m <= requests'
    <2> HIDE DEF n, m, o
    <2> QED BY <1>1, <1>2, <1>3 DEF CountsOK
  <1> QED BY <1>2, <1>4 DEF LinesBounded

\* A step of one thread leaves the others' jobs alone.
LEMMA OtherJobsStay ==
  ASSUME JobsOK, NEW t \in Threads, NEW j, job' = [job EXCEPT ![t] = j]
  PROVE  /\ job'[t] = j /\ \A x \in Threads : x # t => job'[x] = job[x]
         /\ NewLines' \subseteq NewLines \cup {t}
  <1>1. job'[t] = j /\ \A x \in Threads : x # t => job'[x] = job[x]
    BY DEF JobsOK
  <1> QED BY <1>1 DEF NewLines

LEMMA BeginBounded ==
  ASSUME Shape, LinesBounded, NEW t \in Threads, Session(t) \/ Account(t) \/ CleanupRead(t)
  PROVE  LinesBounded'
  <1> USE DEF Shape
  <1>1. lines' = lines
    BY JobBegins DEF ghosts
  <1>2. CASE \E j : Start(t, j)
    <2>1. PICK j : job' = [job EXCEPT ![t] = j] /\ requests' = requests + 1
      BY <1>2 DEF Start
    <2> QED BY <1>1, <2>1, OtherJobsStay, LineReserved
  <1>3. CASE CleanupRead(t)
    <2> DEFINE j == [Idle EXCEPT !.op = "cleanup", !.pc = "drop", !.batch = {u \in Uids : Stale(u)}]
    <2>1. j.op = "cleanup"
      BY DEF Idle
    <2>2. job' = [job EXCEPT ![t] = j] /\ requests' = requests
      BY <1>3 DEF CleanupRead
    <2> HIDE DEF j
    <2>3. NewLines' \subseteq NewLines
      BY <2>1, <2>2, OtherJobsStay DEF NewLines
    <2>4. CountsOK' /\ requests <= requests'
      BY <1>3, <2>2, BeginTyped DEF RestOK, CountsOK
    <2> QED BY <1>1, <2>3, <2>4, LinesStay
  <1> QED
    BY <1>2, <1>3 DEF Session, Account, LoginRead, SsoRead, RefreshRead, PasswordRead,
       KioskRemoveRead, ToggleRead, RegisterRead, CreateRead, HardDeleteRead, OwnerDropRead

LEMMA InsertBounded ==
  ASSUME Custody, Shape, LinesBounded, NEW t \in Threads, InsertSession(t)
  PROVE  LinesBounded'
  <1> USE DEF Shape
  <1>1. /\ job[t].pc = "insert"
        /\ \/ Finish(t) /\ UNCHANGED lines
           \/ /\ lines' = IF job[t].line = 0 THEN lines + 1 ELSE lines
              /\ \E tk \in Tokens : job' = [job EXCEPT ![t].pc = "respond", ![t].tok = tk]
              /\ UNCHANGED requests
    BY DEF InsertSession
  <1>2. CountsOK'
    BY InsertSessionTyped DEF RestOK
  <1>3. PICK j : job' = [job EXCEPT ![t] = j] /\ j.pc # "insert" /\ j.pc # "create"
    <2>1. CASE Finish(t)
      BY <2>1, IdleIsRow DEF Finish
    <2>2. ASSUME NEW tk \in Tokens, job' = [job EXCEPT ![t].pc = "respond", ![t].tok = tk]
          PROVE  \E j : job' = [job EXCEPT ![t] = j] /\ j.pc # "insert" /\ j.pc # "create"
      <3> DEFINE j == [job[t] EXCEPT !.pc = "respond", !.tok = tk]
      <3>1. job[t] \in JobRow
        BY DEF JobsOK
      <3>2. j.pc = "respond" /\ job' = [job EXCEPT ![t] = j]
        BY <2>2, <3>1 DEF JobRow
      <3> HIDE DEF j
      <3> QED BY <3>2
    <2> QED BY <1>1, <2>1, <2>2
  <1>4. NewLines' \subseteq NewLines \ {t} /\ requests' = requests
    <2>1. job'[t] = j /\ NewLines' \subseteq NewLines \cup {t}
      BY <1>3, OtherJobsStay
    <2>2. t \notin NewLines'
      BY <1>3, <2>1 DEF NewLines
    <2>3. requests' = requests
      BY <1>1 DEF Finish
    <2> QED BY <2>1, <2>2, <2>3
  <1>5. CASE lines' = lines
    BY <1>2, <1>4, <1>5, LinesStay DEF CountsOK
  <1>6. CASE lines' # lines
    <2>1. job[t].line = 0 /\ lines' = lines + 1
      BY <1>1, <1>6
    <2>2. job[t].op # "refresh"
      BY <1>1, <2>1 DEF Custody, CarriersHold, Carrying
    <2>3. t \in NewLines
      BY <1>1, <2>2 DEF NewLines, JobsOK, JobOK
    <2> QED BY <1>4, <2>1, <2>3, LineOpened
  <1> QED BY <1>5, <1>6

\* The other steps open no line and take up no login.
LEMMA StepBounded ==
  ASSUME Shape, LinesBounded, NEW t \in Threads, Step(t), ~InsertSession(t)
  PROVE  LinesBounded'
  <1> USE DEF Shape
  <1>1. lines' = lines
    BY DEF Step, Respond, RefreshDelete, AccountUpdate, RevokeAll, KioskDelete,
       RegisterCreate, CreateInsert, HardDeleteErase, DropUnverified, ghosts
  <1>2. CountsOK' /\ JobsOK'
    BY BeginTyped, InsertSessionTyped, RefreshDeleteTyped, RespondTyped, AccountStepTyped,
       DropTyped, CreationTyped DEF Step, RestOK
  <1>3. requests' = requests
    BY DEF Step, Respond, RefreshDelete, AccountUpdate, RevokeAll, KioskDelete,
       RegisterCreate, CreateInsert, HardDeleteErase, DropUnverified, Finish, GoTo
  <1>4. CASE job' = [job EXCEPT ![t] = Idle]
    <2>1. NewLines' \subseteq NewLines
      BY <1>4, OtherJobsStay, IdleIsRow DEF NewLines
    <2> QED BY <1>1, <1>2, <1>3, <2>1, LinesStay DEF CountsOK
  <1>5. CASE RefreshDelete(t) /\ ~Finish(t)
    <2>1. PICK r \in sessions : job' = [job EXCEPT ![t].pc = "insert", ![t].line = r.line]
      BY <1>5 DEF RefreshDelete
    <2> DEFINE j == [job[t] EXCEPT !.pc = "insert", !.line = r.line]
    <2>2. job[t] \in JobRow /\ job[t].op = "refresh"
      BY <1>5 DEF RefreshDelete, At, JobsOK
    <2>3. j.op = "refresh" /\ job' = [job EXCEPT ![t] = j]
      BY <2>1, <2>2 DEF JobRow
    <2> HIDE DEF j
    <2>4. NewLines' \subseteq NewLines
      BY <2>3, OtherJobsStay DEF NewLines
    <2> QED BY <1>1, <1>2, <1>3, <2>4, LinesStay DEF CountsOK
  <1>6. ASSUME NEW pc \in {"revoke", "delete"}, GoTo(t, pc)
        PROVE  LinesBounded'
    <2> DEFINE j == [job[t] EXCEPT !.pc = pc]
    <2>1. job[t] \in JobRow
      BY DEF JobsOK
    <2>2. j.pc = pc /\ job' = [job EXCEPT ![t] = j]
      BY <1>6, <2>1 DEF GoTo, JobRow
    <2> HIDE DEF j
    <2>3. NewLines' \subseteq NewLines
      BY <2>2, OtherJobsStay DEF NewLines
    <2> QED BY <1>1, <1>2, <1>3, <2>3, LinesStay DEF CountsOK
  <1>7. CASE DropUnverified(t) /\ ~Finish(t)
    <2>1. PICK u \in job[t].batch : job' = [job EXCEPT ![t].batch = @ \ {u}]
      BY <1>7 DEF DropUnverified
    <2> DEFINE j == [job[t] EXCEPT !.batch = @ \ {u}]
    <2>2. job[t] \in JobRow /\ job[t].op = "cleanup"
      BY <1>7 DEF DropUnverified, At, JobsOK
    <2>3. j.op = "cleanup" /\ job' = [job EXCEPT ![t] = j]
      BY <2>1, <2>2 DEF JobRow
    <2> HIDE DEF j
    <2>4. NewLines' \subseteq NewLines
      BY <2>3, OtherJobsStay DEF NewLines
    <2> QED BY <1>1, <1>2, <1>3, <2>4, LinesStay DEF CountsOK
  <1>8. CASE CreateInsert(t) /\ ~Finish(t)
    <2>1. PICK u \in Uids : job' = [job EXCEPT ![t].pc = "insert", ![t].uid = u]
      BY <1>8 DEF CreateInsert
    <2> DEFINE j == [job[t] EXCEPT !.pc = "insert", !.uid = u]
    <2>2. job[t] \in JobRow /\ job[t].op = "sso" /\ job[t].pc = "create"
      BY <1>8 DEF CreateInsert, JobsOK
    <2>3. job' = [job EXCEPT ![t] = j]
      BY <2>1
    <2>4. t \in NewLines
      BY <2>2 DEF NewLines
    <2> HIDE DEF j
    <2>5. NewLines' \subseteq NewLines
      BY <2>3, <2>4, OtherJobsStay
    <2> QED BY <1>1, <1>2, <1>3, <2>5, LinesStay DEF CountsOK
  <1> QED
    BY <1>4, <1>5, <1>6, <1>7, <1>8 DEF Step, Respond, RefreshDelete, AccountUpdate, RevokeAll,
       KioskDelete, RegisterCreate, CreateInsert, HardDeleteErase, DropUnverified, Finish

LEMMA LinesBoundedInit == Init => LinesBounded
  <1> SUFFICES ASSUME Init PROVE LinesBounded
    OBVIOUS
  <1>1. NewLines = {}
    BY IdleIsRow DEF Init, NewLines
  <1> QED BY <1>1, FS_EmptySet DEF LinesBounded, Init

LEMMA LinesBoundedStep == Shape /\ Custody /\ LinesBounded /\ [Next]_vars => LinesBounded'
  <1> SUFFICES ASSUME Shape, Custody, LinesBounded, [Next]_vars PROVE LinesBounded'
    OBVIOUS
  <1>1. CountsOK /\ CountsOK'
    BY ShapeStep DEF Shape
  <1>2. CASE UNCHANGED vars \/ Tick \/ Atomic
    <2>1. /\ job' = job /\ lines' = lines
          /\ requests' = requests \/ requests' = requests + 1
      BY <1>2, AtomicServes DEF vars, Tick, ghosts, Serve
    <2>3. requests <= requests'
      BY <1>1, <2>1 DEF CountsOK
    <2>2. NewLines' = NewLines
      BY <2>1 DEF NewLines
    <2> QED BY <1>1, <2>1, <2>2, <2>3, LinesStay
  <1>3. ASSUME NEW t \in Threads, Session(t) \/ Account(t) \/ CleanupRead(t) \/ Step(t)
        PROVE  LinesBounded'
    BY <1>3, BeginBounded, InsertBounded, StepBounded
  <1> QED BY <1>2, <1>3 DEF Next

\* Users, sessions, invitations, cookies and requests in flight are well
\* typed in every state: the tables of AuthService and UsersService.
THEOREM AccountsTyped == Spec => []TypeOK
  <1>1. Shape /\ Custody /\ LinesBounded => TypeOK
    <2> SUFFICES ASSUME Shape, Custody, LinesBounded PROVE TypeOK
      OBVIOUS
    <2>1. lines \in 0..MaxRequests
      <3>1. Cardinality(NewLines) \in Nat /\ lines + Cardinality(NewLines) <= requests
        BY FS_CardinalityType DEF LinesBounded
      <3> DEFINE n == Cardinality(NewLines)
      <3>2. n \in Nat /\ lines + n <= requests
        BY <3>1
      <3> HIDE DEF n
      <3> QED BY <3>2, AccountAssumption DEF Shape, CountsOK
    <2>2. sessions \subseteq SessionRow
      BY <2>1, AccountAssumption DEF Shape, SessionsOK, Stored, SessionRow
    <2>3. revoked \subseteq 1..lines
      BY DEF Custody, NobodyHolds
    <2>4. job \in [Threads ->
            [op : Ops, pc : Pcs,
             uid : Uids \cup {None}, br : Browsers \cup {None}, tok : Tokens \cup {0},
             line : 0..lines, ok : BOOLEAN, inv : Invites \cup {None},
             email : Emails \cup {None}, kiosk : BOOLEAN, batch : SUBSET Uids]]
      <3> SUFFICES ASSUME NEW t \in Threads
                   PROVE  job[t] \in [op : Ops, pc : Pcs,
                            uid : Uids \cup {None}, br : Browsers \cup {None}, tok : Tokens \cup {0},
                            line : 0..lines, ok : BOOLEAN, inv : Invites \cup {None},
                            email : Emails \cup {None}, kiosk : BOOLEAN, batch : SUBSET Uids]
        BY DEF Shape, JobsOK
      <3>1. job[t] \in JobRow /\ job[t].tok \in Tokens \cup {0} /\ job[t].line \in 0..lines
        BY DEF Shape, JobsOK, JobOK
      <3> QED BY <3>1 DEF JobRow
    <2> QED
      BY <2>1, <2>2, <2>3, <2>4 DEF TypeOK, Shape, UsersOK, InvitesOK, JarOK, CountsOK, SignedOK,
         Signature, Ops, Pcs
  <1>2. Spec => []LinesBounded
    BY ShapeHolds, SessionsHaveCustody, LinesBoundedInit, LinesBoundedStep, PTL DEF Spec
  <1> QED BY <1>1, <1>2, ShapeHolds, SessionsHaveCustody, PTL

----------------------------------------------------------------------------
(***************************************************************************)
(* Tabs.  A browser whose cookie names no stored token was cut off, or has *)
(* a refresh of its own under way that will bring it the new token.        *)
(***************************************************************************)
Answering(t, b) == job[t].br = b /\ job[t].op = "refresh" /\ job[t].pc \in {"insert", "respond"}

TabsInv ==
  \A b \in Browsers \ cut :
    (jar[b] # None /\ jar[b] \notin Live) => \E t \in Threads : Answering(t, b)

LEMMA TabsStay ==
  ASSUME TabsInv, cut \subseteq cut',
         \A b \in Browsers : jar'[b] = jar[b] \/ jar'[b] = None,
         \A b \in Browsers \ cut' :
           jar[b] \in Live => jar[b] \in Live' \/ \E t \in Threads : Answering(t, b)',
         \A b \in Browsers \ cut', t \in Threads : Answering(t, b) => Answering(t, b)'
  PROVE  TabsInv'
  BY DEF TabsInv

LEMMA LiveGrows ==
  ASSUME sessions \subseteq sessions'
  PROVE  Live \subseteq Live'
  BY DEF Live

LEMMA TabsRevoke ==
  ASSUME TabsInv, NEW gone, Revoke(gone),
         \A b \in Browsers : jar'[b] = jar[b] \/ jar'[b] = None,
         \A b \in Browsers, t \in Threads : Answering(t, b) => Answering(t, b)'
  PROVE  TabsInv'
  <1>1. /\ sessions' = sessions \ gone
        /\ cut' = cut \cup UNION {Holders(r.id) : r \in gone}
    BY DEF Revoke
  <1>2. ASSUME NEW b \in Browsers \ cut', jar[b] \in Live
        PROVE  jar[b] \in Live'
    <2>1. PICK r \in sessions : r.id = jar[b]
      BY <1>2 DEF Live
    <2>2. r \notin gone
      BY <1>1, <1>2, <2>1 DEF Holders
    <2> QED BY <1>1, <2>1, <2>2 DEF Live
  <1> QED BY <1>1, <1>2, TabsStay

\* A thread that is not answering a browser changes its job.
LEMMA AnswersStay ==
  ASSUME JobsOK, NEW t \in Threads, NEW j, job' = [job EXCEPT ![t] = j],
         job[t].op # "refresh" \/ job[t].pc \notin {"insert", "respond"}
  PROVE  \A b \in Browsers, x \in Threads : Answering(x, b) => Answering(x, b)'
  BY OtherJobsStay DEF Answering

LEMMA TabsInsert ==
  ASSUME Shape, TabsInv, NEW t \in Threads, InsertSession(t)
  PROVE  TabsInv'
  <1> USE DEF Shape
  <1>1. /\ job[t].pc = "insert" /\ jar' = jar /\ cut \subseteq cut' /\ sessions \subseteq sessions'
        /\ \/ Finish(t) /\ (job[t].op = "refresh" => job[t].br \in cut')
           \/ \E tk \in Tokens : job' = [job EXCEPT ![t].pc = "respond", ![t].tok = tk]
    BY DEF InsertSession
  <1>2. \A b \in Browsers \ cut', x \in Threads : Answering(x, b) => Answering(x, b)'
    <2>1. CASE Finish(t) /\ (job[t].op = "refresh" => job[t].br \in cut')
      BY <2>1, OtherJobsStay DEF Finish, Answering
    <2>2. ASSUME NEW tk \in Tokens, job' = [job EXCEPT ![t].pc = "respond", ![t].tok = tk]
          PROVE  \A b \in Browsers \ cut', x \in Threads : Answering(x, b) => Answering(x, b)'
      <3> DEFINE j == [job[t] EXCEPT !.pc = "respond", !.tok = tk]
      <3>1. job[t] \in JobRow
        BY DEF JobsOK
      <3>2. /\ j.pc = "respond" /\ j.op = job[t].op /\ j.br = job[t].br
            /\ job' = [job EXCEPT ![t] = j]
        BY <2>2, <3>1 DEF JobRow
      <3> HIDE DEF j
      <3> QED BY <3>2, OtherJobsStay DEF Answering
    <2> QED BY <1>1, <2>1, <2>2
  <1> QED BY <1>1, <1>2, LiveGrows, TabsStay

LEMMA TabsRefreshDelete ==
  ASSUME Shape, TabsInv, NEW t \in Threads, RefreshDelete(t)
  PROVE  TabsInv'
  <1> USE DEF Shape
  <1>1. job[t].op = "refresh" /\ job[t].pc = "delete" /\ jar' = jar
    BY DEF RefreshDelete, At
  <1>2. PICK j : job' = [job EXCEPT ![t] = j]
    <2>1. CASE Finish(t)
      BY <2>1 DEF Finish
    <2>2. CASE ~Finish(t)
      <3>1. PICK r \in sessions : job' = [job EXCEPT ![t].pc = "insert", ![t].line = r.line]
        BY <2>2 DEF RefreshDelete
      <3>2. job' = [job EXCEPT ![t] = [job[t] EXCEPT !.pc = "insert", !.line = r.line]]
        BY <3>1
      <3> QED BY <3>2
    <2> QED BY <2>1, <2>2
  <1>3. \A b \in Browsers, x \in Threads : Answering(x, b) => Answering(x, b)'
    BY <1>1, <1>2, AnswersStay
  <1>4. CASE job[t].tok \notin Live
    BY <1>1, <1>3, <1>4, LiveGrows, TabsStay DEF RefreshDelete
  <1>5. CASE job[t].tok \in Live
    <2>1. PICK r \in sessions :
            /\ r.id = job[t].tok /\ sessions' = sessions \ {r}
            /\ IF job[t].ok
               THEN /\ job' = [job EXCEPT ![t].pc = "insert", ![t].line = r.line]
                    /\ cut' = cut \cup (Holders(r.id) \ {job[t].br})
               ELSE cut' = cut \cup Holders(r.id)
      BY <1>5 DEF RefreshDelete
    <2>2. cut \subseteq cut'
      BY <2>1
    <2>3. ASSUME NEW b \in Browsers \ cut', jar[b] \in Live, jar[b] \notin Live'
          PROVE  Answering(t, b)'
      <3>1. PICK s \in sessions : s.id = jar[b]
        BY <2>3 DEF Live
      <3>2. s = r
        BY <2>1, <2>3, <3>1 DEF Live
      <3>3. b \in Holders(r.id)
        BY <3>1, <3>2 DEF Holders
      <3>4. job[t].ok /\ b = job[t].br
        BY <2>1, <2>3, <3>3
      <3> DEFINE i == [job[t] EXCEPT !.pc = "insert", !.line = r.line]
      <3>5. job[t] \in JobRow
        BY DEF JobsOK
      <3>6. /\ i.pc = "insert" /\ i.op = "refresh" /\ i.br = job[t].br
            /\ job' = [job EXCEPT ![t] = i]
        BY <1>1, <2>1, <3>4, <3>5 DEF JobRow
      <3> HIDE DEF i
      <3> QED BY <3>4, <3>6, OtherJobsStay DEF Answering
    <2> QED BY <1>1, <1>3, <2>2, <2>3, TabsStay
  <1> QED BY <1>4, <1>5

LEMMA TabsRespond ==
  ASSUME Shape, TabsInv, NEW t \in Threads, Respond(t)
  PROVE  TabsInv'
  <1> USE DEF Shape
  <1> DEFINE b == job[t].br
  <1>1. Finish(t) /\ sessions' = sessions /\ b \in Browsers
    BY DEF Respond, store, JobsOK, JobOK
  <1>2. Live' = Live
    BY <1>1 DEF Live
  <1>3. \A x \in Threads : \A c \in Browsers \ {b} : Answering(x, c) => Answering(x, c)'
    BY <1>1, OtherJobsStay DEF Finish, Answering
  <1>4. /\ \A c \in Browsers \ {b} : jar'[c] = jar[c] /\ (c \in cut' <=> c \in cut)
        /\ b \notin cut' => jar'[b] \in Live
    BY <1>1 DEF Respond, JarOK
  <1> HIDE DEF b
  <1> QED BY <1>2, <1>3, <1>4 DEF TabsInv

LEMMA TabsOther ==
  ASSUME Shape, TabsInv, NEW t \in Threads, Step(t),
         ~InsertSession(t), ~RefreshDelete(t), ~Respond(t)
  PROVE  TabsInv'
  <1> USE DEF Shape
  <1>1. jar' = jar /\ job[t].pc \notin {"insert", "respond"}
    BY DEF Step, AccountUpdate, RevokeAll, KioskDelete, RegisterCreate, CreateInsert,
       HardDeleteErase, DropUnverified, At
  <1>2. \E j : job' = [job EXCEPT ![t] = j]
    <2>1. \/ \E pc : GoTo(t, pc)
          \/ Finish(t)
          \/ \E u : job' = [job EXCEPT ![t].batch = @ \ {u}]
          \/ \E u : job' = [job EXCEPT ![t].pc = "insert", ![t].uid = u]
      BY DEF Step, AccountUpdate, RevokeAll, KioskDelete, RegisterCreate, CreateInsert,
         HardDeleteErase, DropUnverified
    <2>2. ASSUME NEW pc, GoTo(t, pc) PROVE job' = [job EXCEPT ![t] = [job[t] EXCEPT !.pc = pc]]
      BY <2>2 DEF GoTo
    <2>3. ASSUME NEW u, job' = [job EXCEPT ![t].batch = @ \ {u}]
          PROVE  job' = [job EXCEPT ![t] = [job[t] EXCEPT !.batch = @ \ {u}]]
      BY <2>3
    <2>4. ASSUME NEW u, job' = [job EXCEPT ![t].pc = "insert", ![t].uid = u]
          PROVE  job' = [job EXCEPT ![t] = [job[t] EXCEPT !.pc = "insert", !.uid = u]]
      BY <2>4
    <2> QED BY <2>1, <2>2, <2>3, <2>4 DEF Finish
  <1>3. \A b \in Browsers, x \in Threads : Answering(x, b) => Answering(x, b)'
    BY <1>1, <1>2, AnswersStay
  <1>4. CASE \E gone : Revoke(gone)
    BY <1>1, <1>3, <1>4, TabsRevoke
  <1>5. CASE UNCHANGED <<sessions, cut>>
    BY <1>1, <1>3, <1>5, LiveGrows, TabsStay
  <1> QED
    BY <1>4, <1>5 DEF Step, AccountUpdate, RevokeAll, KioskDelete, RegisterCreate, CreateInsert,
       HardDeleteErase, DropUnverified, DeleteUser, ghosts

LEMMA TabsStep == Shape /\ TabsInv /\ [Next]_vars => TabsInv'
  <1> SUFFICES ASSUME Shape, TabsInv, [Next]_vars PROVE TabsInv'
    OBVIOUS
  <1> USE DEF Shape
  <1>1. CASE UNCHANGED vars \/ Tick
    <2>1. UNCHANGED <<sessions, cut, jar, job>>
      BY <1>1 DEF vars, Tick, store, ghosts
    <2> QED BY <2>1 DEF TabsInv, Live, Answering
  <1>2. CASE Atomic
    <2>1. job' = job
      BY <1>2, AtomicServes DEF Serve
    <2>2. \A b \in Browsers, x \in Threads : Answering(x, b) => Answering(x, b)'
      BY <2>1 DEF Answering
    <2>3. CASE UNCHANGED <<sessions, cut, jar>>
      BY <2>2, <2>3, LiveGrows, TabsStay
    <2>4. ASSUME NEW b \in Browsers, Logout(b) PROVE TabsInv'
      <3>1. PICK gone : Revoke(gone) /\ jar' = [jar EXCEPT ![b] = None]
        BY <2>4 DEF Logout
      <3>2. \A c \in Browsers : jar'[c] = jar[c] \/ jar'[c] = None
        BY <3>1 DEF JarOK
      <3> QED BY <2>2, <3>1, <3>2, TabsRevoke
    <2> QED BY <1>2, <2>3, <2>4, AtomicServes
  <1>3. ASSUME NEW t \in Threads, Session(t) \/ Account(t) \/ CleanupRead(t)
        PROVE  TabsInv'
    <2>1. UNCHANGED <<sessions, cut, jar>>
      BY <1>3, JobBegins DEF store, ghosts
    <2>2. IsFree(t) /\ \E j : job' = [job EXCEPT ![t] = j]
      BY <1>3 DEF Session, Account, LoginRead, SsoRead, RefreshRead, PasswordRead, CleanupRead,
         KioskRemoveRead, ToggleRead, RegisterRead, CreateRead, HardDeleteRead, OwnerDropRead, Start
    <2>3. job[t].op # "refresh"
      BY <2>2, IdleIsRow DEF IsFree
    <2>4. \A b \in Browsers, x \in Threads : Answering(x, b) => Answering(x, b)'
      BY <2>2, <2>3, AnswersStay
    <2> QED BY <2>1, <2>4, LiveGrows, TabsStay
  <1>4. ASSUME NEW t \in Threads, Step(t)
        PROVE  TabsInv'
    BY <1>4, TabsInsert, TabsRefreshDelete, TabsRespond, TabsOther
  <1> QED BY <1>1, <1>2, <1>3, <1>4 DEF Next

\* However the refreshes of two tabs interleave, the browser's cookie names a
\* stored token once its requests are over: the refresh that loses the race
\* for the row throws and leaves the winner's cookie alone.
THEOREM TabsKeepTheirSession == Spec => []TabsShareTheSession
  <1>1. Init => TabsInv
    BY DEF Init, TabsInv
  <1>2. TabsInv => TabsShareTheSession
    BY DEF TabsInv, TabsShareTheSession, Answering
  <1> QED BY <1>1, <1>2, ShapeHolds, TabsStep, PTL DEF Spec

----------------------------------------------------------------------------
(***************************************************************************)
(* What a step does to the request of one thread: it goes on with the same *)
(* account, ends, begins, or single sign-on goes on with the account it    *)
(* made.                                                                   *)
(***************************************************************************)
Inserting(t) == job[t].pc = "insert" \/ (job[t].op = "refresh" /\ job[t].pc = "delete" /\ job[t].ok)

SameJob(t) ==
  /\ job'[t].op = job[t].op /\ job'[t].uid = job[t].uid
  /\ job'[t].email = job[t].email /\ job'[t].inv = job[t].inv /\ job'[t].kiosk = job[t].kiosk
  /\ Inserting(t)' => Inserting(t)

SignsOnNew(t) ==
  /\ job'[t].op = "sso" /\ ~job'[t].kiosk /\ job'[t].uid \in Uids
  /\ users[job'[t].uid] = None /\ users'[job'[t].uid] # None
Begins(t) == (Session(t) \/ Account(t)) /\ IsFree(t) /\ \E j : job' = [job EXCEPT ![t] = j]

JobStep(t) ==
  \/ SameJob(t) \/ job'[t] = Idle \/ SignsOnNew(t)
  \/ (job'[t].op = "cleanup" /\ job'[t].pc = "drop") \/ Begins(t)

LEMMA OneJobSteps ==
  ASSUME Shape, NEW t \in Threads, NEW j, job' = [job EXCEPT ![t] = j],
         JobStep(t), NEW x \in Threads
  PROVE  JobStep(x)
  <1>1. CASE x = t
    BY <1>1
  <1>2. CASE x # t
    <2>1. job'[x] = job[x]
      BY <1>2, OtherJobsStay DEF Shape
    <2> QED BY <2>1 DEF JobStep, SameJob, Inserting
  <1> QED BY <1>1, <1>2

LEMMA MovedJobSteps ==
  ASSUME Shape, NEW t \in Threads, NEW j \in JobRow, job' = [job EXCEPT ![t] = j],
         j.op = job[t].op, j.uid = job[t].uid, j.email = job[t].email, j.inv = job[t].inv,
         j.kiosk = job[t].kiosk,
         (j.pc = "insert" \/ (j.op = "refresh" /\ j.pc = "delete" /\ j.ok)) => Inserting(t)
  PROVE  \A x \in Threads : JobStep(x)
  <1>1. job'[t] = j
    BY OtherJobsStay DEF Shape
  <1>2. SameJob(t)
    BY <1>1 DEF SameJob, Inserting
  <1> QED BY <1>2, OneJobSteps DEF JobStep

LEMMA EndedJobSteps ==
  ASSUME Shape, NEW t \in Threads, Finish(t)
  PROVE  \A x \in Threads : JobStep(x)
  <1>1. job' = [job EXCEPT ![t] = Idle] /\ job'[t] = Idle
    BY OtherJobsStay DEF Finish, Shape
  <1> QED BY <1>1, OneJobSteps DEF JobStep

LEMMA StepOnJobs ==
  ASSUME Shape, NEW t \in Threads, Step(t)
  PROVE  \A x \in Threads : JobStep(x)
  <1>0. job[t] \in JobRow /\ JobOK(job[t], lines)
    BY DEF Shape, JobsOK
  <1>1. CASE Finish(t)
    BY <1>1, EndedJobSteps
  <1>2. CASE InsertSession(t) /\ ~Finish(t)
    <2>1. PICK tk \in Tokens : job' = [job EXCEPT ![t].pc = "respond", ![t].tok = tk]
      BY <1>2 DEF InsertSession
    <2> DEFINE j == [job[t] EXCEPT !.pc = "respond", !.tok = tk]
    <2>2. tk \in Nat
      BY DEF Tokens
    <2>3. /\ j \in JobRow /\ j.pc = "respond" /\ j.op = job[t].op /\ j.uid = job[t].uid
          /\ j.email = job[t].email /\ j.inv = job[t].inv /\ j.kiosk = job[t].kiosk
          /\ job' = [job EXCEPT ![t] = j]
      BY <1>0, <2>1, <2>2 DEF JobRow, Pcs
    <2> HIDE DEF j
    <2> QED BY <2>3, MovedJobSteps
  <1>3. CASE RefreshDelete(t) /\ ~Finish(t)
    <2>1. PICK r \in sessions : job' = [job EXCEPT ![t].pc = "insert", ![t].line = r.line]
      BY <1>3 DEF RefreshDelete
    <2>2. Inserting(t)
      BY <1>3 DEF RefreshDelete, Inserting, At
    <2>3. r.line \in Nat
      BY DEF Shape, SessionsOK, Stored
    <2> DEFINE j == [job[t] EXCEPT !.pc = "insert", !.line = r.line]
    <2>4. /\ j \in JobRow /\ j.op = job[t].op /\ j.uid = job[t].uid
          /\ j.email = job[t].email /\ j.inv = job[t].inv /\ j.kiosk = job[t].kiosk
          /\ job' = [job EXCEPT ![t] = j]
      BY <1>0, <2>1, <2>3 DEF JobRow, Pcs
    <2> HIDE DEF j
    <2> QED BY <2>2, <2>4, MovedJobSteps
  <1>4. ASSUME NEW pc \in {"revoke", "delete"}, GoTo(t, pc), job[t].op # "refresh"
        PROVE  \A x \in Threads : JobStep(x)
    <2> DEFINE j == [job[t] EXCEPT !.pc = pc]
    <2>1. /\ j \in JobRow /\ j.pc = pc /\ j.op = job[t].op /\ j.uid = job[t].uid
          /\ j.email = job[t].email /\ j.inv = job[t].inv /\ j.kiosk = job[t].kiosk
          /\ job' = [job EXCEPT ![t] = j]
      BY <1>0, <1>4 DEF GoTo, JobRow, Pcs
    <2> HIDE DEF j
    <2> QED BY <1>4, <2>1, MovedJobSteps
  <1>5. CASE DropUnverified(t) /\ ~Finish(t)
    <2>1. PICK u \in job[t].batch : job' = [job EXCEPT ![t].batch = @ \ {u}]
      BY <1>5 DEF DropUnverified
    <2> DEFINE fewer == job[t].batch \ {u}
               j == [job[t] EXCEPT !.batch = fewer]
    <2>2. fewer \in SUBSET Uids /\ job[t].pc = "drop" /\ job[t].op = "cleanup"
      BY <1>0, <1>5, RowIsRow DEF DropUnverified, At
    <2>3. job' = [job EXCEPT ![t] = j]
      BY <2>1
    <2> HIDE DEF fewer
    <2>4. /\ j \in JobRow /\ j.pc = "drop" /\ j.op = job[t].op /\ j.uid = job[t].uid
          /\ j.email = job[t].email /\ j.inv = job[t].inv /\ j.kiosk = job[t].kiosk
      BY <1>0, <2>2 DEF JobRow
    <2> HIDE DEF j
    <2> QED BY <2>2, <2>3, <2>4, MovedJobSteps
  <1>6. CASE CreateInsert(t) /\ ~Finish(t)
    <2>0. job[t].pc = "create"
      BY <1>6 DEF CreateInsert
    <2>8. PICK row \in UserRow : row = NewRow(job[t])
      BY <2>0, NewRowIsRow DEF Shape
    <2>1. PICK u \in Uids : /\ users[u] = None /\ users' = [users EXCEPT ![u] = row]
                            /\ job' = [job EXCEPT ![t].pc = "insert", ![t].uid = u]
      BY <1>6, <2>8 DEF CreateInsert, InsertUser
    <2>9. users'[u] # None
      BY <2>1, RowAssumption DEF Shape, UsersOK
    <2>2. job[t].op = "sso" /\ ~job[t].kiosk
      BY <1>0, <1>6, <2>0 DEF CreateInsert, JobOK
    <2> DEFINE j == [job[t] EXCEPT !.pc = "insert", !.uid = u]
    <2>3. j.op = "sso" /\ j.uid = u /\ ~j.kiosk /\ job' = [job EXCEPT ![t] = j]
      BY <1>0, <2>1, <2>2 DEF JobRow
    <2> HIDE DEF j
    <2>5. job'[t] = j
      BY <2>3, OtherJobsStay DEF Shape
    <2>4. SignsOnNew(t)
      BY <2>1, <2>3, <2>5, <2>9 DEF SignsOnNew
    <2> QED BY <2>3, <2>4, OneJobSteps DEF JobStep
  <1>7. \/ Finish(t) \/ InsertSession(t) \/ RefreshDelete(t) \/ DropUnverified(t) \/ CreateInsert(t)
        \/ \E pc \in {"revoke", "delete"} : GoTo(t, pc) /\ job[t].op # "refresh"
    BY DEF Step, Respond, AccountUpdate, RevokeAll, KioskDelete, RegisterCreate, HardDeleteErase
  <1> QED BY <1>1, <1>2, <1>3, <1>4, <1>5, <1>6, <1>7

LEMMA EveryStepOnJobs ==
  ASSUME Shape, [Next]_vars
  PROVE  \A x \in Threads : JobStep(x)
  <1>1. CASE job' = job
    BY <1>1 DEF JobStep, SameJob, Inserting
  <1>2. ASSUME NEW t \in Threads, Session(t) \/ Account(t)
        PROVE  \A x \in Threads : JobStep(x)
    <2>1. IsFree(t) /\ \E j : job' = [job EXCEPT ![t] = j]
      BY <1>2 DEF Session, Account, LoginRead, SsoRead, RefreshRead, PasswordRead,
         KioskRemoveRead, ToggleRead, RegisterRead, CreateRead, HardDeleteRead, OwnerDropRead, Start
    <2>2. Begins(t)
      BY <1>2, <2>1 DEF Begins
    <2> QED BY <2>1, <2>2, OneJobSteps DEF JobStep
  <1>3. ASSUME NEW t \in Threads, CleanupRead(t)
        PROVE  \A x \in Threads : JobStep(x)
    <2> DEFINE j == [Idle EXCEPT !.op = "cleanup", !.pc = "drop", !.batch = {u \in Uids : Stale(u)}]
    <2>1. j.op = "cleanup" /\ j.pc = "drop"
      BY DEF Idle
    <2>2. job' = [job EXCEPT ![t] = j]
      BY <1>3 DEF CleanupRead
    <2> HIDE DEF j
    <2> QED BY <2>1, <2>2, OneJobSteps, OtherJobsStay DEF JobStep, Shape
  <1>4. ASSUME NEW t \in Threads, Step(t)
        PROVE  \A x \in Threads : JobStep(x)
    BY <1>4, StepOnJobs
  <1>5. CASE UNCHANGED vars \/ Tick \/ Atomic
    BY <1>1, <1>5, AtomicServes DEF vars, Tick, Serve
  <1> QED BY <1>2, <1>3, <1>4, <1>5 DEF Next

----------------------------------------------------------------------------
\* What a request has read of the account or the invitation it begins with.
BeginsWell(j) ==
  /\ j.op = "kiosk" => /\ j.email = KioskEmail /\ j.kiosk
                       /\ \A u \in Uids : Exists(u) => ~users[u].kiosk
  /\ j.op = "register" => /\ j.inv \in Invites /\ invites[j.inv] # None
                          /\ ~invites[j.inv].used /\ j.email = invites[j.inv].email
  /\ j.op = "hardDelete" => /\ j.uid \in Uids /\ Exists(j.uid) /\ users[j.uid].deleted
                            /\ users[j.uid].purgeAt # None => now >= users[j.uid].purgeAt
  /\ j.op \in {"enable", "disable"} => j.uid \in Uids /\ Exists(j.uid) /\ users[j.uid].kiosk
  /\ (j.pc = "insert" \/ (j.op = "refresh" /\ j.pc = "delete" /\ j.ok)) =>
       /\ users[j.uid].isActive /\ j.kiosk = IsKiosk(j.uid)
       /\ Exists(j.uid) \/ \E r \in sessions : r.user = j.uid

LEMMA BeginKinds ==
  ASSUME Shape, NEW t \in Threads, Begins(t)
  PROVE  BeginsWell(job'[t]) /\ UNCHANGED <<store, now>>
  <1> DEFINE Goal == BeginsWell(job'[t])
  <1>1. ASSUME NEW j, BeginsWell(j), Start(t, j)
        PROVE  Goal
    <2>1. job' = [job EXCEPT ![t] = j]
      BY <1>1 DEF Start
    <2> QED BY <1>1, <2>1, OtherJobsStay DEF Shape
  <1> HIDE DEF Goal
  <1>2. ASSUME NEW b \in Browsers, NEW u \in Uids, LoginRead(t, b, u)
        PROVE  Goal
    <2> DEFINE j == [Idle EXCEPT !.op = "login", !.pc = "insert", !.uid = u, !.br = b,
                                 !.kiosk = IsKiosk(u)]
    <2>1. j.op = "login" /\ j.pc = "insert" /\ j.uid = u /\ j.kiosk = IsKiosk(u)
      BY DEF Idle
    <2>2. Start(t, j)
      BY <1>2 DEF LoginRead
    <2> HIDE DEF j
    <2>3. BeginsWell(j)
      BY <1>2, <2>1 DEF LoginRead, BeginsWell
    <2> QED BY <2>2, <2>3, <1>1
  <1>3. ASSUME NEW b \in Browsers, NEW u \in Uids, SsoRead(t, b, u)
        PROVE  Goal
    <2> DEFINE j == [Idle EXCEPT !.op = "sso", !.pc = "insert", !.uid = u, !.br = b,
                                 !.kiosk = IsKiosk(u)]
    <2>1. j.op = "sso" /\ j.pc = "insert" /\ j.uid = u /\ j.kiosk = IsKiosk(u)
      BY DEF Idle
    <2>2. Start(t, j)
      BY <1>3 DEF SsoRead
    <2> HIDE DEF j
    <2>3. BeginsWell(j)
      BY <1>3, <2>1 DEF SsoRead, BeginsWell
    <2> QED BY <2>2, <2>3, <1>1
  <1>4. ASSUME NEW u \in Uids, PasswordRead(t, u)
        PROVE  Goal
    <2> DEFINE j == [Idle EXCEPT !.op = "password", !.pc = "update", !.uid = u]
    <2>1. j.op = "password" /\ j.pc = "update" /\ j.uid = u
      BY DEF Idle
    <2>2. Start(t, j)
      BY <1>4 DEF PasswordRead
    <2> HIDE DEF j
    <2>3. BeginsWell(j)
      BY <1>4, <2>1 DEF PasswordRead, BeginsWell
    <2> QED BY <2>2, <2>3, <1>1
  <1>5. ASSUME NEW u \in Uids, KioskRemoveRead(t, u)
        PROVE  Goal
    <2> DEFINE j == [Idle EXCEPT !.op = "removeKiosk", !.pc = "revoke", !.uid = u]
    <2>1. j.op = "removeKiosk" /\ j.pc = "revoke" /\ j.uid = u
      BY DEF Idle
    <2>2. Start(t, j)
      BY <1>5 DEF KioskRemoveRead
    <2> HIDE DEF j
    <2>3. BeginsWell(j)
      BY <1>5, <2>1 DEF KioskRemoveRead, BeginsWell
    <2> QED BY <2>2, <2>3, <1>1
  <1>6. ASSUME NEW u \in Uids, NEW on \in BOOLEAN, ToggleRead(t, u, on)
        PROVE  Goal
    <2> DEFINE j == [Idle EXCEPT !.op = IF on THEN "enable" ELSE "disable",
                           !.pc = "update", !.uid = u]
    <2>1. j.op \in {"enable", "disable"} /\ j.pc = "update" /\ j.uid = u
      BY DEF Idle
    <2>2. Start(t, j)
      BY <1>6 DEF ToggleRead
    <2> HIDE DEF j
    <2>3. BeginsWell(j)
      BY <1>6, <2>1 DEF ToggleRead, BeginsWell
    <2> QED BY <2>2, <2>3, <1>1
  <1>7. ASSUME NEW i \in Invites, RegisterRead(t, i)
        PROVE  Goal
    <2> DEFINE j == [Idle EXCEPT !.op = "register", !.pc = "create", !.inv = i,
                           !.email = invites[i].email, !.kiosk = invites[i].kiosk]
    <2>1. j.op = "register" /\ j.pc = "create" /\ j.inv = i /\ j.email = invites[i].email
      BY DEF Idle
    <2>2. Start(t, j)
      BY <1>7 DEF RegisterRead
    <2> HIDE DEF j
    <2>3. BeginsWell(j)
      BY <1>7, <2>1 DEF RegisterRead, BeginsWell
    <2> QED BY <2>2, <2>3, <1>1
  <1>8. ASSUME NEW op \in {"admin", "sso", "kiosk"}, NEW e \in Emails, NEW k \in BOOLEAN,
             NEW b \in Browsers, CreateRead(t, op, e, k, b)
        PROVE  Goal
    <2> DEFINE j == [Idle EXCEPT !.op = op, !.pc = "create", !.email = e, !.kiosk = k,
                           !.br = IF op = "sso" THEN b ELSE None]
    <2>1. j.op = op /\ j.pc = "create" /\ j.email = e /\ j.kiosk = k
      BY DEF Idle
    <2>2. Start(t, j)
      BY <1>8 DEF CreateRead
    <2> HIDE DEF j
    <2>3. BeginsWell(j)
      BY <1>8, <2>1 DEF CreateRead, BeginsWell, IsKiosk
    <2> QED BY <2>2, <2>3, <1>1
  <1>9. ASSUME NEW u \in Uids, HardDeleteRead(t, u)
        PROVE  Goal
    <2> DEFINE j == [Idle EXCEPT !.op = "hardDelete", !.pc = "erase", !.uid = u]
    <2>1. j.op = "hardDelete" /\ j.pc = "erase" /\ j.uid = u
      BY DEF Idle
    <2>2. Start(t, j)
      BY <1>9 DEF HardDeleteRead
    <2> HIDE DEF j
    <2>3. BeginsWell(j)
      BY <1>9, <2>1 DEF HardDeleteRead, BeginsWell
    <2> QED BY <2>2, <2>3, <1>1
  <1>10. ASSUME NEW u \in Uids, OwnerDropRead(t, u)
        PROVE  Goal
    <2> DEFINE j == [Idle EXCEPT !.op = "cleanup", !.pc = "drop", !.batch = {u}]
    <2>1. j.op = "cleanup" /\ j.pc = "drop"
      BY DEF Idle
    <2>2. Start(t, j)
      BY <1>10 DEF OwnerDropRead
    <2> HIDE DEF j
    <2>3. BeginsWell(j)
      BY <1>10, <2>1 DEF OwnerDropRead, BeginsWell
    <2> QED BY <2>2, <2>3, <1>1
  <1>11. ASSUME NEW b \in Browsers, RefreshRead(t, b)
        PROVE  Goal
    <2>1. PICK r \in sessions : Start(t,
            [Idle EXCEPT !.op = "refresh", !.pc = "delete", !.uid = r.user,
               !.br = b, !.tok = r.id, !.line = r.line,
               !.kiosk = IsKiosk(r.user), !.ok = r.until >= now /\ users[r.user].isActive])
      BY <1>11 DEF RefreshRead
    <2> DEFINE good == r.until >= now /\ users[r.user].isActive
               j == [Idle EXCEPT !.op = "refresh", !.pc = "delete", !.uid = r.user,
               !.br = b, !.tok = r.id, !.line = r.line,
               !.kiosk = IsKiosk(r.user), !.ok = good]
    <2>2. Start(t, j)
      BY <2>1
    <2>3. good => users[r.user].isActive
      OBVIOUS
    <2> HIDE DEF good
    <2>4. /\ j.op = "refresh" /\ j.pc = "delete" /\ j.uid = r.user /\ j.ok = good
          /\ j.kiosk = IsKiosk(r.user)
      BY DEF Idle
    <2> HIDE DEF j
    <2>5. BeginsWell(j)
      BY <2>3, <2>4 DEF BeginsWell
    <2> QED BY <2>2, <2>5, <1>1
  <1>12. Goal
    BY <1>2, <1>3, <1>4, <1>5, <1>6, <1>7, <1>8, <1>9, <1>10, <1>11
    DEF Begins, Session, Account
  <1>13. UNCHANGED <<store, now>>
    BY JobBegins DEF Begins
  <1> QED BY <1>12, <1>13 DEF Goal

----------------------------------------------------------------------------
\* The other tables: an invitation keeps its address and stays used, and a
\* day passes between requests only.
InvitesStep ==
  \A i \in Invites : invites[i] # None =>
    /\ invites'[i] # None /\ invites'[i].email = invites[i].email
    /\ invites[i].used => invites'[i].used
TimeStep ==
  \/ now' = now
  \/ now' = now + 1 /\ UNCHANGED <<store, job>> /\ \A t \in Threads : IsFree(t)

LEMMA EveryStepOnTime ==
  ASSUME [Next]_vars
  PROVE  TimeStep
  <1>1. CASE UNCHANGED vars \/ Tick \/ Atomic
    BY <1>1, AtomicServes DEF vars, Tick, TimeStep
  <1>2. ASSUME NEW t \in Threads, Session(t) \/ Account(t)
        PROVE  now' = now
    BY <1>2 DEF Session, Account, LoginRead, SsoRead, RefreshRead, PasswordRead,
       KioskRemoveRead, ToggleRead, RegisterRead, CreateRead, HardDeleteRead, OwnerDropRead
  <1>3. ASSUME NEW t \in Threads, CleanupRead(t) \/ Step(t)
        PROVE  now' = now
    BY <1>3 DEF CleanupRead, Step, InsertSession, Respond, RefreshDelete, AccountUpdate, RevokeAll,
       KioskDelete, RegisterCreate, CreateInsert, HardDeleteErase, DropUnverified
  <1> QED BY <1>1, <1>2, <1>3 DEF Next, TimeStep

LEMMA EveryStepOnInvites ==
  ASSUME Shape, [Next]_vars
  PROVE  InvitesStep
  <1>1. CASE invites' = invites
    BY <1>1 DEF InvitesStep
  <1>2. ASSUME NEW i \in Invites, NEW e \in Emails, NEW k \in BOOLEAN, CreateInvitation(i, e, k)
        PROVE  InvitesStep
    BY <1>2 DEF CreateInvitation, InvitesStep, Shape, InvitesOK
  <1>3. ASSUME NEW t \in Threads, RegisterCreate(t), invites' # invites
        PROVE  InvitesStep
    <2>1. invites' = [invites EXCEPT ![job[t].inv].used = TRUE]
      BY <1>3 DEF RegisterCreate
    <2>2. ASSUME NEW i \in Invites, invites[i] # None
          PROVE  /\ invites'[i] # None /\ invites'[i].email = invites[i].email
                 /\ invites[i].used => invites'[i].used
      <3>1. invites[i] \in InviteRow
        BY <2>2 DEF Shape, InvitesOK
      <3> DEFINE row == [invites[i] EXCEPT !.used = TRUE]
      <3>2. row \in InviteRow /\ row.email = invites[i].email /\ row.used
        BY <3>1 DEF InviteRow
      <3>3. invites'[i] = row \/ invites'[i] = invites[i]
        BY <2>1 DEF Shape, InvitesOK
      <3>5. invites'[i] # None
        BY <2>2, <3>2, <3>3, RowAssumption
      <3> HIDE DEF row
      <3> QED BY <3>2, <3>3, <3>5
    <2> QED BY <2>2 DEF InvitesStep
  <1>4. CASE UNCHANGED vars \/ Tick \/ Atomic
    BY <1>1, <1>2, <1>4, AtomicServes DEF vars, Tick, store
  <1>5. ASSUME NEW t \in Threads, Session(t) \/ Account(t) \/ CleanupRead(t)
        PROVE  invites' = invites
    BY <1>5, JobBegins DEF store
  <1>6. ASSUME NEW t \in Threads, Step(t), ~RegisterCreate(t)
        PROVE  invites' = invites
    BY <1>6 DEF Step, InsertSession, Respond, RefreshDelete, AccountUpdate, RevokeAll,
       KioskDelete, CreateInsert, HardDeleteErase, DropUnverified, store
  <1> QED BY <1>1, <1>3, <1>4, <1>5, <1>6 DEF Next

----------------------------------------------------------------------------
(***************************************************************************)
(* Creations that race.  While a request that found the kiosk's role, or   *)
(* an invitation, free is in flight no day passes: the rows it did not see *)
(* were made today, under the address it is about to insert, and the       *)
(* unique index refuses the second.  An administrator who changes the      *)
(* address or the role of such a row leaves a mark in edits; besides, only *)
(* erasure frees an address, and it takes a row RetentionDays old.         *)
(***************************************************************************)
RoleKept(u) == (users[u].origin = KioskEmail /\ "role" \notin users[u].edits) => users[u].kiosk
RowDated(u) ==
  /\ users[u].createdAt <= now
  /\ users[u].deleted => /\ users[u].purgeAt # None
                         /\ users[u].createdAt + RetentionDays <= users[u].purgeAt
  /\ users[u].origin \in Invites => /\ invites[users[u].origin] # None
                                     /\ invites[users[u].origin].used
  /\ RoleKept(u)
Made(u, o) == Exists(u) /\ users[u].origin = o /\ users[u].edits = {}
MadeToday(u, e) == users[u].createdAt = now /\ users[u].email = e

RowsDated == \A u \in Uids : Exists(u) => RowDated(u)
KioskCreators ==
  \A t \in Threads : job[t].op = "kiosk" =>
    /\ job[t].email = KioskEmail
    /\ \A u \in Uids : Made(u, KioskEmail) => MadeToday(u, KioskEmail)
Registrations ==
  \A t \in Threads : job[t].op = "register" =>
    /\ invites[job[t].inv] # None /\ job[t].email = invites[job[t].inv].email
    /\ \A u \in Uids : Made(u, job[t].inv) => MadeToday(u, job[t].email)
Erasures ==
  \A t \in Threads : job[t].op = "hardDelete" =>
    /\ job[t].uid \in Uids /\ users[job[t].uid] # None
    /\ Exists(job[t].uid) => users[job[t].uid].createdAt < now

CollapseInv == RowsDated /\ KioskCreators /\ Registrations /\ Erasures /\ CreatesCollapse

Origin(j) == IF j.op = "register" THEN j.inv ELSE IF j.op = "kiosk" THEN KioskEmail ELSE None

LEMMA InsertedRow ==
  ASSUME NEW t \in Threads, NEW u \in Uids, InsertedBy(t, u)
  PROVE  /\ users'[u].email = job[t].email /\ users'[u].createdAt = now /\ ~users'[u].deleted
         /\ users'[u].purgeAt = None /\ users'[u].kiosk = job[t].kiosk
         /\ users'[u].origin = Origin(job[t]) /\ users'[u].edits = {}
         /\ users[u] = None /\ ~Exists(u)
  BY DEF InsertedBy, NewRow, Origin, Exists

\* A row that is there after a step was there before it, or is new.
LEMMA RowBefore ==
  ASSUME UsersStep, NEW u \in Uids, Exists(u)'
  PROVE  \/ Exists(u) /\ (users'[u] = users[u] \/ Edited(u))
         \/ \E t \in Threads : InsertedBy(t, u)
  <1>1. users'[u] \notin {None, Gone} /\ UserStep(u)
    BY DEF UsersStep, Exists
  <1>2. CASE users'[u] = users[u]
    BY <1>1, <1>2 DEF Exists
  <1>3. CASE Removed(u)
    BY <1>1, <1>3 DEF Removed
  <1>4. CASE Edited(u)
    BY <1>4 DEF Edited
  <1> QED BY <1>1, <1>2, <1>3, <1>4 DEF UserStep

\* No request is in flight while a day passes, and rows are written on the
\* day it is.
LEMMA SameDay ==
  ASSUME TimeStep, users' # users \/ \E t \in Threads : job[t] # Idle \/ job'[t] # Idle
  PROVE  now' = now
  BY DEF TimeStep, store, IsFree

LEMMA DatedStep ==
  ASSUME Shape, RowsDated, Registrations, UsersStep, InvitesStep, TimeStep
  PROVE  RowsDated'
  <1>1. ASSUME NEW u \in Uids, Exists(u)'
        PROVE  RowDated(u)'
    <2>0. now \in Nat /\ now' \in Nat /\ now <= now'
      BY DEF TimeStep, Shape, CountsOK
    <2>1. CASE Exists(u) /\ users'[u] = users[u]
      <3>1. users[u] \in UserRow /\ RowDated(u)
        BY <2>1, ExistingIsRow DEF Shape, RowsDated
      <3>2. users[u].createdAt \in Nat
        BY <3>1, UserRowFields DEF Times
      <3>6. RoleKept(u)'
        BY <2>1, <3>1 DEF RowDated, RoleKept
      <3>3. users'[u].createdAt <= now'
        BY <2>0, <2>1, <3>1, <3>2 DEF RowDated
      <3>4. users'[u].deleted => /\ users'[u].purgeAt # None
                                 /\ users'[u].createdAt + RetentionDays <= users'[u].purgeAt
        BY <2>1, <3>1 DEF RowDated
      <3>5. users'[u].origin \in Invites => /\ invites'[users'[u].origin] # None
                                            /\ invites'[users'[u].origin].used
        BY <2>1, <3>1 DEF RowDated, InvitesStep
      <3> QED BY <3>3, <3>4, <3>5, <3>6 DEF RowDated
    <2>2. CASE Exists(u) /\ users'[u] # users[u] /\ Edited(u)
      <3>1. users[u] \in UserRow /\ RowDated(u)
        BY <2>2, ExistingIsRow DEF Shape, RowsDated
      <3>2. users[u].createdAt \in Nat
        BY <3>1, UserRowFields DEF Times
      <3>3. users'[u].createdAt <= now'
        BY <2>0, <2>2, <3>1, <3>2 DEF Edited, RowDated
      <3>4. users'[u].deleted => /\ users'[u].purgeAt # None
                                 /\ users'[u].createdAt + RetentionDays <= users'[u].purgeAt
        <4>1. now + RetentionDays # None
          BY TimesOK, RowAssumption DEF Shape
        <4>2. CASE users'[u].deleted = users[u].deleted /\ users'[u].purgeAt = users[u].purgeAt
          BY <2>2, <3>1, <4>2 DEF Edited, RowDated
        <4>3. CASE users'[u].deleted /\ users'[u].purgeAt = now + RetentionDays
          <5>1. users'[u].createdAt = users[u].createdAt /\ users[u].createdAt <= now
            BY <2>2, <3>1 DEF Edited, RowDated
          <5> QED BY <2>0, <3>2, <4>1, <4>3, <5>1, AccountAssumption
        <4> QED BY <2>2, <4>2, <4>3 DEF Edited
      <3>5. users'[u].origin \in Invites => /\ invites'[users'[u].origin] # None
                                            /\ invites'[users'[u].origin].used
        BY <2>2, <3>1 DEF Edited, RowDated, InvitesStep
      <3>6. RoleKept(u)'
        <4> SUFFICES ASSUME users'[u].origin = KioskEmail, "role" \notin users'[u].edits
                     PROVE  users'[u].kiosk
          BY DEF RoleKept
        <4> QED BY <2>2, <3>1 DEF Edited, RowDated, RoleKept
      <3> QED BY <3>3, <3>4, <3>5, <3>6 DEF RowDated
    <2>3. ASSUME NEW t \in Threads, InsertedBy(t, u)
          PROVE  RowDated(u)'
      <3>1. CASE job[t].op = "register"
        <4>1. job[t].inv \in Invites /\ invites' = [invites EXCEPT ![job[t].inv].used = TRUE]
          BY <2>3, <3>1 DEF InsertedBy, Shape, JobsOK, JobOK
        <4>7. job[t].inv # KioskEmail
          BY <4>1, AccountAssumption
        <4>2. invites[job[t].inv] # None /\ invites[job[t].inv] \in InviteRow
          BY <3>1, <4>1 DEF Registrations, Shape, InvitesOK
        <4> DEFINE offer == [invites[job[t].inv] EXCEPT !.used = TRUE]
        <4>3. offer.used /\ invites'[job[t].inv] = offer
          BY <4>1, <4>2 DEF Shape, InvitesOK, InviteRow
        <4>4. invites'[job[t].inv] # None /\ invites'[job[t].inv].used
          BY <4>1, <4>2, <4>3 DEF InvitesStep
        <4>5. users'[u].origin = job[t].inv
          BY <2>3, <3>1, InsertedRow DEF Origin
        <4>6. users'[u].createdAt <= now' /\ ~users'[u].deleted
          BY <2>0, <2>3, InsertedRow
        <4> QED BY <4>4, <4>5, <4>6, <4>7 DEF RowDated, RoleKept
      <3>2. CASE job[t].op # "register"
        <4>1. /\ users'[u].createdAt <= now' /\ ~users'[u].deleted
              /\ users'[u].origin = Origin(job[t]) /\ users'[u].kiosk = job[t].kiosk
          BY <2>0, <2>3, InsertedRow
        <4>2. job[t].op = "kiosk" => job[t].kiosk
          BY DEF Shape, JobsOK, JobOK
        <4>3. users'[u].origin \notin Invites
          BY <3>2, <4>1, AccountAssumption DEF Origin
        <4>4. RoleKept(u)'
          BY <3>2, <4>1, <4>2, AccountAssumption DEF RoleKept, Origin
        <4> QED BY <4>1, <4>3, <4>4 DEF RowDated
      <3> QED BY <3>1, <3>2
    <2> QED BY <1>1, <2>1, <2>2, <2>3, RowBefore
  <1> QED BY <1>1 DEF RowsDated

\* A row that a request in flight relies on: its address is not erased.
LEMMA KeepsItsDay ==
  ASSUME Shape, Erasures, NEW u \in Uids, NEW e, Edited(u), users'[u].edits = {},
         MadeToday(u, e), now' = now
  PROVE  MadeToday(u, e)'
  <1>1. ASSUME NEW t \in Threads, Erases(t, u)
        PROVE  FALSE
    <2>1. users[u].createdAt < now
      BY <1>1 DEF Erases, At, Erasures, Edited
    <2> QED BY <2>1 DEF MadeToday, Shape, CountsOK
  <1> QED BY <1>1 DEF Edited, MadeToday

\* A row nobody has edited was not edited before.
LEMMA MadeBefore ==
  ASSUME NEW u \in Uids, NEW o, Edited(u), Made(u, o)'
  PROVE  Made(u, o) /\ users'[u].edits = {}
  BY DEF Made, Edited

LEMMA KioskStep ==
  ASSUME Shape, CollapseInv, UsersStep, TimeStep, \A t \in Threads : JobStep(t)
  PROVE  KioskCreators'
  <1>1. ASSUME NEW t \in Threads, job'[t].op = "kiosk"
        PROVE  /\ job'[t].email = KioskEmail
               /\ \A u \in Uids : Made(u, KioskEmail)' => MadeToday(u, KioskEmail)'
    <2>1. CASE job[t].op = "kiosk" /\ SameJob(t)
      <3>1. job[t] # Idle
        BY <2>1 DEF Idle
      <3>2. now' = now /\ job'[t].email = KioskEmail
        BY <2>1, <3>1, SameDay DEF SameJob, CollapseInv, KioskCreators
      <3>3. ASSUME NEW u \in Uids, Made(u, KioskEmail)'
            PROVE  MadeToday(u, KioskEmail)'
        <4>0. Exists(u)'
          BY <3>3 DEF Made
        <4>1. CASE Exists(u) /\ users'[u] = users[u]
          BY <2>1, <3>2, <3>3, <4>1 DEF CollapseInv, KioskCreators, MadeToday, Made
        <4>2. CASE Exists(u) /\ Edited(u)
          <5>1. Made(u, KioskEmail) /\ users'[u].edits = {}
            BY <3>3, <4>2, MadeBefore
          <5>2. MadeToday(u, KioskEmail)
            BY <2>1, <5>1 DEF CollapseInv, KioskCreators
          <5> QED BY <3>2, <4>2, <5>1, <5>2, KeepsItsDay DEF CollapseInv
        <4>3. ASSUME NEW x \in Threads, InsertedBy(x, u)
              PROVE  MadeToday(u, KioskEmail)'
          <5>1. /\ users'[u].origin = Origin(job[x])
                /\ users'[u].email = job[x].email /\ users'[u].createdAt = now
            BY <4>3, InsertedRow
          <5>2. users'[u].origin = KioskEmail
            BY <3>3 DEF Made
          <5>3. job[x].op = "register" => job[x].inv \in Invites
            BY DEF Shape, JobsOK, JobOK
          <5>4. job[x].op = "kiosk"
            BY <5>1, <5>2, <5>3, AccountAssumption DEF Origin
          <5> QED BY <3>2, <5>1, <5>4 DEF CollapseInv, KioskCreators, MadeToday
        <4> QED BY <4>0, <4>1, <4>2, <4>3, RowBefore
      <3> QED BY <3>2, <3>3
    <2>2. CASE Begins(t)
      <3>1. /\ job'[t].email = KioskEmail /\ \A u \in Uids : Exists(u) => ~users[u].kiosk
            /\ users' = users
        BY <1>1, <2>2, BeginKinds DEF BeginsWell, store
      <3>2. ASSUME NEW u \in Uids, Made(u, KioskEmail)'
            PROVE  FALSE
        <4>1. Made(u, KioskEmail)
          BY <3>1, <3>2 DEF Made, Exists
        <4>2. users[u].kiosk
          BY <4>1 DEF Made, CollapseInv, RowsDated, RowDated, RoleKept
        <4> QED BY <3>1, <4>1, <4>2 DEF Made
      <3> QED BY <3>1, <3>2
    <2>3. CASE job'[t] = Idle \/ SignsOnNew(t) \/ job'[t].op = "cleanup"
      BY <1>1, <2>3 DEF Idle, SignsOnNew
    <2> QED BY <1>1, <2>1, <2>2, <2>3 DEF JobStep, SameJob
  <1> QED BY <1>1 DEF KioskCreators

LEMMA RegistrationStep ==
  ASSUME Shape, CollapseInv, UsersStep, TimeStep, InvitesStep, \A t \in Threads : JobStep(t)
  PROVE  Registrations'
  <1>1. ASSUME NEW t \in Threads, job'[t].op = "register"
        PROVE  /\ invites'[job'[t].inv] # None /\ job'[t].email = invites'[job'[t].inv].email
               /\ \A u \in Uids : Made(u, job[t].inv)' => MadeToday(u, job[t].email)'
    <2>1. CASE job[t].op = "register" /\ SameJob(t)
      <3>0. PICK i \in Invites : i = job[t].inv
        BY <2>1 DEF Shape, JobsOK, JobOK
      <3>4. PICK e : e = job[t].email
        OBVIOUS
      <3>1. /\ job[t] # Idle /\ invites[i] # None /\ e = invites[i].email
            /\ \A u \in Uids : Made(u, i) => MadeToday(u, e)
        BY <2>1, <3>0, <3>4 DEF Idle, CollapseInv, Registrations
      <3>2. /\ now' = now /\ invites'[i] # None /\ e = invites'[i].email
            /\ job'[t].inv = i /\ job'[t].email = e
        BY <2>1, <3>0, <3>1, <3>4, SameDay DEF SameJob, InvitesStep
      <3>3. ASSUME NEW u \in Uids, Made(u, i)'
            PROVE  MadeToday(u, e)'
        <4>0. Exists(u)' /\ users'[u].origin = i
          BY <3>3 DEF Made
        <4>1. CASE Exists(u) /\ users'[u] = users[u]
          BY <3>1, <3>2, <3>3, <4>1 DEF MadeToday, Made
        <4>2. CASE Exists(u) /\ Edited(u)
          <5>1. Made(u, i) /\ users'[u].edits = {}
            BY <3>3, <4>2, MadeBefore
          <5>2. MadeToday(u, e)
            BY <3>1, <5>1
          <5> QED BY <3>2, <4>2, <5>1, <5>2, KeepsItsDay DEF CollapseInv
        <4>3. ASSUME NEW x \in Threads, InsertedBy(x, u)
              PROVE  MadeToday(u, e)'
          <5>1. /\ users'[u].email = job[x].email /\ users'[u].createdAt = now
                /\ users'[u].origin = Origin(job[x])
            BY <4>3, InsertedRow
          <5>2. job[x].op = "register" /\ job[x].inv = i
            BY <4>0, <5>1, NoneAndGoneAreNeither, AccountAssumption DEF Origin
          <5>3. job[x].email = invites[i].email
            BY <5>2 DEF CollapseInv, Registrations
          <5> QED BY <3>1, <3>2, <5>1, <5>3 DEF MadeToday
        <4> QED BY <4>0, <4>1, <4>2, <4>3, RowBefore
      <3>5. (job[t].inv)' = i /\ (job[t].email)' = e
        BY <3>2
      <3> QED BY <3>2, <3>3, <3>5
    <2>2. CASE Begins(t)
      <3>0. PICK i : i = job'[t].inv
        OBVIOUS
      <3>1. /\ i \in Invites /\ invites[i] # None /\ ~invites[i].used
            /\ job'[t].email = invites[i].email /\ UNCHANGED <<users, invites>>
        BY <1>1, <2>2, <3>0, BeginKinds DEF BeginsWell, store
      <3>2. ASSUME NEW u \in Uids, Made(u, i)'
            PROVE  FALSE
        <4>1. Exists(u) /\ users[u].origin = i
          BY <3>1, <3>2 DEF Exists, Made
        <4> QED BY <3>1, <4>1 DEF CollapseInv, RowsDated, RowDated
      <3> QED BY <3>0, <3>1, <3>2
    <2>3. CASE job'[t] = Idle \/ SignsOnNew(t) \/ job'[t].op = "cleanup"
      BY <1>1, <2>3 DEF Idle, SignsOnNew
    <2> QED BY <1>1, <2>1, <2>2, <2>3 DEF JobStep, SameJob
  <1> QED BY <1>1 DEF Registrations

LEMMA ErasureStep ==
  ASSUME Shape, Shape', CollapseInv, UsersStep, TimeStep, \A t \in Threads : JobStep(t)
  PROVE  Erasures'
  <1>1. ASSUME NEW t \in Threads, job'[t].op = "hardDelete"
        PROVE  /\ job'[t].uid \in Uids /\ users'[job'[t].uid] # None
               /\ Exists(job[t].uid)' => users'[job'[t].uid].createdAt < now'
    <2>1. CASE job[t].op = "hardDelete" /\ SameJob(t)
      <3>0. PICK u \in Uids : u = job[t].uid
        BY <2>1 DEF CollapseInv, Erasures
      <3>1. /\ job[t] # Idle /\ users[u] # None
            /\ Exists(u) => users[u].createdAt < now
        BY <2>1, <3>0 DEF Idle, CollapseInv, Erasures
      <3>2. now' = now /\ job'[t].uid = u
        BY <2>1, <3>0, <3>1, SameDay DEF SameJob
      <3>3. CASE users'[u] = users[u]
        BY <3>1, <3>2, <3>3 DEF Exists
      <3>4. CASE Edited(u)
        BY <3>1, <3>2, <3>4, RowAssumption DEF Edited
      <3>5. CASE Removed(u)
        BY <3>1, <3>2, <3>5, RowAssumption, NoneAndGoneAreNeither DEF Removed, Exists
      <3>6. ASSUME NEW x \in Threads, InsertedBy(x, u) PROVE FALSE
        BY <3>1, <3>6, InsertedRow
      <3> QED BY <3>1, <3>3, <3>4, <3>5, <3>6 DEF UsersStep, UserStep
    <2>2. CASE Begins(t)
      <3>0. PICK u : u = job'[t].uid
        OBVIOUS
      <3>1. /\ u \in Uids /\ Exists(u) /\ users[u].deleted
            /\ users[u].purgeAt # None => now >= users[u].purgeAt
            /\ UNCHANGED <<users, now>>
        BY <1>1, <2>2, <3>0, BeginKinds DEF BeginsWell, store
      <3>2. /\ users[u].createdAt + RetentionDays <= users[u].purgeAt
            /\ users[u].purgeAt # None
        BY <3>1 DEF CollapseInv, RowsDated, RowDated
      <3>3. users[u].createdAt \in Nat /\ users[u].purgeAt \in Nat
        BY <3>1, <3>2, ExistingIsRow, UserRowFields DEF Shape, Times
      <3>4. users[u].createdAt < now
        BY <3>1, <3>2, <3>3, AccountAssumption DEF Shape, CountsOK
      <3>5. u \in Uids /\ users'[u] # None /\ users'[u].createdAt < now'
        BY <1>1, <3>1, <3>4 DEF Exists
      <3> QED BY <3>0, <3>5
    <2>3. CASE job'[t] = Idle \/ SignsOnNew(t) \/ job'[t].op = "cleanup"
      BY <1>1, <2>3 DEF Idle, SignsOnNew
    <2> QED BY <1>1, <2>1, <2>2, <2>3 DEF JobStep, SameJob
  <1> QED BY <1>1 DEF Erasures

\* The second INSERT of a race is refused: the first took the address.
LEMMA CollapseStep ==
  ASSUME Shape, CollapseInv, UsersStep
  PROVE  CreatesCollapse'
  <1> DEFINE Clash(u, v) == /\ users[u].origin # None /\ users[u].origin = users[v].origin
                            /\ users[u].edits = {} /\ users[v].edits = {}
  <1>1. ASSUME NEW u \in Uids, Exists(u)', ~ \E t \in Threads : InsertedBy(t, u)
        PROVE  /\ Exists(u) /\ users'[u].origin = users[u].origin
               /\ users[u].edits \subseteq users'[u].edits
    BY <1>1, RowBefore DEF Edited
  <1>2. ASSUME NEW u \in Uids, NEW v \in Uids, u # v, NEW t \in Threads, InsertedBy(t, u),
               Exists(v)', Clash(u, v)'
        PROVE  FALSE
    <2>1. users'[v] = users[v] /\ Exists(v)
      <3>1. users'[u] # users[u]
        <4>1. users[u] = None /\ users'[u] \in UserRow
          BY <1>2, NewRowIsRow DEF InsertedBy, Shape
        <4> QED BY <4>1, RowAssumption
      <3> QED BY <1>2, <3>1 DEF UsersStep, Exists
    <2>2. ~Taken(job[t].email)
      BY <1>2 DEF InsertedBy
    <2>3. /\ users'[u].origin = Origin(job[t]) /\ Made(v, Origin(job[t]))
          /\ Origin(job[t]) # None
      BY <1>2, <2>1, InsertedRow DEF Made
    <2>4. CASE job[t].op = "kiosk"
      <3>1. users[v].email = KioskEmail /\ job[t].email = KioskEmail
        BY <2>3, <2>4 DEF CollapseInv, KioskCreators, MadeToday, Origin
      <3> QED BY <2>1, <2>2, <3>1 DEF Taken
    <2>5. CASE job[t].op = "register"
      <3>1. users[v].email = job[t].email
        BY <2>3, <2>5 DEF CollapseInv, Registrations, MadeToday, Origin
      <3> QED BY <2>1, <2>2, <3>1 DEF Taken
    <2> QED BY <2>3, <2>4, <2>5 DEF Origin
  <1>3. ASSUME NEW u \in Uids, NEW v \in Uids, Exists(u)', Exists(v)', u # v, Clash(u, v)'
        PROVE  FALSE
    <2>1. Clash(v, u)'
      BY <1>3
    <2>2. CASE \E t \in Threads : InsertedBy(t, u)
      BY <1>2, <1>3, <2>2
    <2>3. CASE \E t \in Threads : InsertedBy(t, v)
      BY <1>2, <1>3, <2>1, <2>3
    <2>4. CASE ~(\E t \in Threads : InsertedBy(t, u)) /\ ~(\E t \in Threads : InsertedBy(t, v))
      <3>1. /\ Exists(u) /\ users'[u].origin = users[u].origin /\ users[u].edits = {}
            /\ Exists(v) /\ users'[v].origin = users[v].origin /\ users[v].edits = {}
        BY <1>1, <1>3, <2>4
      <3> QED BY <1>3, <3>1 DEF CollapseInv, CreatesCollapse
    <2> QED BY <2>2, <2>3, <2>4
  <1> QED BY <1>3 DEF CreatesCollapse

LEMMA CollapseInvStep == Shape /\ CollapseInv /\ [Next]_vars => CollapseInv'
  <1> SUFFICES ASSUME Shape, CollapseInv, [Next]_vars PROVE CollapseInv'
    OBVIOUS
  <1>1. Shape' /\ UsersStep /\ InvitesStep /\ TimeStep /\ \A t \in Threads : JobStep(t)
    BY ShapeStep, EveryStepOnUsers, EveryStepOnInvites, EveryStepOnTime, EveryStepOnJobs
  <1>2. RowsDated'
    BY <1>1, DatedStep DEF CollapseInv
  <1> QED
    BY <1>1, <1>2, KioskStep, RegistrationStep, ErasureStep, CollapseStep DEF CollapseInv

\* Two requests that both found an invitation unused, or both found no account
\* with the kiosk's role, make one account: completeRegistration and
\* createAccount check before they insert, and the unique index on the address
\* decides.  Only an administrator who moves the first account to another
\* address, or gives it another role, makes room for a second.
THEOREM RacingCreatesCollapse == Spec => []CreatesCollapse
  <1>1. Init => CollapseInv
    <2> SUFFICES ASSUME Init PROVE CollapseInv
      OBVIOUS
    <2>1. \A t \in Threads : job[t].op = "idle"
      BY DEF Init, Idle
    <2>2. \A u \in Uids : Exists(u) => u = Admin
      BY DEF Init, Exists
    <2>3. Exists(Admin) => /\ users[Admin].createdAt = 0 /\ ~users[Admin].deleted
                           /\ users[Admin].origin = None
      BY AccountAssumption DEF Init, Exists
    <2>4. None \notin Invites /\ None # KioskEmail
      BY AccountAssumption
    <2> QED
      BY <2>1, <2>2, <2>3, <2>4 DEF CollapseInv, RowsDated, RowDated, RoleKept, KioskCreators, Registrations,
         Erasures, CreatesCollapse, Init
  <1>2. CollapseInv => CreatesCollapse
    BY DEF CollapseInv
  <1> QED BY <1>1, <1>2, ShapeHolds, CollapseInvStep, PTL DEF Spec

----------------------------------------------------------------------------
(***************************************************************************)
(* Deactivation deletes no refresh token, and leaves the refreshes and     *)
(* logins under way to end.  Those end on the day the account went: their  *)
(* token lives SessionDays from then, the account RetentionDays.  Nobody   *)
(* signs in later, for nothing but restoring makes it active again: the    *)
(* switch that enables an account is the kiosk's.  All this is of accounts *)
(* that never had the KIOSK role, whose tokens live longer.                *)
(***************************************************************************)
Steady(u) == ~users[u].kiosk /\ "role" \notin users[u].edits
Deactivated(u) == Exists(u) /\ users[u].deleted /\ Steady(u)

SessionsEnd ==
  \A r \in sessions :
    /\ users[r.user] # None
    /\ Exists(r.user) /\ Steady(r.user) => r.until <= now + SessionDays
Toggles ==
  \A t \in Threads : job[t].op \in {"enable", "disable"} =>
    /\ job[t].uid \in Uids /\ users[job[t].uid] # None
    /\ Exists(job[t].uid) => ~Steady(job[t].uid)
Signers ==
  \A t \in Threads : Inserting(t) =>
    /\ job[t].uid \in Uids /\ users[job[t].uid] # None
    /\ Exists(job[t].uid) /\ Steady(job[t].uid) => ~job[t].kiosk
EndsInTime(u) ==
  /\ ~users[u].isActive /\ users[u].purgeAt \in Times
  /\ \A r \in sessions : r.user = u => r.until < users[u].purgeAt
  /\ \A t \in Threads :
       (Inserting(t) /\ job[t].uid = u) => users[u].purgeAt = now + RetentionDays
DeactivatedEnd == \A u \in Uids : Deactivated(u) => EndsInTime(u)

PurgeInv == SessionsEnd /\ Toggles /\ Signers /\ DeactivatedEnd

\* A refresh token is stored by a login or refresh only, for the lifetime that
\* goes with the role the request has read.
SessionsStep ==
  \A r \in sessions' \ sessions : \E t \in Threads :
    /\ job[t].pc = "insert" /\ r.user = job[t].uid /\ Exists(r.user)
    /\ r.until = now + Lifetime(job[t])

LEMMA EveryStepOnSessions ==
  ASSUME [Next]_vars
  PROVE  SessionsStep
  <1>1. CASE sessions' \subseteq sessions
    BY <1>1 DEF SessionsStep
  <1>2. ASSUME NEW t \in Threads, InsertSession(t)
        PROVE  SessionsStep
    BY <1>2 DEF InsertSession, SessionsStep
  <1>3. CASE UNCHANGED vars \/ Tick \/ Atomic
    BY <1>1, <1>3, AtomicServes DEF vars, Tick, store
  <1>4. ASSUME NEW t \in Threads, Session(t) \/ Account(t) \/ CleanupRead(t)
        PROVE  sessions' = sessions
    BY <1>4 DEF Session, Account, LoginRead, SsoRead, RefreshRead, PasswordRead,
       KioskRemoveRead, ToggleRead, RegisterRead, CreateRead, HardDeleteRead, OwnerDropRead,
       CleanupRead, store
  <1>5. ASSUME NEW t \in Threads, Step(t), ~InsertSession(t)
        PROVE  sessions' \subseteq sessions
    BY <1>5 DEF Step, Respond, RefreshDelete, AccountUpdate, RevokeAll, Revoke, DeleteUser,
       KioskDelete, RegisterCreate, CreateInsert, HardDeleteErase, DropUnverified, store
  <1> QED BY <1>1, <1>2, <1>3, <1>4, <1>5 DEF Next

\* An id once used stays used, and an account that never had the KIOSK role
\* never had it a step before.
LEMMA IdsStay ==
  ASSUME Shape, UsersStep, NEW u \in Uids, users[u] # None
  PROVE  users'[u] # None
  <1>1. CASE Edited(u)
    BY <1>1, RowAssumption DEF Edited
  <1>2. CASE Removed(u)
    BY <1>2, AccountAssumption DEF Removed
  <1>3. ASSUME NEW t \in Threads, InsertedBy(t, u) PROVE FALSE
    BY <1>3, InsertedRow
  <1> QED BY <1>1, <1>2, <1>3 DEF UsersStep, UserStep

LEMMA SteadyBefore ==
  ASSUME Shape, UsersStep, NEW u \in Uids, users[u] # None, Exists(u)', Steady(u)'
  PROVE  Exists(u) /\ Steady(u) /\ (users'[u] = users[u] \/ Edited(u))
  <1>1. ASSUME NEW t \in Threads, InsertedBy(t, u) PROVE FALSE
    BY <1>1, InsertedRow
  <1>2. Exists(u) /\ (users'[u] = users[u] \/ Edited(u))
    BY <1>1, RowBefore
  <1>3. Edited(u) => Steady(u)
    BY DEF Edited, Steady
  <1>4. users'[u] = users[u] => Steady(u)
    BY DEF Steady
  <1> QED BY <1>2, <1>3, <1>4

LEMMA Lifetimes ==
  ASSUME NEW j
  PROVE  Lifetime(j) \in Nat /\ (~j.kiosk => Lifetime(j) = SessionDays)
  BY AccountAssumption DEF Lifetime

LEMMA SessionsEndStep ==
  ASSUME Shape, SessionsEnd, Signers, UsersStep, SessionsStep, TimeStep
  PROVE  SessionsEnd'
  <1>1. /\ now \in Nat /\ now' \in Nat /\ now <= now' /\ SessionDays \in Nat
    BY AccountAssumption DEF TimeStep, Shape, CountsOK
  <1>3. \A m, n, d \in Nat : m <= n => m + d <= n + d
    OBVIOUS
  <1>0. now + SessionDays <= now' + SessionDays
    BY <1>1, <1>3
  <1>2. ASSUME NEW r \in sessions'
        PROVE  /\ users'[r.user] # None
               /\ Exists(r.user)' /\ Steady(r.user)' => r.until <= now' + SessionDays
    <2>1. CASE r \in sessions
      <3>1. r.user \in Uids /\ r.until \in Nat /\ users[r.user] # None
        BY <2>1 DEF SessionsEnd, Shape, SessionsOK, Stored, Times, SessionRow
      <3>2. users'[r.user] # None
        BY <3>1, IdsStay
      <3>3. ASSUME Exists(r.user)', Steady(r.user)' PROVE r.until <= now' + SessionDays
        <4>1. Exists(r.user) /\ Steady(r.user)
          BY <3>1, <3>3, SteadyBefore
        <4>2. r.until <= now + SessionDays
          BY <2>1, <4>1 DEF SessionsEnd
        <4> QED BY <1>1, <3>1, <4>2
      <3> QED BY <3>2, <3>3
    <2>2. CASE r \notin sessions
      <3>1. PICK t \in Threads : /\ job[t].pc = "insert" /\ r.user = job[t].uid /\ Exists(r.user)
                                 /\ r.until = now + Lifetime(job[t])
        BY <2>2 DEF SessionsStep
      <3>2. Inserting(t)
        BY <3>1 DEF Inserting
      <3>3. r.user \in Uids /\ users[r.user] # None
        BY <3>1, <3>2 DEF Signers
      <3>4. users'[r.user] # None
        BY <3>3, IdsStay
      <3>5. ASSUME Exists(r.user)', Steady(r.user)' PROVE r.until <= now' + SessionDays
        <4>1. Steady(r.user)
          BY <3>3, <3>5, SteadyBefore
        <4>2. ~job[t].kiosk
          BY <3>1, <3>2, <4>1 DEF Signers
        <4>3. r.until = now + SessionDays
          BY <3>1, <4>2, Lifetimes
        <4> QED BY <1>0, <4>3
      <3> QED BY <3>4, <3>5
    <2> QED BY <2>1, <2>2
  <1> QED BY <1>2 DEF SessionsEnd

LEMMA TogglesStep ==
  ASSUME Shape, Toggles, UsersStep, \A t \in Threads : JobStep(t)
  PROVE  Toggles'
  <1>1. ASSUME NEW t \in Threads, job'[t].op \in {"enable", "disable"}
        PROVE  /\ job'[t].uid \in Uids /\ users'[job'[t].uid] # None
               /\ Exists(job[t].uid)' => ~Steady(job[t].uid)'
    <2>1. CASE SameJob(t)
      <3>0. PICK u \in Uids : u = job[t].uid
        BY <1>1, <2>1 DEF Toggles, SameJob
      <3>1. /\ users[u] # None
            /\ Exists(u) => ~Steady(u)
            /\ job'[t].uid = u
        BY <1>1, <2>1, <3>0 DEF Toggles, SameJob
      <3>2. users'[u] # None
        BY <3>1, IdsStay
      <3>3. Exists(u)' => ~Steady(u)'
        BY <3>1, SteadyBefore
      <3> QED BY <3>1, <3>2, <3>3
    <2>2. CASE Begins(t)
      <3>1. /\ job'[t].uid \in Uids /\ Exists(job'[t].uid) /\ users[job'[t].uid].kiosk
            /\ users' = users
        BY <1>1, <2>2, BeginKinds DEF BeginsWell, store
      <3> QED BY <3>1 DEF Exists, Steady
    <2>3. CASE job'[t] = Idle \/ SignsOnNew(t) \/ job'[t].op = "cleanup"
      BY <1>1, <2>3 DEF Idle, SignsOnNew
    <2> QED BY <1>1, <2>1, <2>2, <2>3 DEF JobStep
  <1> QED BY <1>1 DEF Toggles

LEMMA SignersStep ==
  ASSUME Shape, Shape', SessionsEnd, Signers, UsersStep, \A t \in Threads : JobStep(t)
  PROVE  Signers'
  <1>1. ASSUME NEW t \in Threads, Inserting(t)'
        PROVE  /\ job'[t].uid \in Uids /\ users'[job'[t].uid] # None
               /\ Exists(job[t].uid)' /\ Steady(job[t].uid)' => ~job'[t].kiosk
    <2>1. CASE SameJob(t)
      <3>0. Inserting(t) /\ job'[t].uid = job[t].uid /\ job'[t].kiosk = job[t].kiosk
        BY <1>1, <2>1 DEF SameJob
      <3>1. PICK u \in Uids : u = job[t].uid
        BY <3>0 DEF Signers
      <3>2. users[u] # None /\ (Exists(u) /\ Steady(u) => ~job[t].kiosk)
        BY <3>0, <3>1 DEF Signers
      <3>3. users'[u] # None
        BY <3>2, IdsStay
      <3>4. Exists(u)' /\ Steady(u)' => Exists(u) /\ Steady(u)
        BY <3>2, SteadyBefore
      <3> QED BY <3>0, <3>1, <3>2, <3>3, <3>4
    <2>2. CASE Begins(t)
      <3>1. /\ job'[t].kiosk = IsKiosk(job'[t].uid) /\ users' = users
            /\ Exists(job'[t].uid) \/ \E r \in sessions : r.user = job'[t].uid
        BY <1>1, <2>2, BeginKinds DEF BeginsWell, store, Inserting
      <3>2. job'[t].uid \in Uids
        BY <1>1 DEF Shape, JobsOK, JobOK, Inserting
      <3>3. users[job'[t].uid] # None
        BY <3>1 DEF SessionsEnd, Exists
      <3> QED BY <3>1, <3>2, <3>3 DEF IsKiosk, Steady, Exists
    <2>3. CASE SignsOnNew(t)
      <3>1. job'[t].uid \in Uids
        BY <1>1 DEF Shape, JobsOK, JobOK, Inserting
      <3> QED BY <2>3, <3>1 DEF SignsOnNew
    <2>4. CASE job'[t] = Idle \/ (job'[t].op = "cleanup" /\ job'[t].pc = "drop")
      BY <1>1, <2>4 DEF Idle, Inserting
    <2> QED BY <2>1, <2>2, <2>3, <2>4 DEF JobStep
  <1> QED BY <1>1 DEF Signers

\* Who is about to store a token after a step was about to before it, today.
LEMMA InsertersStay ==
  ASSUME Shape, TimeStep, NEW t \in Threads, JobStep(t), Inserting(t)',
         NEW u \in Uids, Exists(u), ~users[u].isActive, job'[t].uid = u
  PROVE  Inserting(t) /\ job[t].uid = u /\ now' = now
  <1>1. CASE SameJob(t)
    <2>1. Inserting(t) /\ job[t].uid = u
      BY <1>1 DEF SameJob
    <2>2. job[t] # Idle
      BY <2>1 DEF Inserting, Idle
    <2> QED BY <2>1, <2>2, SameDay
  <1>2. CASE Begins(t)
    <2>1. users[u].isActive
      BY <1>2, BeginKinds DEF BeginsWell, Inserting
    <2> QED BY <2>1
  <1>3. CASE job'[t] = Idle \/ (job'[t].op = "cleanup" /\ job'[t].pc = "drop")
    BY <1>3 DEF Idle, Inserting
  <1>4. CASE SignsOnNew(t)
    BY <1>4 DEF SignsOnNew, Exists
  <1> QED BY <1>1, <1>2, <1>3, <1>4 DEF JobStep

LEMMA DeactivatedStep ==
  ASSUME Shape, Shape', PurgeInv, UsersStep, SessionsStep, TimeStep,
         \A t \in Threads : JobStep(t)
  PROVE  DeactivatedEnd'
  <1>0. /\ now \in Nat /\ SessionDays \in Nat /\ RetentionDays \in Nat
        /\ SessionDays < RetentionDays
    BY AccountAssumption DEF Shape, CountsOK
  <1>1. ASSUME NEW u \in Uids, Deactivated(u)'
        PROVE  EndsInTime(u)'
    <2>1. Exists(u) /\ (users'[u] = users[u] \/ Edited(u))
      BY <1>1, RowBefore, InsertedRow DEF Deactivated
    <2>0. Steady(u)
      BY <1>1, <2>1, SteadyBefore DEF Deactivated, Exists
    <2>2. users[u] \in UserRow /\ users[u].isActive \in BOOLEAN
      BY <2>1, ExistingIsRow, UserRowFields DEF Shape
    <2>3. CASE users'[u].deleted = users[u].deleted /\ users'[u].purgeAt = users[u].purgeAt
      <3>1. Deactivated(u)
        BY <1>1, <2>0, <2>1, <2>3 DEF Deactivated
      <3>2. EndsInTime(u)
        BY <3>1 DEF PurgeInv, DeactivatedEnd
      <3>3. ~users'[u].isActive
        <4>1. ASSUME NEW t \in Threads, Enables(t, u) PROVE FALSE
          BY <2>1, <3>1, <4>1 DEF Enables, At, PurgeInv, Toggles, Deactivated
        <4>2. CASE users'[u] = users[u]
          BY <3>2, <4>2 DEF EndsInTime
        <4>3. CASE Edited(u) /\ users'[u].isActive
          BY <1>1, <2>3, <3>2, <4>1, <4>3 DEF Edited, EndsInTime, Deactivated
        <4> QED BY <2>1, <4>2, <4>3
      <3>4. ASSUME NEW r \in sessions', r.user = u PROVE r.until < users'[u].purgeAt
        <4>1. CASE r \in sessions
          BY <2>3, <3>2, <3>4, <4>1 DEF EndsInTime
        <4>2. CASE r \notin sessions
          <5>1. PICK t \in Threads : /\ job[t].pc = "insert" /\ job[t].uid = u
                                     /\ r.until = now + Lifetime(job[t])
            BY <3>4, <4>2 DEF SessionsStep
          <5>2. users[u].purgeAt = now + RetentionDays
            BY <3>2, <5>1 DEF EndsInTime, Inserting
          <5>4. ~job[t].kiosk
            BY <2>0, <2>1, <5>1 DEF PurgeInv, Signers, Inserting
          <5>3. r.until = now + SessionDays
            BY <5>1, <5>4, Lifetimes
          <5> QED BY <1>0, <2>3, <5>2, <5>3
        <4> QED BY <4>1, <4>2
      <3>5. ASSUME NEW t \in Threads, Inserting(t)', job'[t].uid = u
            PROVE  users'[u].purgeAt = now' + RetentionDays
        BY <2>1, <2>3, <3>2, <3>5, InsertersStay DEF EndsInTime
      <3>6. users'[u].purgeAt \in Times
        BY <2>3, <3>2 DEF EndsInTime
      <3> QED BY <3>3, <3>4, <3>5, <3>6 DEF EndsInTime
    <2>4. CASE /\ users'[u] # users[u] /\ users'[u].deleted /\ ~users'[u].isActive
               /\ users'[u].purgeAt = now + RetentionDays
      <3>1. now' = now
        BY <2>4, SameDay
      <3>2. ASSUME NEW r \in sessions', r.user = u PROVE r.until < users'[u].purgeAt
        <4>0. SessionsEnd' /\ r.until \in Nat
          BY SessionsEndStep DEF PurgeInv, Shape, SessionsOK, Stored, Times
        <4>1. r.until <= now + SessionDays
          BY <1>1, <3>1, <3>2, <4>0 DEF SessionsEnd, Deactivated
        <4> QED BY <1>0, <2>4, <4>0, <4>1
      <3>3. users'[u].purgeAt \in Times
        BY <2>4, TimesOK DEF Shape
      <3> QED BY <2>4, <3>1, <3>2, <3>3 DEF EndsInTime
    <2> QED BY <1>1, <2>1, <2>3, <2>4 DEF Edited, Deactivated
  <1> QED BY <1>1 DEF DeactivatedEnd

\* An account that is due for erasure has no session left that a refresh
\* could continue: softDelete keeps the tokens, which lapse before purgeAt.
THEOREM NoSessionOutlivesRetention == Spec => []PurgeableHasNoSession
  <1>1. Init => PurgeInv
    <2> SUFFICES ASSUME Init PROVE PurgeInv
      OBVIOUS
    <2>1. \A t \in Threads : job[t].op = "idle"
      BY DEF Init, Idle
    <2>2. \A u \in Uids : Exists(u) => u = Admin
      BY DEF Init, Exists
    <2>3. Exists(Admin) => ~users[Admin].deleted
      BY AccountAssumption DEF Init, Exists
    <2>4. sessions = {}
      BY DEF Init
    <2>5. \A t \in Threads : ~Inserting(t)
      BY DEF Init, Idle, Inserting
    <2> QED
      BY <2>1, <2>2, <2>3, <2>4, <2>5
      DEF PurgeInv, SessionsEnd, Toggles, Signers, DeactivatedEnd, Deactivated
  <1>2. Shape /\ PurgeInv /\ [Next]_vars => PurgeInv'
    <2> SUFFICES ASSUME Shape, PurgeInv, [Next]_vars PROVE PurgeInv'
      OBVIOUS
    <2>1. Shape' /\ UsersStep /\ SessionsStep /\ TimeStep /\ \A t \in Threads : JobStep(t)
      BY ShapeStep, EveryStepOnUsers, EveryStepOnSessions, EveryStepOnTime, EveryStepOnJobs
    <2> QED BY <2>1, SessionsEndStep, TogglesStep, SignersStep, DeactivatedStep DEF PurgeInv
  <1>3. Shape /\ PurgeInv => PurgeableHasNoSession
    <2> SUFFICES ASSUME Shape, PurgeInv,
                        NEW u \in Uids, Deactivated(u), now >= users[u].purgeAt,
                        NEW r \in sessions, r.user = u
                 PROVE  r.until < now
      BY DEF PurgeableHasNoSession, Deactivated, Steady
    <2>1. r.until < users[u].purgeAt /\ users[u].purgeAt \in Nat /\ r.until \in Nat /\ now \in Nat
      BY DEF PurgeInv, DeactivatedEnd, EndsInTime, Shape, SessionsOK, Stored, Times, CountsOK
    <2> QED BY <2>1
  <1> QED BY <1>1, <1>2, <1>3, ShapeHolds, PTL DEF Spec
=============================================================================
