---------------------------- MODULE AccountProofs ----------------------------
(***************************************************************************)
(* Sessions do not fork and do not rise again, for any number of users,    *)
(* browsers, requests in flight, days and identifiers.  The argument is    *)
(* one of custody: a line is held by at most one row, or by one refresh    *)
(* that deleted its row and has not inserted the next, and a line that was *)
(* revoked by nobody.                                                      *)
(***************************************************************************)
EXTENDS Accounts, TLAPS, FiniteSetTheorems

Ops == {"idle", "login", "refresh", "password", "enable", "disable",
        "removeKiosk", "register", "admin", "sso", "kiosk", "hardDelete", "cleanup"}
Pcs == {"idle", "insert", "respond", "delete", "update", "revoke", "create", "erase", "drop"}
JobRow == [op : Ops, pc : Pcs, uid : Uids \cup {None}, br : Browsers \cup {None},
           tok : Nat, line : Nat, ok : BOOLEAN, inv : Invites \cup {None},
           email : Emails \cup {None}, kiosk : BOOLEAN, batch : SUBSET Uids]
Offer == [email : Emails, kiosk : BOOLEAN, until : Nat, used : BOOLEAN]

\* What the steps below need to know of the types.
Typed ==
  /\ sessions \subseteq [id : Nat, user : Uids \cup {None}, until : Nat, line : Nat]
  /\ invites \in [Invites -> Offer \cup {None}]
  /\ jar \in [Browsers -> Nat \cup {None}]
  /\ job \in [Threads -> JobRow]
  /\ lines \in Nat /\ now \in Nat

Carrying(t) == job[t].op = "refresh" /\ job[t].pc = "insert"

\* Who holds which line.
RowsHold ==
  /\ \A r \in sessions : r.line \in 1..lines
  /\ \A r, s \in sessions : (r.line = s.line \/ r.id = s.id) => r = s
CarriersHold ==
  /\ \A t \in Threads : Carrying(t) => /\ job[t].line \in 1..lines
                                       /\ \A r \in sessions : r.line # job[t].line
  /\ \A t, x \in Threads : (Carrying(t) /\ Carrying(x) /\ job[t].line = job[x].line) => t = x
NobodyHolds ==
  /\ revoked \subseteq 1..lines
  /\ \A r \in sessions : r.line \notin revoked
  /\ \A t \in Threads : Carrying(t) => job[t].line \notin revoked
OnlyRefreshesCarry == \A t \in Threads : job[t].op # "refresh" => job[t].line = 0

Custody == Typed /\ RowsHold /\ CarriersHold /\ NobodyHolds /\ OnlyRefreshesCarry

\* A step after which no thread carries a line that it did not carry before.
TakesNoLine ==
  /\ job' \in [Threads -> JobRow]
  /\ \A t \in Threads :
       /\ job'[t].op # "refresh" => job'[t].line = 0
       /\ (job'[t].op = "refresh" /\ job'[t].pc = "insert")
            => Carrying(t) /\ job'[t].line = job[t].line

\* The tables that say nothing of lines stay well typed.
TypedRest ==
  /\ invites' \in [Invites -> Offer \cup {None}]
  /\ jar' \in [Browsers -> Nat \cup {None}]
  /\ now' \in Nat

----------------------------------------------------------------------------
LEMMA IdleIsRow == Idle \in JobRow /\ Idle.op # "refresh" /\ Idle.line = 0 /\ Idle.pc = "idle"
  BY DEF Idle, JobRow, Ops, Pcs

\* A thread that takes up a job which carries no line.
LEMMA NewJob ==
  ASSUME Custody, NEW t \in Threads, NEW j \in JobRow,
         j.op # "refresh" => j.line = 0, ~(j.op = "refresh" /\ j.pc = "insert"),
         job' = [job EXCEPT ![t] = j]
  PROVE  TakesNoLine
  BY DEF Custody, Typed, OnlyRefreshesCarry, TakesNoLine, Carrying

LEMMA SameJobs ==
  ASSUME Custody, job' = job
  PROVE  TakesNoLine
  BY DEF Custody, Typed, OnlyRefreshesCarry, TakesNoLine, Carrying

LEMMA Finished ==
  ASSUME Custody, NEW t \in Threads, Finish(t)
  PROVE  TakesNoLine
  BY NewJob, IdleIsRow DEF Finish

LEMMA WentTo ==
  ASSUME Custody, NEW t \in Threads, NEW pc \in Pcs \ {"insert"}, GoTo(t, pc)
  PROVE  TakesNoLine
  <1> DEFINE j == [job[t] EXCEPT !.pc = pc]
  <1>1. job[t] \in JobRow
    BY DEF Custody, Typed
  <1>2. j \in JobRow /\ j.op = job[t].op /\ j.line = job[t].line /\ j.pc = pc
    BY <1>1 DEF JobRow
  <1>3. job' = [job EXCEPT ![t] = j]
    BY DEF GoTo
  <1>4. j.op # "refresh" => j.line = 0
    BY <1>2 DEF Custody, OnlyRefreshesCarry
  <1> QED BY <1>2, <1>3, <1>4, NewJob

\* The tables of lines are not touched.
LEMMA Untouched ==
  ASSUME Custody, TakesNoLine, TypedRest, UNCHANGED <<sessions, lines, revoked>>
  PROVE  Custody'
  <1>1. Typed'
    BY DEF Custody, Typed, TakesNoLine, TypedRest
  <1>2. RowsHold'
    BY DEF Custody, RowsHold
  <1>3. CarriersHold'
    BY DEF Custody, CarriersHold, TakesNoLine, Carrying
  <1>4. NobodyHolds'
    BY DEF Custody, NobodyHolds, TakesNoLine, Carrying
  <1>5. OnlyRefreshesCarry'
    BY DEF OnlyRefreshesCarry, TakesNoLine
  <1> QED BY <1>1, <1>2, <1>3, <1>4, <1>5 DEF Custody

\* Rows are deleted and their lines revoked: nobody else holds those.
LEMMA Revoking ==
  ASSUME Custody, TakesNoLine, TypedRest, NEW gone \in SUBSET sessions, Revoke(gone),
         lines' = lines
  PROVE  Custody'
  <1>0. /\ sessions' = sessions \ gone
        /\ revoked' = revoked \cup {r.line : r \in gone}
    BY DEF Revoke
  <1>1. Typed'
    BY <1>0 DEF Custody, Typed, TakesNoLine, TypedRest
  <1>2. RowsHold'
    BY <1>0 DEF Custody, RowsHold
  <1>3. CarriersHold'
    BY <1>0 DEF Custody, CarriersHold, TakesNoLine, Carrying
  <1>4. NobodyHolds'
    <2>1. revoked' \subseteq 1..lines'
      BY <1>0 DEF Custody, RowsHold, NobodyHolds
    <2>2. \A r \in sessions' : r.line \notin revoked'
      BY <1>0 DEF Custody, RowsHold, NobodyHolds
    <2>3. ASSUME NEW t \in Threads, Carrying(t)'
          PROVE  job'[t].line \notin revoked'
      <3>1. Carrying(t) /\ job'[t].line = job[t].line
        BY <2>3 DEF TakesNoLine, Carrying
      <3>2. \A r \in gone : r.line # job[t].line
        BY <3>1 DEF Custody, CarriersHold
      <3> QED BY <1>0, <3>1, <3>2 DEF Custody, NobodyHolds
    <2> QED BY <2>1, <2>2, <2>3 DEF NobodyHolds
  <1>5. OnlyRefreshesCarry'
    BY DEF OnlyRefreshesCarry, TakesNoLine
  <1> QED BY <1>1, <1>2, <1>3, <1>4, <1>5 DEF Custody

LEMMA RestStays ==
  ASSUME Custody, UNCHANGED <<invites, jar, now>>
  PROVE  TypedRest
  BY DEF Custody, Typed, TypedRest

----------------------------------------------------------------------------
LEMMA Started ==
  ASSUME Custody, NEW t \in Threads, NEW j \in JobRow, Start(t, j),
         j.op # "refresh" => j.line = 0, ~(j.op = "refresh" /\ j.pc = "insert"),
         UNCHANGED <<store, jar, now, ghosts>>
  PROVE  Custody'
  <1>1. TakesNoLine
    BY NewJob DEF Start
  <1> QED BY <1>1, RestStays, Untouched DEF store, ghosts

LEMMA SessionBegins ==
  ASSUME Custody, NEW t \in Threads, Session(t)
  PROVE  Custody'
  <1>1. ASSUME NEW b \in Browsers, NEW u \in Uids, LoginRead(t, b, u)
        PROVE  Custody'
    <2> DEFINE j == [Idle EXCEPT !.op = "login", !.pc = "insert", !.uid = u, !.br = b,
                                 !.kiosk = IsKiosk(u)]
    <2>0. IsKiosk(u) \in BOOLEAN
      BY DEF IsKiosk
    <2>1. j \in JobRow /\ j.op = "login" /\ j.line = 0
      BY <2>0 DEF Idle, JobRow, Ops, Pcs
    <2> QED BY <1>1, <2>1, Started DEF LoginRead
  <1>2. ASSUME NEW b \in Browsers, NEW u \in Uids, SsoRead(t, b, u)
        PROVE  Custody'
    <2> DEFINE j == [Idle EXCEPT !.op = "sso", !.pc = "insert", !.uid = u, !.br = b,
                                 !.kiosk = IsKiosk(u)]
    <2>0. IsKiosk(u) \in BOOLEAN
      BY DEF IsKiosk
    <2>1. j \in JobRow /\ j.op = "sso" /\ j.line = 0
      BY <2>0 DEF Idle, JobRow, Ops, Pcs
    <2> QED BY <1>2, <2>1, Started DEF SsoRead
  <1>3. ASSUME NEW b \in Browsers, RefreshRead(t, b)
        PROVE  Custody'
    <2>1. PICK r \in sessions : Start(t,
            [Idle EXCEPT !.op = "refresh", !.pc = "delete", !.uid = r.user,
               !.br = b, !.tok = r.id, !.line = r.line,
               !.kiosk = IsKiosk(r.user), !.ok = r.until >= now /\ users[r.user].isActive])
      BY <1>3 DEF RefreshRead
    <2> DEFINE j == [Idle EXCEPT !.op = "refresh", !.pc = "delete", !.uid = r.user,
               !.br = b, !.tok = r.id, !.line = r.line,
               !.kiosk = IsKiosk(r.user), !.ok = r.until >= now /\ users[r.user].isActive]
    <2>2. r.user \in Uids \cup {None} /\ r.id \in Nat /\ r.line \in Nat
      BY DEF Custody, Typed
    <2>3. (r.until >= now /\ users[r.user].isActive) \in BOOLEAN /\ IsKiosk(r.user) \in BOOLEAN
      BY DEF IsKiosk
    <2>4. j \in JobRow /\ j.op = "refresh" /\ j.pc = "delete"
      BY <2>2, <2>3 DEF Idle, JobRow, Ops, Pcs
    <2> QED BY <1>3, <2>1, <2>4, Started DEF RefreshRead
  <1>4. ASSUME NEW u \in Uids, PasswordRead(t, u)
        PROVE  Custody'
    <2> DEFINE j == [Idle EXCEPT !.op = "password", !.pc = "update", !.uid = u]
    <2>1. j \in JobRow /\ j.op = "password" /\ j.line = 0
      BY DEF Idle, JobRow, Ops, Pcs
    <2> QED BY <1>4, <2>1, Started DEF PasswordRead
  <1>5. ASSUME NEW u \in Uids, KioskRemoveRead(t, u)
        PROVE  Custody'
    <2> DEFINE j == [Idle EXCEPT !.op = "removeKiosk", !.pc = "revoke", !.uid = u]
    <2>1. j \in JobRow /\ j.op = "removeKiosk" /\ j.line = 0
      BY DEF Idle, JobRow, Ops, Pcs
    <2> QED BY <1>5, <2>1, Started DEF KioskRemoveRead
  <1>6. ASSUME NEW u \in Uids, NEW on \in BOOLEAN, ToggleRead(t, u, on)
        PROVE  Custody'
    <2> DEFINE j == [Idle EXCEPT !.op = IF on THEN "enable" ELSE "disable",
                                 !.pc = "update", !.uid = u]
    <2>1. j \in JobRow /\ j.op \in {"enable", "disable"} /\ j.line = 0
      BY DEF Idle, JobRow, Ops, Pcs
    <2> QED BY <1>6, <2>1, Started DEF ToggleRead
  <1> QED BY <1>1, <1>2, <1>3, <1>4, <1>5, <1>6 DEF Session

LEMMA AccountBegins ==
  ASSUME Custody, NEW t \in Threads, Account(t)
  PROVE  Custody'
  <1>1. ASSUME NEW i \in Invites, RegisterRead(t, i)
        PROVE  Custody'
    <2> DEFINE j == [Idle EXCEPT !.op = "register", !.pc = "create", !.inv = i,
                                 !.email = invites[i].email, !.kiosk = invites[i].kiosk]
    <2>1. invites[i].email \in Emails /\ invites[i].kiosk \in BOOLEAN
      BY <1>1 DEF RegisterRead, Custody, Typed, Offer
    <2>2. j \in JobRow /\ j.op = "register" /\ j.line = 0
      BY <2>1 DEF Idle, JobRow, Ops, Pcs
    <2> QED BY <1>1, <2>2, Started DEF RegisterRead
  <1>2. ASSUME NEW op \in {"admin", "sso", "kiosk"}, NEW e \in Emails, NEW k \in BOOLEAN,
               NEW b \in Browsers, CreateRead(t, op, e, k, b)
        PROVE  Custody'
    <2> DEFINE j == [Idle EXCEPT !.op = op, !.pc = "create", !.email = e, !.kiosk = k,
                                 !.br = IF op = "sso" THEN b ELSE None]
    <2>1. j \in JobRow /\ j.op = op /\ j.line = 0
      BY DEF Idle, JobRow, Ops, Pcs
    <2> QED BY <1>2, <2>1, Started DEF CreateRead
  <1>3. ASSUME NEW u \in Uids, HardDeleteRead(t, u)
        PROVE  Custody'
    <2> DEFINE j == [Idle EXCEPT !.op = "hardDelete", !.pc = "erase", !.uid = u]
    <2>1. j \in JobRow /\ j.op = "hardDelete" /\ j.line = 0
      BY DEF Idle, JobRow, Ops, Pcs
    <2> QED BY <1>3, <2>1, Started DEF HardDeleteRead
  <1>4. ASSUME NEW u \in Uids, OwnerDropRead(t, u)
        PROVE  Custody'
    <2> DEFINE j == [Idle EXCEPT !.op = "cleanup", !.pc = "drop", !.batch = {u}]
    <2>1. j \in JobRow /\ j.op = "cleanup" /\ j.line = 0
      BY DEF Idle, JobRow, Ops, Pcs
    <2> QED BY <1>4, <2>1, Started DEF OwnerDropRead
  <1> QED BY <1>1, <1>2, <1>3, <1>4 DEF Account

LEMMA CleanupBegins ==
  ASSUME Custody, NEW t \in Threads, CleanupRead(t)
  PROVE  Custody'
  <1> DEFINE j == [Idle EXCEPT !.op = "cleanup", !.pc = "drop", !.batch = {u \in Uids : Stale(u)}]
  <1>1. j \in JobRow /\ j.op = "cleanup" /\ j.line = 0
    BY DEF Idle, JobRow, Ops, Pcs
  <1>2. TakesNoLine
    BY <1>1, NewJob DEF CleanupRead
  <1> QED BY <1>2, RestStays, Untouched DEF CleanupRead, store, ghosts

LEMMA AtomicKeeps ==
  ASSUME Custody, Atomic
  PROVE  Custody'
  <1>1. ASSUME NEW b \in Browsers, Logout(b)
        PROVE  Custody'
    <2> DEFINE tk == IF CookieSent("logout") THEN jar[b] ELSE None
               gone == {r \in sessions : r.id = tk}
    <2>1. TakesNoLine
      BY <1>1, SameJobs DEF Logout, Serve
    <2>2. TypedRest
      BY <1>1 DEF Logout, Custody, Typed, TypedRest
    <2>3. Revoke(gone) /\ lines' = lines
      BY <1>1 DEF Logout
    <2> QED BY <2>1, <2>2, <2>3, Revoking
  <1>2. ASSUME NEW u \in Uids, SoftDelete(u) \/ Restore(u) \/ UseAccount(u)
        PROVE  Custody'
    <2>1. job' = job /\ UNCHANGED <<sessions, invites, jar, now, lines, revoked>>
      BY <1>2 DEF SoftDelete, Restore, UseAccount, Serve, ghosts
    <2> QED BY <2>1, SameJobs, RestStays, Untouched
  <1>3. ASSUME NEW i \in Invites, NEW e \in Emails, NEW k \in BOOLEAN, CreateInvitation(i, e, k)
        PROVE  Custody'
    <2>1. job' = job /\ UNCHANGED <<sessions, jar, now, lines, revoked>>
      BY <1>3 DEF CreateInvitation, Serve, ghosts
    <2>2. [email |-> e, kiosk |-> k, until |-> now + InviteDays, used |-> FALSE] \in Offer
      BY AccountAssumption DEF Offer, Custody, Typed
    <2>3. TypedRest
      BY <1>3, <2>1, <2>2 DEF CreateInvitation, TypedRest, Custody, Typed
    <2> QED BY <2>1, <2>3, SameJobs, Untouched
  <1>4. ASSUME NEW u \in Uids, NEW e \in Emails \cup {None}, NEW k \in BOOLEAN, NEW hash \in BOOLEAN,
               UpdateUser(u, e, k, hash)
        PROVE  Custody'
    <2>1. job' = job /\ UNCHANGED <<sessions, invites, jar, now, lines, revoked>>
      BY <1>4 DEF UpdateUser, Serve, ghosts
    <2> QED BY <2>1, SameJobs, RestStays, Untouched
  <1> QED BY <1>1, <1>2, <1>3, <1>4 DEF Atomic

----------------------------------------------------------------------------
\* A line passes from a refresh, or from nobody, to a row.
LEMMA InsertSessionKeeps ==
  ASSUME Custody, NEW t \in Threads, InsertSession(t)
  PROVE  Custody'
  <1> DEFINE u == job[t].uid
             line == IF job[t].line = 0 THEN lines + 1 ELSE job[t].line
  <1>1. job[t].pc = "insert" /\ UNCHANGED <<users, invites, jar, now, revoked>>
    BY DEF InsertSession
  <1>2. PICK tk \in Tokens :
          IF tk \in Live \/ ~Exists(u)
          THEN Finish(t) /\ UNCHANGED <<sessions, lines>>
          ELSE /\ lines' = IF job[t].line = 0 THEN lines + 1 ELSE lines
               /\ sessions' = sessions \cup
                    {[id |-> tk, user |-> u, until |-> now + Lifetime(job[t]), line |-> line]}
               /\ job' = [job EXCEPT ![t].pc = "respond", ![t].tok = tk]
    BY DEF InsertSession
  <1>3. TypedRest
    BY <1>1, RestStays
  <1>4. CASE tk \in Live \/ ~Exists(u)
    BY <1>1, <1>2, <1>3, <1>4, Finished, Untouched
  <1>5. CASE ~(tk \in Live \/ ~Exists(u))
    <2> DEFINE row == [id |-> tk, user |-> u, until |-> now + Lifetime(job[t]), line |-> line]
               j == [job[t] EXCEPT !.pc = "respond", !.tok = tk]
    <2>1. job[t] \in JobRow /\ tk \in Nat
      BY DEF Custody, Typed, Tokens
    <2>2. /\ j \in JobRow /\ j.pc = "respond" /\ j.op = job[t].op /\ j.line = job[t].line
          /\ job' = [job EXCEPT ![t] = j]
      BY <1>2, <1>5, <2>1 DEF JobRow, Pcs
    <2>3. TakesNoLine
      BY <2>2, NewJob DEF Custody, OnlyRefreshesCarry
    <2>4. ~Carrying(t)'
      BY <2>2 DEF Carrying, Custody, Typed
    <2>5. /\ row \in [id : Nat, user : Uids \cup {None}, until : Nat, line : Nat]
          /\ row.id = tk /\ row.line = line
      BY <2>1, AccountAssumption DEF Custody, Typed, JobRow, Lifetime
    <2>6. sessions' = sessions \cup {row}
      BY <1>2, <1>5
    <2>7. /\ lines' \in Nat /\ lines <= lines' /\ line \in 1..lines'
          /\ \A r \in sessions : r.line # line
          /\ \A x \in Threads \ {t} : Carrying(x) => job[x].line # line
          /\ line \notin revoked
      <3>1. CASE job[t].line = 0
        BY <1>2, <1>5, <3>1 DEF Custody, Typed, RowsHold, CarriersHold, NobodyHolds
      <3>2. CASE job[t].line # 0
        <4>1. Carrying(t)
          BY <1>1, <3>2 DEF Carrying, Custody, OnlyRefreshesCarry
        <4> QED BY <1>2, <1>5, <3>2, <4>1 DEF Custody, Typed, CarriersHold, NobodyHolds
      <3> QED BY <3>1, <3>2
    <2> HIDE DEF line, row, j, u
    <2>8. Typed'
      BY <1>3, <2>3, <2>5, <2>6, <2>7 DEF Custody, Typed, TakesNoLine, TypedRest
    <2>9. RowsHold'
      <3>1. \A r \in sessions : r.id # tk
        BY <1>5 DEF Live
      <3> QED BY <2>5, <2>6, <2>7, <3>1 DEF Custody, Typed, RowsHold
    <2>10. CarriersHold'
      <3>1. ASSUME NEW x \in Threads, Carrying(x)'
            PROVE  Carrying(x) /\ job'[x].line = job[x].line /\ x # t
        BY <2>3, <2>4, <3>1 DEF TakesNoLine, Carrying
      <3>2. ASSUME NEW x \in Threads, Carrying(x)'
            PROVE  job'[x].line \in 1..lines' /\ \A r \in sessions' : r.line # job'[x].line
        <4>1. job[x].line \in 1..lines /\ \A r \in sessions : r.line # job[x].line
          BY <3>1, <3>2 DEF Custody, CarriersHold
        <4>2. job[x].line # row.line
          BY <2>5, <2>7, <3>1, <3>2
        <4> QED BY <2>6, <2>7, <3>1, <3>2, <4>1, <4>2 DEF Custody, Typed
      <3>3. \A x, y \in Threads :
              (Carrying(x)' /\ Carrying(y)' /\ job'[x].line = job'[y].line) => x = y
        BY <3>1 DEF Custody, CarriersHold
      <3> QED BY <3>2, <3>3 DEF CarriersHold, Carrying
    <2>11. NobodyHolds'
      BY <1>1, <2>3, <2>5, <2>6, <2>7 DEF Custody, Typed, NobodyHolds, TakesNoLine, Carrying
    <2>12. OnlyRefreshesCarry'
      BY <2>3 DEF OnlyRefreshesCarry, TakesNoLine
    <2> QED BY <2>8, <2>9, <2>10, <2>11, <2>12 DEF Custody
  <1> QED BY <1>2, <1>4, <1>5

\* A line passes from a row to the refresh that deletes it.
LEMMA RefreshDeleteKeeps ==
  ASSUME Custody, NEW t \in Threads, RefreshDelete(t)
  PROVE  Custody'
  <1>1. /\ At(t, "refresh", "delete")
        /\ UNCHANGED <<users, invites, jar, now, signed, lines, revoked>>
    BY DEF RefreshDelete
  <1>2. TypedRest
    BY <1>1, RestStays
  <1>3. CASE job[t].tok \notin Live
    BY <1>1, <1>2, <1>3, Finished, Untouched DEF RefreshDelete
  <1>4. CASE job[t].tok \in Live
    <2>1. PICK r \in sessions :
            /\ sessions' = sessions \ {r}
            /\ IF job[t].ok
               THEN job' = [job EXCEPT ![t].pc = "insert", ![t].line = r.line]
               ELSE Finish(t)
      BY <1>4 DEF RefreshDelete
    <2>2. CASE ~job[t].ok
      <3>1. TakesNoLine
        BY <2>1, <2>2, Finished
      <3>2. Typed'
        BY <1>1, <1>2, <2>1, <3>1 DEF Custody, Typed, TakesNoLine, TypedRest
      <3>3. RowsHold' /\ NobodyHolds'
        BY <1>1, <2>1, <3>1 DEF Custody, RowsHold, NobodyHolds, TakesNoLine, Carrying
      <3>4. CarriersHold' /\ OnlyRefreshesCarry'
        BY <1>1, <2>1, <3>1 DEF Custody, CarriersHold, OnlyRefreshesCarry, TakesNoLine, Carrying
      <3> QED BY <3>2, <3>3, <3>4 DEF Custody
    <2>3. CASE job[t].ok
      <3> DEFINE j == [job[t] EXCEPT !.pc = "insert", !.line = r.line]
      <3>1. job[t] \in JobRow /\ r.line \in Nat /\ r.line \in 1..lines
        BY DEF Custody, Typed, RowsHold
      <3>2. /\ j \in JobRow /\ j.op = "refresh" /\ j.line = r.line
            /\ job' = [job EXCEPT ![t] = j]
        BY <1>1, <2>1, <2>3, <3>1 DEF JobRow, Pcs, At
      <3>3. /\ job' \in [Threads -> JobRow]
            /\ job'[t].op = "refresh" /\ job'[t].line = r.line
            /\ \A x \in Threads \ {t} : job'[x] = job[x]
        BY <3>2 DEF Custody, Typed
      <3>4. Typed'
        BY <1>1, <1>2, <2>1, <3>3 DEF Custody, Typed, TypedRest
      <3>5. RowsHold'
        BY <1>1, <2>1 DEF Custody, RowsHold
      <3>6. \A x \in Threads : Carrying(x)' =>
              \/ x = t
              \/ x # t /\ Carrying(x) /\ job'[x].line = job[x].line /\ job[x].line # r.line
        BY <3>3 DEF Carrying, Custody, CarriersHold
      <3>7. \A s \in sessions' : s.line # r.line
        BY <2>1 DEF Custody, RowsHold
      <3>8. CarriersHold'
        <4>1. ASSUME NEW x \in Threads, Carrying(x)'
              PROVE  job'[x].line \in 1..lines' /\ \A s \in sessions' : s.line # job'[x].line
          BY <1>1, <2>1, <3>1, <3>3, <3>6, <3>7, <4>1 DEF Custody, CarriersHold
        <4>2. \A x, y \in Threads :
                (Carrying(x)' /\ Carrying(y)' /\ job'[x].line = job'[y].line) => x = y
          BY <3>3, <3>6 DEF Custody, CarriersHold
        <4> QED BY <4>1, <4>2 DEF CarriersHold, Carrying
      <3>9. NobodyHolds'
        <4>1. \A x \in Threads : Carrying(x)' => job'[x].line \notin revoked
          BY <3>3, <3>6 DEF Custody, NobodyHolds
        <4> QED BY <1>1, <2>1, <4>1 DEF Custody, NobodyHolds, Carrying
      <3>10. OnlyRefreshesCarry'
        BY <3>3 DEF Custody, OnlyRefreshesCarry
      <3> QED BY <3>4, <3>5, <3>8, <3>9, <3>10 DEF Custody
    <2> QED BY <2>2, <2>3
  <1> QED BY <1>3, <1>4

----------------------------------------------------------------------------
LEMMA RespondKeeps ==
  ASSUME Custody, NEW t \in Threads, Respond(t)
  PROVE  Custody'
  <1>1. Finish(t) /\ UNCHANGED <<sessions, invites, now, lines, revoked>>
    BY DEF Respond, store
  <1>2. job[t].tok \in Nat
    BY DEF Custody, Typed, JobRow
  <1>3. jar' = jar \/ jar' = [jar EXCEPT ![job[t].br] = job[t].tok]
    BY DEF Respond
  <1>4. TypedRest
    BY <1>1, <1>2, <1>3 DEF TypedRest, Custody, Typed
  <1> QED BY <1>1, <1>4, Finished, Untouched

LEMMA AccountUpdateKeeps ==
  ASSUME Custody, NEW t \in Threads, AccountUpdate(t)
  PROVE  Custody'
  <1>1. Finish(t) \/ GoTo(t, "revoke")
    BY DEF AccountUpdate
  <1>2. UNCHANGED <<sessions, invites, jar, now, lines, revoked>>
    BY DEF AccountUpdate, ghosts
  <1>3. TakesNoLine
    BY <1>1, Finished, WentTo DEF Pcs
  <1> QED BY <1>2, <1>3, RestStays, Untouched

LEMMA RevokeAllKeeps ==
  ASSUME Custody, NEW t \in Threads, RevokeAll(t)
  PROVE  Custody'
  <1> DEFINE gone == {r \in sessions : r.user = job[t].uid}
  <1>1. Revoke(gone) /\ UNCHANGED <<invites, jar, now, lines>>
    BY DEF RevokeAll
  <1>2. Finish(t) \/ GoTo(t, "delete")
    BY DEF RevokeAll
  <1>3. TakesNoLine
    BY <1>2, Finished, WentTo DEF Pcs
  <1> QED BY <1>1, <1>3, RestStays, Revoking

\* A user that is deleted takes its rows along; one that cannot be stays.
LEMMA DeletionKeeps ==
  ASSUME Custody, TakesNoLine, TypedRest, lines' = lines, NEW u,
         IF CanDelete(u) THEN DeleteUser(u) ELSE UNCHANGED <<users, sessions, revoked, cut>>
  PROVE  Custody'
  <1>1. CASE CanDelete(u)
    <2> DEFINE gone == {r \in sessions : r.user = u}
    <2>1. Revoke(gone)
      BY <1>1 DEF DeleteUser
    <2> QED BY <2>1, Revoking
  <1>2. CASE ~CanDelete(u)
    BY <1>2, Untouched
  <1> QED BY <1>1, <1>2

LEMMA KioskDeleteKeeps ==
  ASSUME Custody, NEW t \in Threads, KioskDelete(t)
  PROVE  Custody'
  <1>1. TakesNoLine
    BY Finished DEF KioskDelete
  <1> QED BY <1>1, RestStays, DeletionKeeps DEF KioskDelete

LEMMA DropUnverifiedKeeps ==
  ASSUME Custody, NEW t \in Threads, DropUnverified(t)
  PROVE  Custody'
  <1>1. /\ At(t, "cleanup", "drop")
        /\ UNCHANGED <<invites, jar, now, lines>>
    BY DEF DropUnverified
  <1>2. PICK u \in job[t].batch :
          /\ IF CanDelete(u) THEN DeleteUser(u) ELSE UNCHANGED <<users, sessions, revoked, cut>>
          /\ Finish(t) \/ job' = [job EXCEPT ![t].batch = @ \ {u}]
    BY DEF DropUnverified
  <1>3. TakesNoLine
    <2>1. CASE Finish(t)
      BY <2>1, Finished
    <2>2. CASE job' = [job EXCEPT ![t].batch = @ \ {u}]
      <3> DEFINE j == [job[t] EXCEPT !.batch = @ \ {u}]
      <3>1. job[t] \in JobRow
        BY DEF Custody, Typed
      <3>2. j \in JobRow /\ j.op = "cleanup" /\ j.line = job[t].line
        BY <1>1, <3>1 DEF JobRow, At
      <3>3. j.line = 0
        BY <1>1, <3>2 DEF Custody, OnlyRefreshesCarry, At
      <3> QED BY <2>2, <3>2, <3>3, NewJob
    <2> QED BY <1>2, <2>1, <2>2
  <1> QED BY <1>1, <1>2, <1>3, RestStays, DeletionKeeps

LEMMA RegisterCreateKeeps ==
  ASSUME Custody, NEW t \in Threads, RegisterCreate(t)
  PROVE  Custody'
  <1> DEFINE i == job[t].inv
  <1>1. Finish(t) /\ UNCHANGED <<sessions, jar, now, lines, revoked>>
    BY DEF RegisterCreate, ghosts
  <1>2. \/ invites' = invites
        \/ invites[i] # None /\ invites' = [invites EXCEPT ![i].used = TRUE]
    BY DEF RegisterCreate
  <1>3. invites' \in [Invites -> Offer \cup {None}]
    <2>1. CASE invites' = invites
      BY <2>1 DEF Custody, Typed
    <2>2. CASE i \in Invites /\ invites[i] # None /\ invites' = [invites EXCEPT ![i].used = TRUE]
      <3>1. invites[i] \in Offer
        BY <2>2 DEF Custody, Typed
      <3>2. [invites[i] EXCEPT !.used = TRUE] \in Offer
        BY <3>1 DEF Offer
      <3> QED BY <2>2, <3>2 DEF Custody, Typed
    <2>3. CASE i \notin Invites /\ invites' = [invites EXCEPT ![i].used = TRUE]
      BY <2>3 DEF Custody, Typed
    <2> QED BY <1>2, <2>1, <2>2, <2>3
  <1>4. TypedRest
    BY <1>1, <1>3 DEF TypedRest, Custody, Typed
  <1> QED BY <1>1, <1>4, Finished, Untouched

LEMMA CreateInsertKeeps ==
  ASSUME Custody, NEW t \in Threads, CreateInsert(t)
  PROVE  Custody'
  <1>1. job[t].op \in {"admin", "sso", "kiosk"} /\ UNCHANGED <<sessions, invites, jar, now, lines, revoked>>
    BY DEF CreateInsert, ghosts
  <1>2. \/ Finish(t)
        \/ \E u \in Uids : job' = [job EXCEPT ![t].pc = "insert", ![t].uid = u]
    BY DEF CreateInsert
  <1>3. TakesNoLine
    <2>1. CASE Finish(t)
      BY <2>1, Finished
    <2>2. ASSUME NEW u \in Uids, job' = [job EXCEPT ![t].pc = "insert", ![t].uid = u]
          PROVE  TakesNoLine
      <3> DEFINE j == [job[t] EXCEPT !.pc = "insert", !.uid = u]
      <3>1. job[t] \in JobRow
        BY DEF Custody, Typed
      <3>2. /\ j \in JobRow /\ j.op = job[t].op /\ j.line = job[t].line
            /\ job' = [job EXCEPT ![t] = j]
        BY <2>2, <3>1 DEF JobRow, Pcs
      <3>3. j.op # "refresh" /\ j.line = 0
        BY <1>1, <3>2 DEF Custody, OnlyRefreshesCarry
      <3> QED BY <3>2, <3>3, NewJob
    <2> QED BY <1>2, <2>1, <2>2
  <1> QED BY <1>1, <1>3, RestStays, Untouched

LEMMA HardDeleteKeeps ==
  ASSUME Custody, NEW t \in Threads, HardDeleteErase(t)
  PROVE  Custody'
  <1>1. Finish(t) /\ UNCHANGED <<sessions, invites, jar, now, lines, revoked>>
    BY DEF HardDeleteErase, ghosts
  <1> QED BY <1>1, RestStays, Finished, Untouched

----------------------------------------------------------------------------
LEMMA CustodyInit == Init => Custody
  <1> SUFFICES ASSUME Init PROVE Custody
    OBVIOUS
  <1>1. Typed
    BY IdleIsRow DEF Init, Typed
  <1>2. \A t \in Threads : job[t] = Idle
    BY DEF Init
  <1>3. RowsHold /\ CarriersHold /\ NobodyHolds /\ OnlyRefreshesCarry
    BY <1>2, IdleIsRow DEF Init, RowsHold, CarriersHold, NobodyHolds, OnlyRefreshesCarry, Carrying
  <1> QED BY <1>1, <1>3 DEF Custody

LEMMA CustodyStep == Custody /\ [Next]_vars => Custody'
  <1> SUFFICES ASSUME Custody, [Next]_vars PROVE Custody'
    OBVIOUS
  <1>1. CASE Atomic
    BY <1>1, AtomicKeeps
  <1>2. CASE Tick
    <2>1. job' = job /\ now' = now + 1 /\ UNCHANGED <<sessions, invites, jar, lines, revoked>>
      BY <1>2 DEF Tick, store, ghosts
    <2>2. TypedRest
      BY <2>1 DEF TypedRest, Custody, Typed
    <2> QED BY <2>1, <2>2, SameJobs, Untouched
  <1>3. ASSUME NEW t \in Threads, Session(t) \/ Account(t) \/ CleanupRead(t)
        PROVE  Custody'
    BY <1>3, SessionBegins, AccountBegins, CleanupBegins
  <1>4. ASSUME NEW t \in Threads, Step(t)
        PROVE  Custody'
    BY <1>4, InsertSessionKeeps, RespondKeeps, RefreshDeleteKeeps, AccountUpdateKeeps,
       RevokeAllKeeps, KioskDeleteKeeps, RegisterCreateKeeps, CreateInsertKeeps,
       HardDeleteKeeps, DropUnverifiedKeeps DEF Step
  <1>5. CASE UNCHANGED vars
    <2>1. job' = job /\ UNCHANGED <<sessions, invites, jar, now, lines, revoked>>
      BY <1>5 DEF vars
    <2> QED BY <2>1, SameJobs, RestStays, Untouched
  <1> QED BY <1>1, <1>2, <1>3, <1>4, <1>5 DEF Next

\* Every line is in the custody of one row, of one refresh or of nobody, and
\* a revoked line of nobody: the deletes and inserts of refresh tokens.
THEOREM SessionsHaveCustody == Spec => []Custody
  BY CustodyInit, CustodyStep, PTL DEF Spec

----------------------------------------------------------------------------
LEMMA CustodyIsSingle == Custody => OneRowPerLine
  <1> SUFFICES ASSUME Custody, NEW l \in 1..lines
               PROVE  Cardinality(RowsOf(l)) + Cardinality(Carriers(l)) <= 1
    BY DEF OneRowPerLine
  <1>1. RowsOf(l) = {} \/ \E r : RowsOf(l) = {r}
    BY DEF Custody, RowsHold, RowsOf
  <1>2. Carriers(l) = {} \/ \E t : Carriers(l) = {t}
    BY DEF Custody, CarriersHold, Carriers, Carrying, At
  <1>3. RowsOf(l) = {} \/ Carriers(l) = {}
    BY DEF Custody, CarriersHold, RowsOf, Carriers, Carrying, At
  <1>4. Cardinality(RowsOf(l)) \in {0, 1} /\ (RowsOf(l) = {} => Cardinality(RowsOf(l)) = 0)
    BY <1>1, FS_EmptySet, FS_Singleton
  <1>5. Cardinality(Carriers(l)) \in {0, 1} /\ (Carriers(l) = {} => Cardinality(Carriers(l)) = 0)
    BY <1>2, FS_EmptySet, FS_Singleton
  <1> HIDE DEF RowsOf, Carriers
  <1> QED BY <1>3, <1>4, <1>5

\* The rows of a session never fork: of all the refreshes that present one
\* token, one deletes its row, and only that one inserts the next.
THEOREM SessionsNeverFork == Spec => []OneRowPerLine
  BY SessionsHaveCustody, CustodyIsSingle, PTL

\* A refresh that was under way when its session was revoked inserts nothing:
\* its delete finds no row and throws.
THEOREM RevocationIsFinal == Spec => []RevokedStaysRevoked
  <1>1. Custody => RevokedStaysRevoked
    BY DEF Custody, NobodyHolds, RevokedStaysRevoked, RowsOf, Carriers, Carrying, At
  <1> QED BY <1>1, SessionsHaveCustody, PTL
=============================================================================
