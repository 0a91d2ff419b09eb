-------------------------- MODULE AccountLifecycle --------------------------
(***************************************************************************)
(* How an account comes and goes: invitations and registration, accounts   *)
(* made by an administrator, by single sign-on and for the kiosk, changes  *)
(* of address and role, deactivation, restoring and erasure, and the job   *)
(* that removes accounts nobody verified.                                  *)
(***************************************************************************)
EXTENDS AccountData

\* createInvitation: refused for an address that has an account; the role is
\* stored as given.
CreateInvitation(i, e, k) ==
  /\ invites[i] = None /\ ~Taken(e) /\ Serve
  /\ invites' = [invites EXCEPT
       ![i] = [email |-> e, kiosk |-> k, until |-> now + InviteDays, used |-> FALSE]]
  /\ UNCHANGED <<users, sessions, jar, now, ghosts>>

\* completeRegistration checks the invitation and the address, hashes the
\* password, then inserts the account and uses up the invitation in one
\* transaction.
RegisterRead(t, i) ==
  /\ invites[i] # None
  /\ ~invites[i].used /\ invites[i].until >= now /\ ~Taken(invites[i].email)
  /\ Start(t, [Idle EXCEPT !.op = "register", !.pc = "create", !.inv = i,
                           !.email = invites[i].email,
                           !.kiosk = invites[i].kiosk])
  /\ UNCHANGED <<store, jar, now, ghosts>>
RegisterCreate(t) ==
  LET i == job[t].inv IN
  /\ At(t, "register", "create")
  /\ \/ /\ invites[i] # None
        /\ \E u \in Uids : InsertUser(u, NewRow(job[t]))
        /\ invites' = [invites EXCEPT ![i].used = TRUE]
     \/ Refused(job[t].email) /\ UNCHANGED <<users, invites>>
  /\ Finish(t)
  /\ UNCHANGED <<sessions, jar, now, ghosts>>

\* UsersService.create and provisionSsoUser look for the address, the kiosk's
\* createAccount for the role; then they insert.  An administrator gives any
\* role, KIOSK too.
CreateRead(t, op, e, k, b) ==
  /\ op = "kiosk" => e = KioskEmail /\ k
  /\ op = "sso" => ~k
  /\ IF op = "kiosk" THEN \A u \in Uids : ~IsKiosk(u) ELSE ~Taken(e)
  /\ Start(t, [Idle EXCEPT !.op = op, !.pc = "create", !.email = e, !.kiosk = k,
                           !.br = IF op = "sso" THEN b ELSE None])
  /\ UNCHANGED <<store, jar, now, ghosts>>
CreateInsert(t) ==
  LET op == job[t].op IN
  /\ op \in {"admin", "sso", "kiosk"} /\ job[t].pc = "create"
  /\ \/ \E u \in Uids :
          /\ InsertUser(u, NewRow(job[t]))
          /\ IF op = "sso"
             THEN job' = [job EXCEPT ![t].pc = "insert", ![t].uid = u]
                  /\ UNCHANGED requests
             ELSE Finish(t)
     \/ Refused(job[t].email) /\ Finish(t) /\ UNCHANGED users
  /\ UNCHANGED <<sessions, invites, jar, now, ghosts>>

\* provisionSsoUser for an address that has an active account.
SsoRead(t, b, u) ==
  /\ Exists(u) /\ users[u].isActive /\ users[u].email # None
  /\ Start(t, [Idle EXCEPT !.op = "sso", !.pc = "insert", !.uid = u, !.br = b,
                           !.kiosk = IsKiosk(u)])
  /\ UNCHANGED <<store, jar, now, ghosts>>

\* UsersService.update: address, role and password as given, in one UPDATE that
\* the unique index on email may refuse.  No refresh token is deleted, and a
\* password given to an account of single sign-on makes it one with a password.
UpdateUser(u, e, k, hash) ==
  /\ Exists(u) /\ Serve
  /\ e = users[u].email \/ (e # None /\ ~Taken(e))
  /\ users' = [users EXCEPT
       ![u].email = e, ![u].kiosk = k, ![u].sso = @ /\ ~hash,
       ![u].edits = @ \cup {c \in {"email"} : e # users[u].email}
                      \cup {c \in {"role"} : k # users[u].kiosk}]
  /\ UNCHANGED <<sessions, invites, jar, now, ghosts>>

----------------------------------------------------------------------------
\* Variant that adds the retention period to a date that contains it.
SoftDeleteTwice(u) ==
  /\ Exists(u) /\ Serve
  /\ users' = [users EXCEPT ![u].isActive = FALSE, ![u].deleted = TRUE,
                            ![u].purgeAt = now + RetentionDays + RetentionDays]
  /\ UNCHANGED <<sessions, invites, jar, now, ghosts>>

SoftDelete(u) ==
  /\ Exists(u) /\ Serve
  /\ users' = [users EXCEPT ![u].isActive = FALSE, ![u].deleted = TRUE,
                            ![u].purgeAt = now + RetentionDays]
  /\ UNCHANGED <<sessions, invites, jar, now, ghosts>>

Restore(u) ==
  /\ Exists(u) /\ Serve
  /\ users' = [users EXCEPT ![u].isActive = TRUE, ![u].deleted = FALSE,
                            ![u].purgeAt = None]
  /\ UNCHANGED <<sessions, invites, jar, now, ghosts>>

\* hardDelete checks the retention period, then blanks the row.
HardDeleteRead(t, u) ==
  /\ Exists(u) /\ users[u].deleted
  /\ users[u].purgeAt # None => now >= users[u].purgeAt
  /\ Start(t, [Idle EXCEPT !.op = "hardDelete", !.pc = "erase", !.uid = u])
  /\ UNCHANGED <<store, jar, now, ghosts>>
HardDeleteErase(t) ==
  LET u == job[t].uid IN
  /\ At(t, "hardDelete", "erase")
  /\ users' = IF Exists(u)
              THEN [users EXCEPT ![u].email = None, ![u].isActive = FALSE]
              ELSE users
  /\ Finish(t)
  /\ UNCHANGED <<sessions, invites, jar, now, ghosts>>

\* A user that has ever reserved or checked in cannot be deleted.
UseAccount(u) ==
  /\ Exists(u) /\ users[u].isActive /\ ~users[u].history /\ Serve
  /\ users' = [users EXCEPT ![u].history = TRUE]
  /\ UNCHANGED <<sessions, invites, jar, now, ghosts>>

----------------------------------------------------------------------------
\* cleanupUnverifiedAccounts reads its candidates, then deletes them one by
\* one; deleteUnverifiedAccount of the owner does it for one account.
Unverified(u) == Exists(u) /\ ~users[u].isActive /\ users[u].verify
\* Variant with the comparison the other way round.
StaleYoung(u) == Unverified(u) /\ users[u].createdAt + VerifyDays > now /\ ~users[u].kiosk

Stale(u) == Unverified(u) /\ users[u].createdAt + VerifyDays < now /\ ~users[u].kiosk

CleanupRead(t) ==
  /\ IsFree(t) /\ {u \in Uids : Stale(u)} # {}
  /\ job' = [job EXCEPT ![t] = [Idle EXCEPT !.op = "cleanup", !.pc = "drop",
                                            !.batch = {u \in Uids : Stale(u)}]]
  /\ UNCHANGED <<store, jar, now, requests, ghosts>>
OwnerDropRead(t, u) ==
  /\ Unverified(u)
  /\ Start(t, [Idle EXCEPT !.op = "cleanup", !.pc = "drop", !.batch = {u}])
  /\ UNCHANGED <<store, jar, now, ghosts>>
DropUnverified(t) ==
  /\ At(t, "cleanup", "drop")
  /\ \E u \in job[t].batch :
       /\ IF CanDelete(u) THEN DeleteUser(u)
                          ELSE UNCHANGED <<users, sessions, revoked, cut>>
       /\ IF job[t].batch = {u} THEN Finish(t)
          ELSE job' = [job EXCEPT ![t].batch = @ \ {u}] /\ UNCHANGED requests
  /\ UNCHANGED <<invites, jar, now, signed, lines>>
=============================================================================
