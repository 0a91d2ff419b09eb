---------------------------- MODULE AuthSessions ----------------------------
(***************************************************************************)
(* Logging in, rotating refresh tokens, logging out, changing a password   *)
(* and switching the kiosk account: the handlers that write refresh        *)
(* tokens.  A refresh token is a JWT dated to the second, so two tokens    *)
(* signed for one user in the same second are one string.                  *)
(***************************************************************************)
EXTENDS AccountData

\* The browser sends the refresh cookie to its own path only.
CookieSent(endpoint) == endpoint = "refresh"

Signings(u) == {k \in 1..Len(signed) : signed[k] = [user |-> u, at |-> now]}
Sign(u, tk) ==
  \/ tk \in Signings(u) /\ UNCHANGED signed
  \/ /\ tk = Len(signed) + 1 /\ tk \in Tokens
     /\ signed' = Append(signed, [user |-> u, at |-> now])

----------------------------------------------------------------------------
\* validateUser: the account is active, has a password, and it matches.
LoginRead(t, b, u) ==
  /\ Exists(u) /\ users[u].isActive /\ ~users[u].sso /\ users[u].email # None
  /\ Start(t, [Idle EXCEPT !.op = "login", !.pc = "insert", !.uid = u, !.br = b,
                           !.kiosk = IsKiosk(u)])
  /\ UNCHANGED <<store, jar, now, ghosts>>

\* login: INSERT of the refresh token, refused when the string is already
\* stored or the user is gone.  Its lifetime follows the role read before.
Lifetime(j) == IF j.kiosk THEN KioskDays ELSE SessionDays
InsertSession(t) ==
  LET u == job[t].uid IN
  /\ job[t].pc = "insert"
  /\ \E tk \in Tokens :
       /\ Sign(u, tk)
       /\ IF tk \in Live \/ ~Exists(u)
          THEN /\ Finish(t)
               /\ cut' = IF job[t].op = "refresh" THEN cut \cup {job[t].br} ELSE cut
               /\ UNCHANGED <<sessions, lines>>
          ELSE LET line == IF job[t].line = 0 THEN lines + 1 ELSE job[t].line IN
               /\ lines' = IF job[t].line = 0 THEN lines + 1 ELSE lines
               /\ sessions' = sessions \cup
                    {[id |-> tk, user |-> u, until |-> now + Lifetime(job[t]),
                      line |-> line]}
               /\ job' = [job EXCEPT ![t].pc = "respond", ![t].tok = tk]
               /\ UNCHANGED <<requests, cut>>
  /\ UNCHANGED <<users, invites, jar, now, revoked>>

\* setAuthCookies on the way back, or a response the browser never gets.
Respond(t) ==
  LET b == job[t].br IN
  /\ job[t].pc = "respond"
  /\ \/ /\ jar' = [jar EXCEPT ![b] = job[t].tok]
        /\ cut' = IF job[t].tok \notin Live THEN cut \cup {b}
                  ELSE IF job[t].op = "refresh" THEN cut ELSE cut \ {b}
     \/ cut' = cut \cup {b} /\ UNCHANGED jar
  /\ Finish(t)
  /\ UNCHANGED <<store, now, signed, lines, revoked>>

----------------------------------------------------------------------------
\* refresh: the row and its user are read, the row deleted, a row inserted.
\* The delete of a row that is already gone throws.
\* Variant that rotates the token of a deactivated account.
RefreshReadAny(t, b) ==
  /\ jar[b] # None
  /\ \E r \in sessions :
       /\ r.id = jar[b]
       /\ Start(t, [Idle EXCEPT !.op = "refresh", !.pc = "delete", !.uid = r.user,
                    !.br = b, !.tok = r.id, !.line = r.line,
                    !.kiosk = IsKiosk(r.user), !.ok = r.until >= now])
  /\ UNCHANGED <<store, jar, now, ghosts>>

RefreshRead(t, b) ==
  LET tk == IF CookieSent("refresh") THEN jar[b] ELSE None IN
  /\ tk # None
  /\ \E r \in sessions :
       /\ r.id = tk
       /\ Start(t, [Idle EXCEPT !.op = "refresh", !.pc = "delete", !.uid = r.user,
                    !.br = b, !.tok = tk, !.line = r.line,
                    !.kiosk = IsKiosk(r.user),
                    !.ok = r.until >= now /\ users[r.user].isActive])
  /\ UNCHANGED <<store, jar, now, ghosts>>

\* Variant with deleteMany, which does not throw when the row is gone.
RefreshDeleteMany(t) ==
  /\ At(t, "refresh", "delete")
  /\ sessions' = {r \in sessions : r.id # job[t].tok}
  /\ IF job[t].ok THEN job' = [job EXCEPT ![t].pc = "insert"] /\ UNCHANGED requests
                  ELSE Finish(t)
  /\ UNCHANGED <<users, invites, jar, now, signed, lines, revoked, cut>>
\* Variant that takes a second use of a token for a theft and ends every
\* session of the user.
RefreshDeleteAll(t) ==
  /\ At(t, "refresh", "delete")
  /\ IF job[t].tok \in Live
     THEN /\ sessions' = {r \in sessions : r.id # job[t].tok}
          /\ IF job[t].ok THEN job' = [job EXCEPT ![t].pc = "insert"] /\ UNCHANGED requests
                          ELSE Finish(t)
     ELSE Finish(t) /\ sessions' = {r \in sessions : r.user # job[t].uid}
  /\ UNCHANGED <<users, invites, jar, now, signed, lines, revoked, cut>>

RefreshDelete(t) ==
  /\ At(t, "refresh", "delete")
  /\ IF job[t].tok \in Live
     THEN \E r \in sessions :
            /\ r.id = job[t].tok
            /\ sessions' = sessions \ {r}
            /\ IF job[t].ok
               THEN /\ job' = [job EXCEPT ![t].pc = "insert", ![t].line = r.line]
                    /\ cut' = cut \cup (Holders(r.id) \ {job[t].br})
                    /\ UNCHANGED requests
               ELSE Finish(t) /\ cut' = cut \cup Holders(r.id)
     ELSE Finish(t) /\ UNCHANGED <<sessions, cut>>
  /\ UNCHANGED <<users, invites, jar, now, signed, lines, revoked>>

\* logout deletes the token the request carries and clears the cookie.
Logout(b) ==
  LET tk == IF CookieSent("logout") THEN jar[b] ELSE None IN
  /\ jar[b] # None /\ Serve
  /\ Revoke({r \in sessions : r.id = tk})
  /\ jar' = [jar EXCEPT ![b] = None]
  /\ UNCHANGED <<users, invites, now, signed, lines>>

----------------------------------------------------------------------------
\* changePassword and the kiosk's resetPassword: the row is read, the new
\* hash stored, in the place of a marker too, then every refresh token of the
\* user deleted.
PasswordRead(t, u) ==
  /\ Exists(u)
  /\ users[u].kiosk \/ (users[u].isActive /\ ~users[u].deleted /\ ~users[u].sso)
  /\ Start(t, [Idle EXCEPT !.op = "password", !.pc = "update", !.uid = u])
  /\ UNCHANGED <<store, jar, now, ghosts>>

\* toggleStatus of a kiosk account: the service takes the first row of that
\* role, and nothing says which one is first.
ToggleRead(t, u, on) ==
  /\ Exists(u) /\ users[u].kiosk
  /\ Start(t, [Idle EXCEPT !.op = IF on THEN "enable" ELSE "disable",
                           !.pc = "update", !.uid = u])
  /\ UNCHANGED <<store, jar, now, ghosts>>

\* The UPDATE throws when the row is gone.
AccountUpdate(t) ==
  LET u == job[t].uid IN
  /\ job[t].op \in {"password", "enable", "disable"} /\ job[t].pc = "update"
  /\ IF Exists(u)
     THEN /\ users' = [users EXCEPT
               ![u] = IF job[t].op = "password"
                      THEN [@ EXCEPT !.sso = FALSE]
                      ELSE [@ EXCEPT !.isActive = (job[t].op = "enable")]]
          /\ IF job[t].op = "enable" THEN Finish(t) ELSE GoTo(t, "revoke")
     ELSE Finish(t) /\ UNCHANGED users
  /\ UNCHANGED <<sessions, invites, jar, now, ghosts>>

RevokeAll(t) ==
  /\ job[t].pc = "revoke"
  /\ Revoke({r \in sessions : r.user = job[t].uid})
  /\ IF job[t].op = "removeKiosk" THEN GoTo(t, "delete") ELSE Finish(t)
  /\ UNCHANGED <<users, invites, jar, now, signed, lines>>

\* deleteAccount of the kiosk: refresh tokens first, then the row.
KioskRemoveRead(t, u) ==
  /\ Exists(u) /\ users[u].kiosk
  /\ Start(t, [Idle EXCEPT !.op = "removeKiosk", !.pc = "revoke", !.uid = u])
  /\ UNCHANGED <<store, jar, now, ghosts>>
KioskDelete(t) ==
  /\ At(t, "removeKiosk", "delete")
  /\ IF CanDelete(job[t].uid)
     THEN DeleteUser(job[t].uid)
     ELSE UNCHANGED <<users, sessions, revoked, cut>>
  /\ Finish(t)
  /\ UNCHANGED <<invites, jar, now, signed, lines>>
=============================================================================
