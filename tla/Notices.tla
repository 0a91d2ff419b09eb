------------------------------- MODULE Notices -------------------------------
(***************************************************************************)
(* Alerts: notices in the application and mails, held back while the same  *)
(* key was used a short time ago, and announcements, which never are.      *)
(***************************************************************************)
EXTENDS ServiceRequests

CONSTANTS
  Keys,            \* dedupeKey
  Recipients,      \* administrators of the organization
  NoticeWindow,    \* dedupeMinutes
  MailWindow,      \* withinMinutes
  Keep             \* age at which cleanup deletes what was read

ASSUME NoticeAssumption ==
  /\ Nil \notin Keys /\ {NoticeWindow, MailWindow, Keep} \subseteq Nat
  /\ NoticeWindow <= Keep

VARIABLES
  notices,    \* InAppNotification rows, oldest first
  mailLog,    \* NotificationLog rows, oldest first
  crossed     \* keys of which two alerts were under way at once

noticed == <<notices, mailLog, crossed>>

NoticesInit ==
  /\ ControlInit
  /\ notices = <<>> /\ mailLog = <<>> /\ crossed = {}

Alerting(k) == \E t \in Threads : job[t] # Idle /\ job[t].key = k
Rows(s) == {s[i] : i \in 1..Len(s)}

\* An alert of the infrastructure scan is one create for all recipients and
\* then a mail; one of the subscription jobs is a create for each recipient.
Alert(t, k, mail) ==
  /\ Arrive(t, [pc |-> "dedupe", key |-> k, mail |-> mail, left |-> {},
                rounds |-> IF mail THEN {Recipients} ELSE {{u} : u \in Recipients}])
  /\ crossed' = IF Alerting(k) THEN crossed \cup {k} ELSE crossed
  /\ UNCHANGED <<notices, mailLog>>
\* announce.
Announce(t) ==
  /\ Arrive(t, [pc |-> "insert", key |-> Nil, mail |-> FALSE, left |-> Recipients,
                rounds |-> {}])
  /\ UNCHANGED noticed

\* What comes after the creates that are left.
Onward(j) == IF j.left # {} THEN j
             ELSE IF j.rounds # {} THEN [j EXCEPT !.pc = "dedupe"]
             ELSE IF j.mail THEN [j EXCEPT !.pc = "mail"] ELSE Idle

\* Variant that counts only what the user has not read yet.
RecentUnread(k) == \E n \in Rows(notices) : n.key = k /\ ~n.read /\ n.at + NoticeWindow >= now

\* create.
Recent(k) == \E n \in Rows(notices) : n.key = k /\ n.at + NoticeWindow >= now

Dedupe(t) ==
  /\ At(t, "dedupe")
  /\ \E r \in job[t].rounds :
       LET rest == [job[t] EXCEPT !.rounds = @ \ {r}] IN
       GoTo(t, IF Recent(job[t].key) THEN Onward(rest)
               ELSE [rest EXCEPT !.pc = "insert", !.left = r])
  /\ UNCHANGED noticed
\* An INSERT that fails is skipped.
InsertNotice(t) ==
  /\ At(t, "insert")
  /\ \E u \in job[t].left :
       /\ \/ notices' = Append(notices, [key |-> job[t].key, user |-> u, at |-> now, read |-> FALSE])
          \/ UNCHANGED notices
       /\ GoTo(t, Onward([job[t] EXCEPT !.left = @ \ {u}]))
  /\ UNCHANGED <<mailLog, crossed>>

\* _isDuplicate, then _send, whose result is logged; the log may fail.
Mailed(k) == \E m \in Rows(mailLog) : m.key = k /\ m.ok /\ m.at + MailWindow >= now
MailCheck(t) ==
  /\ At(t, "mail")
  /\ IF Mailed(job[t].key) THEN Finish(t) ELSE GoTo(t, [job[t] EXCEPT !.pc = "log"])
  /\ UNCHANGED noticed
MailLog(t) ==
  /\ At(t, "log")
  /\ \/ \E ok \in BOOLEAN : mailLog' = Append(mailLog, [key |-> job[t].key, at |-> now, ok |-> ok])
     \/ UNCHANGED mailLog
  /\ Finish(t)
  /\ UNCHANGED <<notices, crossed>>

\* The numbers of I in order.
Rising(I) ==
  {f \in [1..Cardinality(I) -> I] : \A i, j \in DOMAIN f : i < j => f[i] < f[j]}

\* markRead and markAllRead, deleteOne, cleanup.
MarkRead(u) ==
  /\ \E n \in Rows(notices) : n.user = u /\ ~n.read
  /\ Serve
  /\ notices' = [i \in DOMAIN notices |->
       IF notices[i].user = u THEN [notices[i] EXCEPT !.read = TRUE] ELSE notices[i]]
  /\ UNCHANGED <<mailLog, crossed>>
DeleteOne(i) ==
  /\ i \in DOMAIN notices /\ Serve
  /\ notices' = SubSeq(notices, 1, i - 1) \o SubSeq(notices, i + 1, Len(notices))
  /\ UNCHANGED <<mailLog, crossed>>
Cleanup ==
  /\ \E n \in Rows(notices) : n.read /\ n.at + Keep < now
  /\ LET kept == {i \in DOMAIN notices : ~(notices[i].read /\ notices[i].at + Keep < now)} IN
     \E f \in Rising(kept) : notices' = [i \in DOMAIN f |-> notices[f[i]]]
  /\ UNCHANGED <<mailLog, crossed, control>>

NoticesRestart ==
  /\ ~Quiet
  /\ job' = [t \in Threads |-> Idle]
  /\ UNCHANGED <<noticed, now, requests>>
NoticesNext ==
  \/ \E t \in Threads :
       \/ Announce(t) \/ Dedupe(t) \/ InsertNotice(t) \/ MailCheck(t) \/ MailLog(t)
       \/ \E k \in Keys, mail \in BOOLEAN : Alert(t, k, mail)
  \/ \E u \in Recipients : MarkRead(u)
  \/ \E i \in DOMAIN notices : DeleteOne(i)
  \/ Cleanup \/ NoticesRestart
  \/ Pass /\ UNCHANGED noticed
NoticesSpec == NoticesInit /\ [][NoticesNext]_<<noticed, control>>

----------------------------------------------------------------------------
NoticesTypeOK ==
  /\ notices \in Seq([key : Keys \cup {Nil}, user : Recipients, at : 0..MaxTime, read : BOOLEAN])
  /\ mailLog \in Seq([key : Keys, at : 0..MaxTime, ok : BOOLEAN])
  /\ crossed \subseteq Keys

\* However often an alert is raised, interrupted by a restart, read or
\* deleted, the notices of one user and the mails logged as sent are more
\* than a window apart, unless two alerts of the key were under way at once.
AlertsAreSpaced ==
  \A k \in Keys \ crossed :
    /\ \A i, j \in DOMAIN notices :
         (i < j /\ notices[i].key = k /\ notices[j].key = k /\ notices[i].user = notices[j].user)
           => notices[i].at + NoticeWindow < notices[j].at
    /\ \A i, j \in DOMAIN mailLog :
         (i < j /\ mailLog[i].key = k /\ mailLog[j].key = k /\ mailLog[i].ok /\ mailLog[j].ok)
           => mailLog[i].at + MailWindow < mailLog[j].at
=============================================================================
