------------------------------- MODULE OrgMail -------------------------------
(***************************************************************************)
(* The mail server of an organization: its configuration in the database,  *)
(* the transporter made from it that is cached in memory, and the test     *)
(* that marks the configuration verified.                                  *)
(***************************************************************************)
EXTENDS ServiceRequests

CONSTANT Revisions     \* how often a configuration is saved

ConfigRow == [rev : 1..Revisions, verified : BOOLEAN]
ASSUME RevisionsAssumption ==
  Revisions \in Nat /\ Nil \notin 0..Revisions /\ Nil \notin ConfigRow

VARIABLES
  smtp,      \* OrganizationSmtpConfig row: which revision, whether verified
  cached,    \* orgTransporters: the revision its transporter is made from
  saved,     \* revisions saved so far
  tested,    \* revisions whose server took a test mail
  crossing   \* the last save or deletion overlapped another request

orgMail == <<smtp, cached, saved, tested, crossing>>

OrgMailInit ==
  /\ ControlInit
  /\ smtp = Nil /\ cached = Nil /\ saved = 0 /\ tested = {} /\ crossing = FALSE

Writing == \E t \in Threads : At(t, "dropCache")

\* saveOrgSmtp and deleteOrgSmtp: the row, then the cache.
SaveSmtp(t) ==
  /\ saved < Revisions
  /\ Arrive(t, [pc |-> "dropCache"])
  /\ saved' = saved + 1
  /\ smtp' = [rev |-> saved + 1, verified |-> FALSE]
  /\ crossing' = ~Quiet
  /\ UNCHANGED <<cached, tested>>
DeleteSmtp(t) ==
  /\ Arrive(t, [pc |-> "dropCache"])
  /\ smtp' = Nil
  /\ crossing' = ~Quiet
  /\ UNCHANGED <<cached, saved, tested>>
\* Variant that leaves the transporter in the cache.
KeepCache(t) == At(t, "dropCache") /\ Finish(t) /\ UNCHANGED orgMail

DropCache(t) ==
  /\ At(t, "dropCache")
  /\ cached' = Nil
  /\ Finish(t)
  /\ UNCHANGED <<smtp, saved, tested, crossing>>

\* _getTransporter for send or testOrgSmtp: the cached transporter, or the
\* row, whose transporter is cached once it was read; without a row, the
\* global one.
GetTransporter(t, test) ==
  /\ IF cached # Nil
     THEN Arrive(t, [pc |-> "mail", rev |-> cached, test |-> test])
     ELSE Arrive(t, [pc |-> "cache", rev |-> IF smtp = Nil THEN Nil ELSE smtp.rev, test |-> test])
  /\ crossing' = (crossing \/ Writing)
  /\ UNCHANGED <<smtp, cached, saved, tested>>
CacheTransporter(t) ==
  /\ At(t, "cache")
  /\ cached' = IF job[t].rev = Nil THEN cached ELSE job[t].rev
  /\ GoTo(t, [job[t] EXCEPT !.pc = "mail"])
  /\ UNCHANGED <<smtp, saved, tested, crossing>>

\* The server takes the mail or not; a test that succeeds is recorded.
SendMail(t) ==
  /\ At(t, "mail")
  /\ \/ Finish(t) /\ UNCHANGED tested
     \/ /\ job[t].test
        /\ tested' = IF job[t].rev = Nil THEN tested ELSE tested \cup {job[t].rev}
        /\ GoTo(t, [job[t] EXCEPT !.pc = "verified"])
  /\ UNCHANGED <<smtp, cached, saved, crossing>>
MarkVerified(t) ==
  /\ At(t, "verified")
  /\ smtp' = IF smtp = Nil THEN Nil ELSE [smtp EXCEPT !.verified = TRUE]
  /\ Finish(t)
  /\ UNCHANGED <<cached, saved, tested, crossing>>

MailRestart ==
  /\ cached # Nil \/ ~Quiet
  /\ cached' = Nil /\ job' = [t \in Threads |-> Idle]
  /\ UNCHANGED <<smtp, saved, tested, crossing, now, requests>>

OrgMailNext ==
  \/ \E t \in Threads :
       \/ SaveSmtp(t) \/ DeleteSmtp(t) \/ DropCache(t)
       \/ CacheTransporter(t) \/ SendMail(t) \/ MarkVerified(t)
       \/ \E test \in BOOLEAN : GetTransporter(t, test)
  \/ MailRestart
OrgMailSpec == OrgMailInit /\ [][OrgMailNext]_<<orgMail, control>>

----------------------------------------------------------------------------
OrgMailTypeOK ==
  /\ smtp \in ConfigRow \cup {Nil}
  /\ cached \in 1..Revisions \cup {Nil} /\ saved \in 0..Revisions
  /\ tested \subseteq 1..Revisions /\ crossing \in BOOLEAN

\* A configuration shown as verified is one whose own server took a test
\* mail, and mails go out over the configuration that is saved, unless the
\* last save or deletion overlapped another request.
VerifiedWasTested ==
  ~crossing =>
    /\ (smtp # Nil /\ smtp.verified) => smtp.rev \in tested
    /\ (cached # Nil /\ ~Writing) => (smtp # Nil /\ cached = smtp.rev)
=============================================================================
