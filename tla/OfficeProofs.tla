---------------------------- MODULE OfficeProofs ----------------------------
(***************************************************************************)
(* Seven services, for any number of requests: the tokens that make        *)
(* gateways, the client that refreshes its session, the mail server of an  *)
(* organization, the bookings of its rooms and parking spots and their     *)
(* limits, the desks beacons remember, the sessions that wait for a card,  *)
(* and the alerts.                                                         *)
(***************************************************************************)
EXTENDS MCOffice, SequenceTheorems, FiniteSetTheorems, TLAPS

(***************************************************************************)
(* Setup tokens.  Away from the redemptions that were cut, a token is in   *)
(* one of three hands: not redeemed yet, one redemption's, or used up.     *)
(***************************************************************************)
SetupJobs ==
  [pc : {"idle", "createToken"}] \cup [pc : {"createGateway", "markUsed"}, token : TokenIds]
Redeeming(t, k) == job[t].pc \in {"createGateway", "markUsed"} /\ job[t].token = k

SetupTyped ==
  /\ job \in [Threads -> SetupJobs]
  /\ tokens \in [TokenIds -> TokenRow \cup {Nil}]
  /\ made \in [TokenIds -> Nat]
  /\ \A t \in Threads, k \in TokenIds : Redeeming(t, k) => tokens[k] # Nil

OneHand(k) ==
  /\ \A t, x \in Threads : Redeeming(t, k) /\ Redeeming(x, k) => t = x
  /\ \A t \in Threads : Redeeming(t, k) =>
       made[k] = IF job[t].pc = "createGateway" THEN 0 ELSE 1
  /\ (\A t \in Threads : ~Redeeming(t, k)) =>
       made[k] = 0 \/ (made[k] = 1 /\ tokens[k] # Nil /\ tokens[k].used)
SetupInv == SetupTyped /\ \A k \in TokenIds \ cut : OneHand(k)

LEMMA IdleSetup == Idle \in SetupJobs /\ Idle.pc = "idle"
  BY DEF Idle, SetupJobs

\* A step of thread t that redeems nothing and rewrites the tokens without
\* taking the mark of one.
LEMMA TokensKept ==
  ASSUME SetupInv, SetupTyped', NEW t \in Threads,
         job[t].pc \in {"idle", "createToken"}, job'[t].pc \in {"idle", "createToken"},
         \A x \in Threads \ {t} : job'[x] = job[x],
         UNCHANGED <<made, cut>>,
         \A k \in TokenIds : tokens[k] # Nil =>
           tokens'[k] # Nil /\ (tokens[k].used => tokens'[k].used)
  PROVE  SetupInv'
  <1> SUFFICES ASSUME NEW k \in TokenIds \ cut PROVE OneHand(k)'
    BY DEF SetupInv
  <1>1. OneHand(k)
    BY DEF SetupInv
  <1>2. \A x \in Threads : /\ Redeeming(x, k)' <=> Redeeming(x, k)
                           /\ Redeeming(x, k) => job'[x] = job[x]
    BY DEF Redeeming
  <1> QED BY <1>1, <1>2 DEF OneHand, Redeeming

LEMMA TokenRequests ==
  ASSUME SetupInv, NEW t \in Threads, ExpireOld(t) \/ CreateToken(t)
  PROVE  SetupInv'
  <1>0. SetupTyped
    BY DEF SetupInv
  <1>1. CASE ExpireOld(t)
    <2>1. job' = [job EXCEPT ![t] = [pc |-> "createToken"]] /\ job[t] = Idle
      BY <1>1 DEF ExpireOld, Arrive, IsFree
    <2>2. \A k \in TokenIds : /\ tokens'[k] \in TokenRow \cup {Nil}
                              /\ tokens[k] # Nil =>
                                   tokens'[k] # Nil /\ tokens'[k].used = tokens[k].used
      BY <1>0, <1>1, TokenAssumption DEF ExpireOld, SetupTyped, TokenRow
    <2>3. SetupTyped'
      BY <1>0, <1>1, <2>1, <2>2, IdleSetup DEF ExpireOld, SetupTyped, SetupJobs, Redeeming
    <2> QED BY <1>0, <1>1, <2>1, <2>2, <2>3, IdleSetup, TokensKept DEF ExpireOld, SetupTyped
  <1>2. CASE CreateToken(t)
    <2>1. PICK k \in TokenIds :
            tokens[k] = Nil /\ tokens' = [tokens EXCEPT ![k] = [used |-> FALSE, expired |-> FALSE]]
      BY <1>2 DEF CreateToken
    <2>2. job' = [job EXCEPT ![t] = Idle] /\ job[t].pc = "createToken" /\ UNCHANGED <<made, cut>>
      BY <1>2 DEF CreateToken, Finish, GoTo, At
    <2>3. SetupTyped'
      BY <1>0, <2>1, <2>2, IdleSetup, TokenAssumption DEF SetupTyped, TokenRow, Redeeming
    <2> QED BY <1>0, <2>1, <2>2, <2>3, IdleSetup, TokensKept DEF SetupTyped
  <1> QED BY <1>1, <1>2

LEMMA RedeemReadKeeps ==
  ASSUME SetupInv, NEW t \in Threads, NEW k \in TokenIds, RedeemRead(t, k)
  PROVE  SetupInv'
  <1> DEFINE j == [pc |-> "createGateway", token |-> k]
  <1>0. SetupTyped
    BY DEF SetupInv
  <1>1. /\ job[t] = Idle /\ job' = [job EXCEPT ![t] = j] /\ UNCHANGED <<tokens, made>>
        /\ tokens[k] # Nil /\ ~tokens[k].used
        /\ cut' = IF Redeemers(k) = {} THEN cut ELSE cut \cup {k}
    BY DEF RedeemRead, Arrive, IsFree
  <1>2. j \in SetupJobs /\ j.pc = "createGateway" /\ j.token = k
    BY DEF SetupJobs
  <1>3. SetupTyped'
    BY <1>0, <1>1, <1>2 DEF SetupTyped, Redeeming
  <1>4. /\ job'[t] = j /\ ~Redeeming(t, k)
        /\ \A x \in Threads \ {t} : job'[x] = job[x]
    BY <1>0, <1>1, IdleSetup DEF SetupTyped, Redeeming
  <1>5. ASSUME NEW m \in TokenIds \ cut'
        PROVE  OneHand(m)'
    <2>1. OneHand(m)
      BY <1>1, <1>5 DEF SetupInv
    <2>2. CASE m = k
      <3>1. \A x \in Threads : ~Redeeming(x, k)
        BY <1>1, <1>5, <2>2 DEF Redeemers, Redeeming
      <3>2. made[k] = 0
        BY <1>1, <2>1, <2>2, <3>1 DEF OneHand
      <3>3. \A x \in Threads : Redeeming(x, k)' <=> x = t
        BY <1>2, <1>4, <3>1 DEF Redeeming
      <3> QED BY <1>1, <1>2, <1>4, <2>2, <3>2, <3>3 DEF OneHand, Redeeming
    <2>3. CASE m # k
      <3>1. \A x \in Threads : /\ Redeeming(x, m)' <=> Redeeming(x, m)
                               /\ Redeeming(x, m) => job'[x] = job[x]
        BY <1>1, <1>2, <1>4, <2>3, IdleSetup DEF Redeeming
      <3> QED BY <1>1, <2>1, <3>1 DEF OneHand, Redeeming
    <2> QED BY <2>2, <2>3
  <1> QED BY <1>3, <1>5 DEF SetupInv

LEMMA RedeemCreateKeeps ==
  ASSUME SetupInv, NEW t \in Threads, RedeemCreate(t)
  PROVE  SetupInv'
  <1> DEFINE k == job[t].token
             j == [job[t] EXCEPT !.pc = "markUsed"]
  <1>0. SetupTyped
    BY DEF SetupInv
  <1>1. /\ job[t].pc = "createGateway" /\ job' = [job EXCEPT ![t] = j]
        /\ made' = [made EXCEPT ![k] = @ + 1] /\ UNCHANGED <<tokens, cut>>
    BY DEF RedeemCreate, GoTo, At
  <1>2. k \in TokenIds /\ j \in SetupJobs /\ j.pc = "markUsed" /\ j.token = k /\ Redeeming(t, k)
    BY <1>0, <1>1 DEF SetupTyped, SetupJobs, Redeeming
  <1>3. SetupTyped'
    BY <1>0, <1>1, <1>2 DEF SetupTyped, Redeeming
  <1>4. \A x \in Threads, m \in TokenIds : Redeeming(x, m)' <=> Redeeming(x, m)
    BY <1>0, <1>1, <1>2 DEF SetupTyped, Redeeming
  <1>5. job'[t] = j /\ \A x \in Threads \ {t} : job'[x] = job[x]
    BY <1>0, <1>1 DEF SetupTyped
  <1>6. ASSUME NEW m \in TokenIds \ cut'
        PROVE  OneHand(m)'
    <2>1. OneHand(m)
      BY <1>1, <1>6 DEF SetupInv
    <2>2. CASE m = k
      <3>1. made[k] = 0 /\ made'[k] = 1
        BY <1>0, <1>1, <1>2, <2>1, <2>2 DEF OneHand, SetupTyped
      <3>2. \A x \in Threads : Redeeming(x, k) => x = t
        BY <1>2, <2>1, <2>2 DEF OneHand
      <3> QED BY <1>1, <1>2, <1>4, <1>5, <2>2, <3>1, <3>2 DEF OneHand
    <2>3. CASE m # k
      <3>1. made'[m] = made[m]
        BY <1>0, <1>1, <2>3 DEF SetupTyped
      <3>2. \A x \in Threads : Redeeming(x, m) => job'[x] = job[x]
        BY <1>2, <1>5, <2>3 DEF Redeeming
      <3> QED BY <1>1, <1>4, <2>1, <3>1, <3>2 DEF OneHand
    <2> QED BY <2>2, <2>3
  <1> QED BY <1>3, <1>6 DEF SetupInv

LEMMA RedeemMarkKeeps ==
  ASSUME SetupInv, NEW t \in Threads, RedeemMark(t)
  PROVE  SetupInv'
  <1> DEFINE k == job[t].token
  <1>0. SetupTyped
    BY DEF SetupInv
  <1>1. /\ job[t].pc = "markUsed" /\ job' = [job EXCEPT ![t] = Idle]
        /\ tokens' = [tokens EXCEPT ![k].used = TRUE] /\ UNCHANGED <<made, cut>>
    BY DEF RedeemMark, Finish, GoTo, At
  <1>2. k \in TokenIds /\ Redeeming(t, k)
    BY <1>0, <1>1 DEF SetupTyped, SetupJobs, Redeeming
  <1>3. tokens'[k] \in TokenRow /\ tokens'[k].used
    <2>1. tokens[k] \in TokenRow
      BY <1>0, <1>2 DEF SetupTyped
    <2>2. [tokens[k] EXCEPT !.used = TRUE] \in TokenRow /\ [tokens[k] EXCEPT !.used = TRUE].used
      BY <2>1 DEF TokenRow
    <2> QED BY <1>0, <1>1, <1>2, <2>2 DEF SetupTyped
  <1>4. job'[t] = Idle /\ \A x \in Threads \ {t} : job'[x] = job[x]
    BY <1>0, <1>1 DEF SetupTyped
  <1>5. SetupTyped'
    <2>1. \A x \in Threads, m \in TokenIds : Redeeming(x, m)' => Redeeming(x, m)
      BY <1>4, IdleSetup DEF Redeeming
    <2>2. \A m \in TokenIds : /\ tokens'[m] \in TokenRow \cup {Nil}
                              /\ tokens[m] # Nil => tokens'[m] # Nil
      BY <1>0, <1>1, <1>3, TokenAssumption DEF SetupTyped
    <2> QED BY <1>0, <1>1, <2>1, <2>2, IdleSetup DEF SetupTyped
  <1>6. ASSUME NEW m \in TokenIds \ cut'
        PROVE  OneHand(m)'
    <2>1. OneHand(m)
      BY <1>1, <1>6 DEF SetupInv
    <2>2. CASE m = k
      <3>1. made[k] = 1 /\ \A x \in Threads : Redeeming(x, k) => x = t
        BY <1>1, <1>2, <2>1, <2>2 DEF OneHand
      <3>2. \A x \in Threads : ~Redeeming(x, m)'
        BY <1>4, <2>2, <3>1, IdleSetup DEF Redeeming
      <3> QED BY <1>1, <1>3, <2>2, <3>1, <3>2, TokenAssumption DEF OneHand
    <2>3. CASE m # k
      <3>1. \A x \in Threads : /\ Redeeming(x, m)' <=> Redeeming(x, m)
                               /\ Redeeming(x, m) => job'[x] = job[x]
        BY <1>2, <1>4, <2>3, IdleSetup DEF Redeeming
      <3>2. tokens'[m] = tokens[m]
        BY <1>0, <1>1, <2>3 DEF SetupTyped
      <3> QED BY <1>1, <2>1, <3>1, <3>2 DEF OneHand
    <2> QED BY <2>2, <2>3
  <1> QED BY <1>3, <1>5, <1>6 DEF SetupInv

LEMMA ExpireTokenKeeps ==
  ASSUME SetupInv, NEW k \in TokenIds, ExpireToken(k)
  PROVE  SetupInv'
  <1>0. SetupTyped
    BY DEF SetupInv
  <1>1. /\ tokens[k] # Nil /\ UNCHANGED <<job, made, cut>>
        /\ tokens' = [tokens EXCEPT ![k].expired = TRUE]
    BY DEF ExpireToken, Serve
  <1>2. tokens'[k] \in TokenRow /\ tokens'[k].used = tokens[k].used
    <2> DEFINE row == [tokens[k] EXCEPT !.expired = TRUE]
    <2>1. tokens[k] \in TokenRow
      BY <1>0, <1>1 DEF SetupTyped
    <2>2. row \in TokenRow /\ row.used = tokens[k].used
      BY <2>1 DEF TokenRow
    <2>3. tokens'[k] = row
      BY <1>0, <1>1 DEF SetupTyped
    <2> QED BY <2>2, <2>3
  <1>3. \A m \in TokenIds : /\ tokens'[m] \in TokenRow \cup {Nil}
                            /\ tokens[m] # Nil => tokens'[m] # Nil /\ tokens'[m].used = tokens[m].used
    BY <1>0, <1>1, <1>2, TokenAssumption DEF SetupTyped
  <1>4. SetupTyped'
    BY <1>0, <1>1, <1>3 DEF SetupTyped, Redeeming
  <1>5. \A m \in TokenIds \ cut' : OneHand(m)'
    BY <1>1, <1>3 DEF SetupInv, OneHand, Redeeming
  <1> QED BY <1>4, <1>5 DEF SetupInv

LEMMA RestartKeeps ==
  ASSUME SetupInv, SetupRestart
  PROVE  SetupInv'
  <1>0. SetupTyped
    BY DEF SetupInv
  <1>1. /\ job' = [t \in Threads |-> Idle] /\ UNCHANGED <<tokens, made>>
        /\ cut' = cut \cup {k \in TokenIds : Redeemers(k) # {}}
    BY DEF SetupRestart
  <1>2. \A t \in Threads, k \in TokenIds : ~Redeeming(t, k)'
    BY <1>1, IdleSetup DEF Redeeming
  <1>3. SetupTyped'
    BY <1>0, <1>1, <1>2, IdleSetup DEF SetupTyped
  <1>4. ASSUME NEW k \in TokenIds \ cut'
        PROVE  OneHand(k)'
    <2>1. OneHand(k) /\ \A t \in Threads : ~Redeeming(t, k)
      BY <1>1, <1>4 DEF SetupInv, Redeemers, Redeeming
    <2> QED BY <1>1, <1>2, <2>1 DEF OneHand
  <1> QED BY <1>3, <1>4 DEF SetupInv

LEMMA SetupInvStep == SetupInv /\ [SetupNext]_<<setup, control>> => SetupInv'
  <1> SUFFICES ASSUME SetupInv, [SetupNext]_<<setup, control>> PROVE SetupInv'
    OBVIOUS
  <1>1. CASE SetupNext
    BY <1>1, TokenRequests, RedeemReadKeeps, RedeemCreateKeeps, RedeemMarkKeeps,
       ExpireTokenKeeps, RestartKeeps DEF SetupNext
  <1>2. CASE UNCHANGED <<setup, control>>
    <2>1. UNCHANGED <<job, tokens, made, cut>>
      BY <1>2 DEF setup, control
    <2> QED BY <2>1 DEF SetupInv, SetupTyped, OneHand, Redeeming
  <1> QED BY <1>1, <1>2

LEMMA SetupInvInit == SetupInit => SetupInv
  BY IdleSetup DEF SetupInit, ControlInit, SetupInv, SetupTyped, OneHand, Redeeming

\* A token makes at most one gateway, for any number of tokens, installers and
\* requests, unless its redemptions overlapped or one was cut short:
\* redeemToken, and the tokens that createToken and revokeToken expire.
THEOREM OneGatewayPerToken == SetupSpec => []TokenMakesOneGateway
  <1>1. SetupInit => SetupInv
    BY SetupInvInit
  <1>2. SetupInv => TokenMakesOneGateway
    <2> SUFFICES ASSUME SetupInv, NEW k \in TokenIds \ cut PROVE made[k] <= 1
      BY DEF TokenMakesOneGateway
    <2>1. made[k] = 0 \/ made[k] = 1
      BY DEF SetupInv, OneHand
    <2> QED BY <2>1
  <1> QED BY <1>1, <1>2, SetupInvStep, PTL DEF SetupSpec

(***************************************************************************)
(* The client.  One refresh is in flight at a time, and one that starts    *)
(* after a failure starts a cooldown after it.                             *)
(***************************************************************************)
ClientInv ==
  /\ now \in 0..MaxTime /\ flights \in {0, 1} /\ (flights = 1 <=> refreshing = TRUE)
  /\ failures \in Seq(0..MaxTime)
  /\ IF lastFail = Nil THEN failures = <<>>
     ELSE lastFail \in 0..now /\ \A i \in 1..Len(failures) : failures[i] <= lastFail
  /\ (flights = 1 /\ lastFail # Nil) => now - lastFail >= Cooldown
  /\ FailuresAreSpaced

USE ServiceAssumption, CooldownAssumption

LEMMA FailureKeeps == ASSUME ClientInv, RefreshFails PROVE ClientInv'
  <1>1. /\ flights = 1 /\ flights' = 0 /\ refreshing' = FALSE /\ now' = now
        /\ lastFail' = now /\ failures' = Append(failures, now)
    BY DEF RefreshFails, ClientInv
  <1>2. /\ failures \in Seq(0..MaxTime) /\ now \in 0..MaxTime /\ Len(failures) \in Nat
    BY DEF ClientInv
  <1>3. /\ failures' \in Seq(0..MaxTime) /\ Len(failures') = Len(failures) + 1
        /\ failures'[Len(failures) + 1] = now
        /\ \A i \in 1..Len(failures) : failures'[i] = failures[i]
    BY <1>1, <1>2
  <1>4. \A i \in 1..Len(failures) : failures[i] \in 0..MaxTime
    BY <1>2
  <1>5. \A i \in 1..Len(failures) : failures[i] <= now /\ now - failures[i] >= Cooldown
    <2>1. CASE lastFail = Nil
      BY <1>2, <2>1 DEF ClientInv
    <2>2. CASE lastFail # Nil
      BY <1>1, <1>2, <1>4, <2>2 DEF ClientInv
    <2> QED BY <2>1, <2>2
  <1>6. lastFail' # Nil /\ lastFail' \in 0..now'
    BY <1>1, <1>2
  <1>7. ASSUME NEW i \in 1..Len(failures')
        PROVE  failures'[i] <= now
    <2>1. CASE i = Len(failures) + 1
      BY <1>2, <1>3, <2>1
    <2>2. CASE i # Len(failures) + 1
      <3>1. i \in 1..Len(failures)
        BY <1>2, <1>3, <1>7, <2>2
      <3> QED BY <1>3, <1>5, <3>1
    <2> QED BY <2>1, <2>2
  <1>8. FailuresAreSpaced'
    <2> SUFFICES ASSUME NEW i \in 1..Len(failures'), NEW j \in 1..Len(failures'), i < j
                 PROVE  failures'[j] - failures'[i] >= Cooldown
      BY DEF FailuresAreSpaced
    <2>1. i \in 1..Len(failures)
      BY <1>2, <1>3
    <2>2. CASE j = Len(failures) + 1
      BY <1>3, <1>5, <2>1, <2>2
    <2>3. CASE j \in 1..Len(failures)
      BY <1>3, <2>1, <2>3 DEF ClientInv, FailuresAreSpaced
    <2>4. j = Len(failures) + 1 \/ j \in 1..Len(failures)
      <3>1. j \in 1..(Len(failures) + 1)
        BY <1>3
      <3> QED BY <1>2, <3>1
    <2> QED BY <2>2, <2>3, <2>4
  <1> QED BY <1>1, <1>2, <1>3, <1>6, <1>7, <1>8 DEF ClientInv

LEMMA ClientInvStep == ClientInv /\ [ClientNext]_<<client, control>> => ClientInv'
  <1> SUFFICES ASSUME ClientInv, [ClientNext]_<<client, control>> PROVE ClientInv'
    OBVIOUS
  <1>1. ASSUME NEW t \in Threads, TryRefresh(t) PROVE ClientInv'
    <2>1. \/ UNCHANGED <<now, client>>
          \/ /\ ~refreshing /\ (lastFail # Nil => now - lastFail >= Cooldown)
             /\ refreshing' = TRUE /\ flights' = flights + 1
             /\ UNCHANGED <<now, lastFail, failures>>
      BY <1>1 DEF TryRefresh, GoTo
    <2> QED BY <2>1 DEF ClientInv, client, FailuresAreSpaced
  <1>2. CASE RefreshOk
    <2>1. flights' = 0 /\ refreshing' = FALSE /\ lastFail' = Nil /\ failures' = <<>> /\ now' = now
      BY <1>2 DEF RefreshOk, ClientInv
    <2>2. FailuresAreSpaced' /\ failures' \in Seq(0..MaxTime)
      BY <2>1 DEF FailuresAreSpaced
    <2> QED BY <2>1, <2>2 DEF ClientInv
  <1>3. CASE RefreshFails
    BY <1>3, FailureKeeps
  <1>4. CASE ClientTick
    <2>1. now < MaxTime /\ now' = now + 1 /\ UNCHANGED client
      BY <1>4 DEF ClientTick
    <2> QED BY <2>1 DEF ClientInv, client, FailuresAreSpaced
  <1>5. CASE UNCHANGED <<now, refreshing, flights, lastFail, failures>>
    BY <1>5 DEF ClientInv, FailuresAreSpaced
  <1>6. ASSUME NEW t \in Threads, Call(t) \/ Answer(t) \/ ToLogin(t) PROVE ClientInv'
    BY <1>5, <1>6 DEF Call, Answer, ToLogin, Arrive, Finish, GoTo, client
  <1>7. CASE TokenExpires \/ Login \/ UNCHANGED <<client, control>>
    BY <1>5, <1>7 DEF TokenExpires, Login, Serve, client, control
  <1> QED BY <1>1, <1>2, <1>3, <1>4, <1>6, <1>7 DEF ClientNext, ClientStep

LEMMA ClientInvInit == ClientInit => ClientInv
  BY DEF ClientInit, ControlInit, ClientInv, FailuresAreSpaced

\* Failed refreshes of one tab are a cooldown apart, for any cooldown and any
\* number of calls refused at once: _refreshPromise and _REFRESH_TS_KEY.
THEOREM RefreshesAreSpaced == ClientSpec => []FailuresAreSpaced
  <1>1. ClientInit => ClientInv
    BY ClientInvInit
  <1>2. ClientInv => FailuresAreSpaced
    BY DEF ClientInv
  <1> QED BY <1>1, <1>2, ClientInvStep, PTL DEF ClientSpec

(***************************************************************************)
(* The mail server.  Unless requests crossed, a save or a deletion runs    *)
(* alone until the cache is dropped, and afterwards every request works    *)
(* with the saved configuration.                                           *)
(***************************************************************************)
MailJobs ==
  [pc : {"idle", "dropCache"}]
  \cup [pc : {"cache", "mail", "verified"}, rev : 1..Revisions \cup {Nil}, test : BOOLEAN]
Mailing(t) == job[t].pc \in {"cache", "mail", "verified"}
SavedRev == IF smtp = Nil THEN Nil ELSE smtp.rev

MailTyped ==
  /\ job \in [Threads -> MailJobs]
  /\ smtp \in ConfigRow \cup {Nil}
  /\ cached \in 1..Revisions \cup {Nil} /\ saved \in 0..Revisions
  /\ tested \subseteq 1..Revisions

InStep ==
  /\ \A t, x \in Threads : At(t, "dropCache") /\ job[x] # Idle => t = x
  /\ ~Writing => cached \in {Nil, SavedRev}
  /\ \A t \in Threads : Mailing(t) => job[t].rev = SavedRev
  /\ \A t \in Threads : At(t, "verified") /\ job[t].rev # Nil => job[t].rev \in tested
  /\ (smtp # Nil /\ smtp.verified) => smtp.rev \in tested

MailInv == MailTyped /\ (~crossing => InStep)

USE RevisionsAssumption

LEMMA IdleMail == Idle \in MailJobs /\ Idle.pc = "idle"
  BY DEF Idle, MailJobs

LEMMA WriteKeeps ==
  ASSUME MailInv, NEW t \in Threads, SaveSmtp(t) \/ DeleteSmtp(t)
  PROVE  MailInv'
  <1> DEFINE j == [pc |-> "dropCache"]
  <1>0. MailTyped
    BY DEF MailInv
  <1>1. /\ job[t] = Idle /\ job' = [job EXCEPT ![t] = j] /\ UNCHANGED <<cached, tested>>
        /\ crossing' = ~Quiet
        /\ \/ smtp' = Nil /\ saved' = saved
           \/ /\ saved < Revisions /\ saved' = saved + 1
              /\ smtp' = [rev |-> saved + 1, verified |-> FALSE]
    BY DEF SaveSmtp, DeleteSmtp, Arrive, IsFree
  <1>2. j \in MailJobs /\ j.pc = "dropCache"
    BY DEF MailJobs
  <1>3. /\ smtp' \in ConfigRow \cup {Nil} /\ saved' \in 0..Revisions
        /\ smtp' # Nil => ~smtp'.verified
    <2>1. saved \in 0..Revisions
      BY <1>0 DEF MailTyped
    <2>2. CASE smtp' = Nil /\ saved' = saved
      BY <2>1, <2>2
    <2>3. CASE saved < Revisions /\ saved' = saved + 1 /\ smtp' = [rev |-> saved + 1, verified |-> FALSE]
      <3>1. saved + 1 \in 1..Revisions
        BY <2>1, <2>3
      <3> QED BY <2>1, <2>3, <3>1 DEF ConfigRow
    <2> QED BY <1>1, <2>2, <2>3
  <1>4. MailTyped'
    BY <1>0, <1>1, <1>2, <1>3 DEF MailTyped
  <1>5. job'[t] = j /\ \A x \in Threads \ {t} : job'[x] = job[x]
    BY <1>0, <1>1 DEF MailTyped
  <1>6. ASSUME ~crossing' PROVE InStep'
    <2>1. \A x \in Threads \ {t} : job'[x] = Idle
      BY <1>1, <1>5, <1>6 DEF Quiet, IsFree
    <2>2. Writing'
      BY <1>2, <1>5 DEF Writing, At
    <2>3. \A x \in Threads : ~Mailing(x)' /\ (At(x, "dropCache")' => x = t) /\ ~At(x, "verified")'
      BY <1>2, <1>5, <2>1, IdleMail DEF Mailing, At
    <2> QED BY <1>3, <2>1, <2>2, <2>3 DEF InStep
  <1> QED BY <1>4, <1>6 DEF MailInv

LEMMA DropCacheKeeps ==
  ASSUME MailInv, NEW t \in Threads, DropCache(t)
  PROVE  MailInv'
  <1>0. MailTyped
    BY DEF MailInv
  <1>1. /\ At(t, "dropCache") /\ job' = [job EXCEPT ![t] = Idle] /\ cached' = Nil
        /\ UNCHANGED <<smtp, saved, tested, crossing>>
    BY DEF DropCache, Finish, GoTo
  <1>2. MailTyped'
    BY <1>0, <1>1, IdleMail DEF MailTyped
  <1>3. job'[t] = Idle /\ \A x \in Threads \ {t} : job'[x] = job[x]
    BY <1>0, <1>1 DEF MailTyped
  <1>4. ASSUME ~crossing' PROVE InStep'
    <2>1. InStep
      BY <1>1, <1>4 DEF MailInv
    <2>2. \A x \in Threads : job'[x] = Idle
      BY <1>1, <1>3, <2>1 DEF InStep
    <2> QED BY <1>1, <2>1, <2>2, IdleMail DEF InStep, Mailing, At
  <1> QED BY <1>2, <1>4 DEF MailInv

LEMMA GetTransporterKeeps ==
  ASSUME MailInv, NEW t \in Threads, NEW test \in BOOLEAN, GetTransporter(t, test)
  PROVE  MailInv'
  <1>0. MailTyped
    BY DEF MailInv
  <1>1. PICK j \in MailJobs :
          /\ job[t] = Idle /\ job' = [job EXCEPT ![t] = j] /\ j.pc \in {"cache", "mail"}
          /\ (j.rev = cached /\ cached # Nil) \/ j.rev = SavedRev
    <2>1. CASE cached # Nil
      <3> DEFINE j == [pc |-> "mail", rev |-> cached, test |-> test]
      <3>1. j \in MailJobs /\ j.pc = "mail" /\ j.rev = cached
        BY <1>0 DEF MailTyped, MailJobs
      <3> QED BY <2>1, <3>1 DEF GetTransporter, Arrive, IsFree
    <2>2. CASE cached = Nil
      <3> DEFINE j == [pc |-> "cache", rev |-> SavedRev, test |-> test]
      <3>1. SavedRev \in 1..Revisions \cup {Nil}
        BY <1>0 DEF MailTyped, SavedRev, ConfigRow
      <3>2. j \in MailJobs /\ j.pc = "cache" /\ j.rev = SavedRev
        BY <3>1 DEF MailJobs
      <3> QED BY <2>2, <3>2 DEF GetTransporter, Arrive, IsFree, SavedRev
    <2> QED BY <2>1, <2>2
  <1>2. crossing' = (crossing \/ Writing) /\ UNCHANGED <<smtp, cached, saved, tested>>
    BY DEF GetTransporter
  <1>3. MailTyped'
    BY <1>0, <1>1, <1>2 DEF MailTyped
  <1>4. job'[t] = j /\ \A x \in Threads \ {t} : job'[x] = job[x]
    BY <1>0, <1>1 DEF MailTyped
  <1>5. ASSUME ~crossing' PROVE InStep'
    <2>1. InStep /\ ~Writing
      BY <1>2, <1>5 DEF MailInv
    <2>2. j.rev = SavedRev
      BY <1>1, <2>1 DEF InStep
    <2>3. \A x \in Threads : ~At(x, "dropCache")'
      BY <1>1, <1>4, <2>1 DEF Writing, At
    <2>4. \A x \in Threads : Mailing(x)' => job'[x].rev = SavedRev
      BY <1>4, <2>1, <2>2 DEF InStep, Mailing
    <2>5. \A x \in Threads : At(x, "verified")' => At(x, "verified") /\ job'[x] = job[x]
      BY <1>1, <1>4 DEF At
    <2> QED BY <1>2, <2>1, <2>3, <2>4, <2>5 DEF InStep, SavedRev, At
  <1> QED BY <1>3, <1>5 DEF MailInv

LEMMA CacheTransporterKeeps ==
  ASSUME MailInv, NEW t \in Threads, CacheTransporter(t)
  PROVE  MailInv'
  <1> DEFINE j == [job[t] EXCEPT !.pc = "mail"]
  <1>0. MailTyped
    BY DEF MailInv
  <1>1. /\ At(t, "cache") /\ job' = [job EXCEPT ![t] = j]
        /\ cached' = IF job[t].rev = Nil THEN cached ELSE job[t].rev
        /\ UNCHANGED <<smtp, saved, tested, crossing>>
    BY DEF CacheTransporter, GoTo
  <1>2. j \in MailJobs /\ j.pc = "mail" /\ j.rev = job[t].rev /\ job[t].rev \in 1..Revisions \cup {Nil}
    BY <1>0, <1>1 DEF MailTyped, MailJobs, At
  <1>3. MailTyped'
    BY <1>0, <1>1, <1>2 DEF MailTyped
  <1>4. job'[t] = j /\ \A x \in Threads \ {t} : job'[x] = job[x]
    BY <1>0, <1>1 DEF MailTyped
  <1>5. ASSUME ~crossing' PROVE InStep'
    <2>1. InStep /\ job[t].rev = SavedRev /\ job[t] # Idle
      BY <1>1, <1>5, IdleMail DEF MailInv, InStep, Mailing, At
    <2>2. \A x \in Threads : ~At(x, "dropCache") /\ ~At(x, "dropCache")'
      BY <1>1, <1>2, <1>4, <2>1 DEF InStep, At
    <2>3. \A x \in Threads : Mailing(x)' => job'[x].rev = SavedRev
      BY <1>2, <1>4, <2>1 DEF InStep, Mailing
    <2>4. \A x \in Threads : At(x, "verified")' => At(x, "verified") /\ job'[x] = job[x]
      BY <1>2, <1>4 DEF At
    <2>5. cached' \in {Nil, SavedRev}
      BY <1>1, <2>1, <2>2 DEF InStep, Writing
    <2> QED BY <1>1, <2>1, <2>2, <2>3, <2>4, <2>5 DEF InStep, SavedRev, At
  <1> QED BY <1>3, <1>5 DEF MailInv

LEMMA SendMailKeeps ==
  ASSUME MailInv, NEW t \in Threads, SendMail(t)
  PROVE  MailInv'
  <1>0. MailTyped
    BY DEF MailInv
  <1>1. At(t, "mail") /\ UNCHANGED <<smtp, cached, saved, crossing>>
    BY DEF SendMail
  <1>2. job[t] \in MailJobs /\ job[t].rev \in 1..Revisions \cup {Nil}
    BY <1>0, <1>1 DEF MailTyped, MailJobs, At
  <1>3. PICK j \in MailJobs :
          /\ job' = [job EXCEPT ![t] = j] /\ j.pc \in {"idle", "verified"}
          /\ tested \subseteq tested' /\ tested' \subseteq 1..Revisions
          /\ j.pc = "verified" => j.rev = job[t].rev /\ (j.rev # Nil => j.rev \in tested')
    <2>1. CASE Finish(t) /\ UNCHANGED tested
      BY <1>0, <2>1, IdleMail DEF Finish, GoTo, MailTyped
    <2>2. CASE ~(Finish(t) /\ UNCHANGED tested)
      <3> DEFINE j == [job[t] EXCEPT !.pc = "verified"]
      <3>1. /\ tested' = IF job[t].rev = Nil THEN tested ELSE tested \cup {job[t].rev}
            /\ job' = [job EXCEPT ![t] = j]
        BY <2>2 DEF SendMail, GoTo
      <3>2. j \in MailJobs /\ j.pc = "verified" /\ j.rev = job[t].rev
        BY <1>1, <1>2 DEF MailJobs, At
      <3>3. /\ tested \subseteq tested' /\ tested' \subseteq 1..Revisions
            /\ job[t].rev # Nil => job[t].rev \in tested'
        BY <1>0, <1>2, <3>1 DEF MailTyped
      <3> HIDE DEF j
      <3> QED BY <3>1, <3>2, <3>3
    <2> QED BY <2>1, <2>2
  <1>4. MailTyped'
    BY <1>0, <1>1, <1>3 DEF MailTyped
  <1>5. job'[t] = j /\ \A x \in Threads \ {t} : job'[x] = job[x]
    BY <1>0, <1>3 DEF MailTyped
  <1>6. ASSUME ~crossing' PROVE InStep'
    <2>1. InStep /\ job[t].rev = SavedRev /\ job[t] # Idle
      BY <1>1, <1>6, IdleMail DEF MailInv, InStep, Mailing, At
    <2>2. \A x \in Threads : ~At(x, "dropCache") /\ ~At(x, "dropCache")'
      BY <1>1, <1>3, <1>5, <2>1 DEF InStep, At
    <2>3. \A x \in Threads : Mailing(x)' => job'[x].rev = SavedRev
      BY <1>3, <1>5, <2>1 DEF InStep, Mailing
    <2>4. \A x \in Threads : At(x, "verified")' /\ job'[x].rev # Nil => job'[x].rev \in tested'
      BY <1>3, <1>5, <2>1 DEF InStep, At
    <2> QED BY <1>1, <1>3, <2>1, <2>2, <2>3, <2>4 DEF InStep, SavedRev, At, Writing
  <1> QED BY <1>4, <1>6 DEF MailInv

LEMMA MarkVerifiedKeeps ==
  ASSUME MailInv, NEW t \in Threads, MarkVerified(t)
  PROVE  MailInv'
  <1>0. MailTyped
    BY DEF MailInv
  <1>1. /\ At(t, "verified") /\ job' = [job EXCEPT ![t] = Idle]
        /\ smtp' = IF smtp = Nil THEN Nil ELSE [smtp EXCEPT !.verified = TRUE]
        /\ UNCHANGED <<cached, saved, tested, crossing>>
    BY DEF MarkVerified, Finish, GoTo
  <1>2. /\ smtp' \in ConfigRow \cup {Nil} /\ SavedRev' = SavedRev
        /\ smtp' # Nil => smtp # Nil /\ smtp'.rev = smtp.rev
    BY <1>0, <1>1 DEF MailTyped, ConfigRow, SavedRev
  <1>3. MailTyped'
    BY <1>0, <1>1, <1>2, IdleMail DEF MailTyped
  <1>4. job'[t] = Idle /\ \A x \in Threads \ {t} : job'[x] = job[x]
    BY <1>0, <1>1 DEF MailTyped
  <1>5. ASSUME ~crossing' PROVE InStep'
    <2>1. InStep /\ job[t].rev = SavedRev /\ job[t] # Idle
      BY <1>1, <1>5, IdleMail DEF MailInv, InStep, Mailing, At
    <2>2. \A x \in Threads : ~At(x, "dropCache") /\ ~At(x, "dropCache")'
      BY <1>1, <1>4, <2>1, IdleMail DEF InStep, At
    <2>3. \A x \in Threads : /\ Mailing(x)' => Mailing(x) /\ job'[x] = job[x]
                             /\ At(x, "verified")' => At(x, "verified") /\ job'[x] = job[x]
      BY <1>4, IdleMail DEF Mailing, At
    <2>4. smtp' # Nil => smtp'.rev \in tested
      <3> SUFFICES ASSUME smtp' # Nil PROVE smtp.rev \in tested
        BY <1>2
      <3>1. smtp # Nil /\ smtp.rev \in 1..Revisions
        BY <1>0, <1>2 DEF MailTyped, ConfigRow
      <3> QED BY <1>1, <2>1, <3>1 DEF InStep, SavedRev
    <2>5. cached' \in {Nil, SavedRev}
      BY <1>1, <2>1, <2>2 DEF InStep, Writing
    <2>6. \A x \in Threads : /\ Mailing(x)' => job'[x].rev = SavedRev
                             /\ At(x, "verified")' /\ job'[x].rev # Nil => job'[x].rev \in tested
      BY <2>1, <2>3 DEF InStep
    <2> QED BY <1>1, <1>2, <2>2, <2>4, <2>5, <2>6 DEF InStep
  <1> QED BY <1>3, <1>5 DEF MailInv

LEMMA MailInvStep == MailInv /\ [OrgMailNext]_<<orgMail, control>> => MailInv'
  <1> SUFFICES ASSUME MailInv, [OrgMailNext]_<<orgMail, control>> PROVE MailInv'
    OBVIOUS
  <1>1. CASE MailRestart
    <2>1. /\ job' = [t \in Threads |-> Idle] /\ cached' = Nil
          /\ UNCHANGED <<smtp, saved, tested, crossing>>
      BY <1>1 DEF MailRestart
    <2>2. MailTyped'
      BY <2>1, IdleMail DEF MailInv, MailTyped
    <2>3. InStep => InStep'
      BY <2>1, IdleMail DEF InStep, Mailing, At
    <2> QED BY <2>1, <2>2, <2>3 DEF MailInv
  <1>2. CASE UNCHANGED <<orgMail, control>>
    BY <1>2 DEF orgMail, control, MailInv, MailTyped, InStep, SavedRev, Writing, Mailing, At
  <1> QED BY <1>1, <1>2, WriteKeeps, DropCacheKeeps, GetTransporterKeeps, CacheTransporterKeeps,
             SendMailKeeps, MarkVerifiedKeeps DEF OrgMailNext

LEMMA MailInvInit == OrgMailInit => MailInv
  BY IdleMail DEF OrgMailInit, ControlInit, MailInv, MailTyped, InStep, Mailing, At

\* A configuration is shown verified only if its own server took a test mail,
\* and mail goes out over the saved one, unless the last save crossed another
\* request: testOrgSmtp, _getTransporter and what saveOrgSmtp drops.
THEOREM VerifiedMeansTested == OrgMailSpec => []VerifiedWasTested
  <1>1. OrgMailInit => MailInv
    BY MailInvInit
  <1>2. MailInv => VerifiedWasTested
    BY DEF MailInv, InStep, SavedRev, VerifiedWasTested
  <1> QED BY <1>1, <1>2, MailInvStep, PTL DEF OrgMailSpec

(***************************************************************************)
(* Bookings.  What a conflict check had in front of it never clashes       *)
(* later: rows keep their spot and times and are only ever cancelled.      *)
(***************************************************************************)
BookingJob == [pc : {"week", "block", "clash", "insert"}, spot : Spots, user : Drivers,
               slot : Slot, saw : SUBSET BookIds]
ScanJob == [pc : {"scan"}, book : BookIds]
OtherJob == [pc : {"idle"}]
  \cup [pc : {"insertBlock"}, spot : Spots \cup {Nil}, grouped : BOOLEAN, slot : Slot]
  \cup [pc : {"remove"}, spot : Spots \cup {Nil}]

ParkingTyped ==
  /\ job \in [Threads -> BookingJob \cup ScanJob \cup OtherJob]
  /\ bookings \in [BookIds -> BookingRow \cup {Nil}]

\* No booking in saw takes the spot in the slot.
Clear(saw, s, slot) ==
  \A c \in saw :
    /\ bookings[c] # Nil
    /\ ~(/\ bookings[c].status = "CONFIRMED" /\ bookings[c].spot = s
         /\ Clash(bookings[c].slot, slot))
RowClear(b) == bookings[b] # Nil => Clear(bookings[b].saw, bookings[b].spot, bookings[b].slot)
JobClear(t) == At(t, "insert") => Clear(job[t].saw, job[t].spot, job[t].slot)
ScanSafe(t) == At(t, "scan") => bookings[job[t].book] # Nil
SpotsInv ==
  /\ ParkingTyped
  /\ \A b \in BookIds : RowClear(b)
  /\ \A t \in Threads : JobClear(t) /\ ScanSafe(t)

\* What a step may do to a row that is there.
RowKept(b) ==
  bookings[b] # Nil =>
    /\ bookings'[b] # Nil
    /\ bookings'[b].spot = bookings[b].spot /\ bookings'[b].slot = bookings[b].slot
    /\ bookings'[b].saw = bookings[b].saw
    /\ bookings'[b].status = "CONFIRMED" => bookings[b].status = "CONFIRMED"

LEMMA JobKinds ==
  ASSUME ParkingTyped, NEW t \in Threads
  PROVE  /\ job[t].pc \in {"week", "block", "clash", "insert"} => job[t] \in BookingJob
         /\ job[t].pc = "scan" => job[t] \in ScanJob
         /\ Idle \in OtherJob /\ Idle.pc = "idle"
  <1>1. job[t] \in BookingJob \cup ScanJob \cup OtherJob
    BY DEF ParkingTyped
  <1>2. ASSUME NEW j \in BookingJob PROVE j.pc \in {"week", "block", "clash", "insert"}
    BY DEF BookingJob
  <1>3. ASSUME NEW j \in ScanJob PROVE j.pc = "scan"
    BY DEF ScanJob
  <1>4. ASSUME NEW j \in OtherJob PROVE j.pc \in {"idle", "insertBlock", "remove"}
    BY DEF OtherJob
  <1> QED BY <1>1, <1>2, <1>3, <1>4 DEF Idle, OtherJob

LEMMA StaysClear ==
  ASSUME \A b \in BookIds : RowKept(b),
         NEW saw \in SUBSET BookIds, NEW s, NEW slot, Clear(saw, s, slot)
  PROVE  \A c \in saw :
           /\ bookings'[c] # Nil
           /\ ~(/\ bookings'[c].status = "CONFIRMED" /\ bookings'[c].spot = s
                /\ Clash(bookings'[c].slot, slot))
  BY DEF Clear, RowKept

LEMMA StaysSafe ==
  ASSUME SpotsInv, \A b \in BookIds : RowKept(b), NEW t \in Threads,
         At(t, "scan")' => job'[t] = job[t] \/ job'[t].book \in Confirmed
  PROVE  ScanSafe(t)'
  <1> SUFFICES ASSUME job'[t].pc = "scan" PROVE bookings'[job'[t].book] # Nil
    BY DEF ScanSafe, At
  <1>1. CASE job'[t] = job[t]
    <2>1. job[t].book \in BookIds /\ bookings[job[t].book] # Nil
      BY <1>1, JobKinds DEF SpotsInv, ScanSafe, At, ScanJob
    <2> QED BY <1>1, <2>1 DEF RowKept
  <1>2. CASE job'[t].book \in Confirmed
    BY <1>2 DEF Confirmed, RowKept
  <1> QED BY <1>1, <1>2 DEF At

\* A step that adds no row and lets nobody through the conflict check.
LEMMA NothingBooked ==
  ASSUME SpotsInv, ParkingTyped', \A b \in BookIds : RowKept(b),
         \A b \in BookIds : bookings'[b] # Nil => bookings[b] # Nil,
         \A t \in Threads : At(t, "insert")' => job'[t] = job[t],
         \A t \in Threads :
           At(t, "scan")' => job'[t] = job[t] \/ job'[t].book \in Confirmed
  PROVE  SpotsInv'
  <1>1. ASSUME NEW b \in BookIds PROVE RowClear(b)'
    <2> SUFFICES ASSUME bookings'[b] # Nil
                 PROVE  Clear(bookings[b].saw, bookings[b].spot, bookings[b].slot)'
      BY DEF RowClear
    <2>1. bookings[b] # Nil /\ Clear(bookings[b].saw, bookings[b].spot, bookings[b].slot)
      BY DEF SpotsInv, RowClear
    <2>2. bookings[b].saw \in SUBSET BookIds
      BY <2>1 DEF SpotsInv, ParkingTyped, BookingRow
    <2>3. /\ bookings'[b].spot = bookings[b].spot /\ bookings'[b].slot = bookings[b].slot
          /\ bookings'[b].saw = bookings[b].saw
      BY <2>1 DEF RowKept
    <2>4. \A c \in bookings[b].saw :
            /\ bookings'[c] # Nil
            /\ ~(/\ bookings'[c].status = "CONFIRMED" /\ bookings'[c].spot = bookings[b].spot
                 /\ Clash(bookings'[c].slot, bookings[b].slot))
      BY <2>1, <2>2, StaysClear
    <2> QED BY <2>3, <2>4 DEF Clear
  <1>2. ASSUME NEW t \in Threads PROVE JobClear(t)'
    <2> SUFFICES ASSUME At(t, "insert")' PROVE Clear(job[t].saw, job[t].spot, job[t].slot)'
      BY DEF JobClear
    <2>1. job'[t] = job[t] /\ job[t].pc = "insert"
      BY DEF At
    <2>2. job[t].saw \in SUBSET BookIds /\ Clear(job[t].saw, job[t].spot, job[t].slot)
      BY <2>1, JobKinds DEF SpotsInv, JobClear, At, BookingJob
    <2>3. \A c \in job[t].saw :
            /\ bookings'[c] # Nil
            /\ ~(/\ bookings'[c].status = "CONFIRMED" /\ bookings'[c].spot = job[t].spot
                 /\ Clash(bookings'[c].slot, job[t].slot))
      BY <2>2, StaysClear
    <2> QED BY <2>1, <2>3 DEF Clear
  <1> QED BY <1>1, <1>2, StaysSafe DEF SpotsInv

LEMMA FindClashKeeps ==
  ASSUME SpotsInv, NEW t \in Threads, FindClash(t)
  PROVE  SpotsInv'
  <1>0. ParkingTyped /\ job[t].pc = "clash" /\ job[t] \in BookingJob /\ bookings' = bookings
    BY JobKinds DEF SpotsInv, FindClash, At, parking
  <1>1. \A b \in BookIds : RowKept(b)
    BY <1>0 DEF RowKept
  <1>2. CASE job' = [job EXCEPT ![t] = Idle]
    <2>1. ParkingTyped'
      BY <1>0, <1>2, JobKinds DEF ParkingTyped
    <2>2. job'[t] = Idle /\ \A x \in Threads \ {t} : job'[x] = job[x]
      BY <1>0, <1>2 DEF ParkingTyped
    <2> QED BY <1>0, <1>1, <2>1, <2>2, JobKinds, NothingBooked DEF At
  <1>3. CASE /\ job' = [job EXCEPT ![t] = [job[t] EXCEPT !.pc = "insert", !.saw = Confirmed]]
             /\ ~\E b \in Confirmed : bookings[b].spot = job[t].spot
                                      /\ Clash(bookings[b].slot, job[t].slot)
    <2> DEFINE j == [job[t] EXCEPT !.pc = "insert", !.saw = Confirmed]
    <2>1. j \in BookingJob /\ j.pc = "insert" /\ j.saw = Confirmed /\ j.spot = job[t].spot /\ j.slot = job[t].slot
      BY <1>0 DEF BookingJob, Confirmed
    <2>2. job'[t] = j /\ \A x \in Threads \ {t} : job'[x] = job[x]
      BY <1>0, <1>3 DEF ParkingTyped
    <2>3. ParkingTyped'
      BY <1>0, <1>3, <2>1 DEF ParkingTyped
    <2>4. Clear(Confirmed, job[t].spot, job[t].slot)
      BY <1>3 DEF Clear, Confirmed
    <2>5. JobClear(t)'
      BY <1>0, <2>1, <2>2, <2>4 DEF JobClear, Clear
    <2>6. ASSUME NEW x \in Threads \ {t} PROVE JobClear(x)'
      BY <1>0, <2>2 DEF SpotsInv, JobClear, Clear, At
    <2>7. ASSUME NEW b \in BookIds PROVE RowClear(b)'
      BY <1>0 DEF SpotsInv, RowClear, Clear
    <2>8. ASSUME NEW x \in Threads PROVE ScanSafe(x)'
      <3>1. At(x, "scan")' => job'[x] = job[x]
        BY <2>1, <2>2 DEF At
      <3> QED BY <1>1, <3>1, StaysSafe
    <2> QED BY <2>3, <2>5, <2>6, <2>7, <2>8 DEF SpotsInv
  <1> QED BY <1>2, <1>3 DEF FindClash, Finish, GoTo

LEMMA InsertBookingKeeps ==
  ASSUME SpotsInv, NEW t \in Threads, InsertBooking(t)
  PROVE  SpotsInv'
  <1>0. ParkingTyped /\ job[t].pc = "insert" /\ job[t] \in BookingJob
        /\ job' = [job EXCEPT ![t] = Idle]
    BY JobKinds DEF SpotsInv, InsertBooking, Finish, GoTo, At
  <1> DEFINE row == [spot |-> job[t].spot, user |-> job[t].user, slot |-> job[t].slot,
                     status |-> "CONFIRMED", in |-> FALSE, saw |-> job[t].saw]
  <1>1. PICK n \in BookIds : bookings[n] = Nil /\ bookings' = [bookings EXCEPT ![n] = row]
    BY DEF InsertBooking
  <1>2. row \in BookingRow
    BY <1>0 DEF BookingJob, BookingRow
  <1>a. row # Nil
    BY <1>2, BookingAssumption
  <1>3. bookings'[n] = row /\ \A b \in BookIds \ {n} : bookings'[b] = bookings[b]
    BY <1>0, <1>1 DEF ParkingTyped
  <1>4. job'[t] = Idle /\ \A x \in Threads \ {t} : job'[x] = job[x]
    BY <1>0 DEF ParkingTyped
  <1>5. ParkingTyped'
    BY <1>0, <1>1, <1>2, JobKinds DEF ParkingTyped
  <1>6. \A b \in BookIds : RowKept(b)
    BY <1>1, <1>3 DEF RowKept
  <1>7. ASSUME NEW b \in BookIds PROVE RowClear(b)'
    <2>1. CASE b = n
      <3>1. job[t].saw \in SUBSET BookIds /\ Clear(job[t].saw, job[t].spot, job[t].slot)
        BY <1>0 DEF SpotsInv, JobClear, At, BookingJob
      <3>2. row.saw = job[t].saw /\ row.spot = job[t].spot /\ row.slot = job[t].slot
        OBVIOUS
      <3>3. \A c \in job[t].saw :
              /\ bookings'[c] # Nil
              /\ ~(/\ bookings'[c].status = "CONFIRMED" /\ bookings'[c].spot = job[t].spot
                   /\ Clash(bookings'[c].slot, job[t].slot))
        BY <1>6, <3>1, StaysClear
      <3> HIDE DEF row
      <3> QED BY <1>3, <2>1, <3>2, <3>3 DEF RowClear, Clear
    <2>2. CASE b # n /\ bookings[b] # Nil
      <3>1. Clear(bookings[b].saw, bookings[b].spot, bookings[b].slot)
        BY <2>2 DEF SpotsInv, RowClear
      <3>2. bookings[b].saw \in SUBSET BookIds
        BY <1>0, <2>2 DEF ParkingTyped, BookingRow
      <3>3. \A c \in bookings[b].saw :
              /\ bookings'[c] # Nil
              /\ ~(/\ bookings'[c].status = "CONFIRMED" /\ bookings'[c].spot = bookings[b].spot
                   /\ Clash(bookings'[c].slot, bookings[b].slot))
        BY <1>6, <3>1, <3>2, StaysClear
      <3> QED BY <1>3, <2>2, <3>3 DEF RowClear, Clear
    <2>3. CASE b # n /\ bookings[b] = Nil
      BY <1>3, <2>3 DEF RowClear
    <2> QED BY <2>1, <2>2, <2>3
  <1>8. ASSUME NEW x \in Threads PROVE JobClear(x)'
    <2>1. CASE x = t
      BY <1>4, <2>1, JobKinds, <1>0 DEF JobClear, At
    <2>2. CASE x # t /\ job[x].pc = "insert"
      <3>1. job[x].saw \in SUBSET BookIds /\ Clear(job[x].saw, job[x].spot, job[x].slot)
        BY <1>0, <2>2, JobKinds DEF SpotsInv, JobClear, At, BookingJob
      <3>2. \A c \in job[x].saw :
              /\ bookings'[c] # Nil
              /\ ~(/\ bookings'[c].status = "CONFIRMED" /\ bookings'[c].spot = job[x].spot
                   /\ Clash(bookings'[c].slot, job[x].slot))
        BY <1>6, <3>1, StaysClear
      <3> QED BY <1>4, <2>2, <3>2 DEF JobClear, Clear
    <2>3. CASE x # t /\ job[x].pc # "insert"
      BY <1>4, <2>3 DEF JobClear, At
    <2> QED BY <2>1, <2>2, <2>3
  <1>9. ASSUME NEW x \in Threads PROVE ScanSafe(x)'
    <2>1. At(x, "scan")' => job'[x] = job[x]
      BY <1>4, JobKinds, <1>0 DEF At
    <2> QED BY <1>6, <2>1, StaysSafe
  <1> QED BY <1>5, <1>7, <1>8, <1>9 DEF SpotsInv

\* cancelBooking and checkinParkingQr update one column of a row.
LEMMA ColumnKeeps ==
  ASSUME SpotsInv, NEW b \in BookIds, bookings[b] # Nil, NEW r \in BookingRow,
         bookings' = [bookings EXCEPT ![b] = r],
         r.spot = bookings[b].spot, r.slot = bookings[b].slot, r.saw = bookings[b].saw,
         r.status = "CONFIRMED" => bookings[b].status = "CONFIRMED",
         job' \in [Threads -> BookingJob \cup ScanJob \cup OtherJob],
         \A t \in Threads : At(t, "insert")' => job'[t] = job[t],
         \A t \in Threads :
           At(t, "scan")' => job'[t] = job[t] \/ job'[t].book \in Confirmed
  PROVE  SpotsInv'
  <1>1. ParkingTyped' /\ bookings'[b] = r /\ \A c \in BookIds \ {b} : bookings'[c] = bookings[c]
    BY DEF SpotsInv, ParkingTyped
  <1>2. \A c \in BookIds : RowKept(c)
    BY <1>1, BookingAssumption DEF RowKept
  <1>3. \A c \in BookIds : bookings'[c] # Nil => bookings[c] # Nil
    BY <1>1
  <1> QED BY <1>1, <1>2, <1>3, NothingBooked

LEMMA CancelBookingKeeps ==
  ASSUME SpotsInv, NEW b \in BookIds, CancelBooking(b)
  PROVE  SpotsInv'
  <1> DEFINE r == [bookings[b] EXCEPT !.status = "CANCELLED"]
  <1>1. bookings[b] # Nil /\ bookings' = [bookings EXCEPT ![b] = r] /\ job' = job
    BY DEF CancelBooking, Serve
  <1>2. bookings[b] \in BookingRow /\ job \in [Threads -> BookingJob \cup ScanJob \cup OtherJob]
    BY <1>1 DEF SpotsInv, ParkingTyped
  <1>3. /\ r \in BookingRow /\ r.spot = bookings[b].spot /\ r.slot = bookings[b].slot
        /\ r.saw = bookings[b].saw /\ r.status = "CANCELLED"
    BY <1>2 DEF BookingRow
  <1> HIDE DEF r
  <1> QED BY <1>1, <1>2, <1>3, ColumnKeeps DEF At

LEMMA ScanKeeps ==
  ASSUME SpotsInv, NEW t \in Threads,
         ScanUpdate(t) \/ \E b \in BookIds : ScanSpot(t, b)
  PROVE  SpotsInv'
  <1>0. ParkingTyped
    BY DEF SpotsInv
  <1>1. CASE ScanUpdate(t)
    <2> DEFINE b == job[t].book
               r == [bookings[b] EXCEPT !.in = TRUE]
    <2>1. job[t].pc = "scan" /\ bookings' = [bookings EXCEPT ![b] = r]
          /\ job' = [job EXCEPT ![t] = Idle]
      BY <1>1 DEF ScanUpdate, Finish, GoTo, At
    <2>2. b \in BookIds /\ bookings[b] # Nil
      BY <1>0, <2>1, JobKinds DEF SpotsInv, ScanSafe, At, ScanJob
    <2>3. bookings[b] \in BookingRow
      BY <1>0, <2>2 DEF ParkingTyped
    <2>4. /\ r \in BookingRow /\ r.spot = bookings[b].spot /\ r.slot = bookings[b].slot
          /\ r.saw = bookings[b].saw /\ r.status = bookings[b].status
      BY <2>3 DEF BookingRow
    <2>5. /\ job' \in [Threads -> BookingJob \cup ScanJob \cup OtherJob]
          /\ job'[t] = Idle /\ \A x \in Threads \ {t} : job'[x] = job[x]
      BY <1>0, <2>1, JobKinds DEF ParkingTyped
    <2>6. \A x \in Threads : ~(x = t /\ (At(x, "insert")' \/ At(x, "scan")'))
      BY <1>0, <2>5, JobKinds DEF At
    <2> HIDE DEF r, b
    <2> QED BY <2>1, <2>2, <2>4, <2>5, <2>6, ColumnKeeps
  <1>2. CASE \E b \in BookIds : ScanSpot(t, b)
    <2>1. PICK b \in BookIds : ScanSpot(t, b)
      BY <1>2
    <2> DEFINE j == [pc |-> "scan", book |-> b]
    <2>2. b \in Confirmed /\ job' = [job EXCEPT ![t] = j] /\ bookings' = bookings
      BY <2>1 DEF ScanSpot, Arrive, parking
    <2>3. j \in ScanJob /\ j.pc = "scan" /\ j.book = b
      BY DEF ScanJob
    <2>4. /\ ParkingTyped' /\ job'[t] = j
          /\ \A x \in Threads \ {t} : job'[x] = job[x]
      BY <1>0, <2>2, <2>3 DEF ParkingTyped
    <2>5. \A c \in BookIds : RowKept(c)
      BY <2>2 DEF RowKept
    <2> HIDE DEF j
    <2> QED BY <2>2, <2>3, <2>4, <2>5, NothingBooked DEF At
  <1> QED BY <1>1, <1>2

\* The other requests of one thread leave the bookings alone and are past no
\* conflict check.
LEMMA OtherRequestKeeps ==
  ASSUME SpotsInv, NEW t \in Threads, NEW j, j \in BookingJob \cup OtherJob, j.pc # "insert",
         job' = [job EXCEPT ![t] = j], bookings' = bookings
  PROVE  SpotsInv'
  <1>1. ParkingTyped' /\ job'[t] = j /\ \A x \in Threads \ {t} : job'[x] = job[x]
    BY DEF SpotsInv, ParkingTyped
  <1>2. j.pc # "scan"
    BY DEF BookingJob, OtherJob
  <1>3. \A b \in BookIds : RowKept(b)
    BY DEF RowKept
  <1> QED BY <1>1, <1>2, <1>3, NothingBooked DEF At

LEMMA BookKeeps ==
  ASSUME SpotsInv, NEW t \in Threads,
         \/ \E s \in Spots, u \in Drivers, slot \in Slot : Book(t, s, u, slot)
         \/ CheckWeek(t) \/ CheckBlocks(t)
  PROVE  SpotsInv'
  <1>0. Idle \in OtherJob /\ Idle.pc = "idle"
    BY JobKinds DEF SpotsInv
  <1>1. ASSUME NEW s \in Spots, NEW u \in Drivers, NEW slot \in Slot, Book(t, s, u, slot)
        PROVE  SpotsInv'
    <2> DEFINE j == [pc |-> IF s \in ParkingSpots THEN "week" ELSE "clash",
                     spot |-> s, user |-> u, slot |-> slot, saw |-> {}]
    <2>1. j \in BookingJob /\ j.pc # "insert"
      BY DEF BookingJob
    <2>2. job' = [job EXCEPT ![t] = j] /\ bookings' = bookings
      BY <1>1 DEF Book, Arrive, parking
    <2> HIDE DEF j
    <2> QED BY <2>1, <2>2, OtherRequestKeeps
  <1>2. ASSUME CheckWeek(t) \/ CheckBlocks(t) PROVE SpotsInv'
    <2>1. job[t] \in BookingJob /\ bookings' = bookings
      BY <1>2, JobKinds DEF SpotsInv, CheckWeek, CheckBlocks, At, parking
    <2>2. PICK pc \in {"block", "clash"} :
            \/ job' = [job EXCEPT ![t] = Idle]
            \/ job' = [job EXCEPT ![t] = [job[t] EXCEPT !.pc = pc]]
      BY <1>2 DEF CheckWeek, CheckBlocks, GoTo, Finish
    <2> DEFINE j == [job[t] EXCEPT !.pc = pc]
    <2>3. j \in BookingJob /\ j.pc # "insert"
      BY <2>1 DEF BookingJob
    <2>4. job' = [job EXCEPT ![t] = Idle] \/ job' = [job EXCEPT ![t] = j]
      BY <2>2
    <2> HIDE DEF j
    <2> QED BY <1>0, <2>1, <2>3, <2>4, OtherRequestKeeps
  <1> QED BY <1>1, <1>2

LEMMA BlockAndRemoveKeep ==
  ASSUME SpotsInv, NEW t \in Threads,
         \/ \E s \in Spots \cup {Nil}, grouped \in BOOLEAN, slot \in Slot :
              BlockRead(t, s, grouped, slot)
         \/ \E s \in Spots \cup {Nil} : RemoveRead(t, s)
         \/ BlockInsert(t) \/ RemoveWrite(t)
  PROVE  SpotsInv'
  <1>1. ASSUME NEW s \in Spots \cup {Nil}, NEW grouped \in BOOLEAN, NEW slot \in Slot,
               BlockRead(t, s, grouped, slot)
        PROVE  SpotsInv'
    <2> DEFINE j == [pc |-> "insertBlock", spot |-> s, grouped |-> grouped, slot |-> slot]
    <2>1. j \in OtherJob /\ j.pc # "insert"
      BY DEF OtherJob
    <2>2. job' = [job EXCEPT ![t] = j] /\ bookings' = bookings
      BY <1>1 DEF BlockRead, Arrive, parking
    <2> HIDE DEF j
    <2> QED BY <2>1, <2>2, OtherRequestKeeps
  <1>2. ASSUME NEW s \in Spots \cup {Nil}, RemoveRead(t, s) PROVE SpotsInv'
    <2> DEFINE j == [pc |-> "remove", spot |-> s]
    <2>1. j \in OtherJob /\ j.pc # "insert"
      BY DEF OtherJob
    <2>2. job' = [job EXCEPT ![t] = j] /\ bookings' = bookings
      BY <1>2 DEF RemoveRead, Arrive, parking
    <2> HIDE DEF j
    <2> QED BY <2>1, <2>2, OtherRequestKeeps
  <1>3. ASSUME BlockInsert(t) \/ RemoveWrite(t) PROVE SpotsInv'
    <2>1. job' = [job EXCEPT ![t] = Idle] /\ bookings' = bookings
      BY <1>3 DEF BlockInsert, RemoveWrite, Finish, GoTo
    <2> QED BY <2>1, JobKinds, OtherRequestKeeps DEF SpotsInv
  <1> QED BY <1>1, <1>2, <1>3

LEMMA SpotsInvStep == SpotsInv /\ [ParkingNext]_<<parking, control>> => SpotsInv'
  <1> SUFFICES ASSUME SpotsInv, [ParkingNext]_<<parking, control>> PROVE SpotsInv'
    OBVIOUS
  <1>1. ASSUME NEW t \in Threads, ParkingStep(t) PROVE SpotsInv'
    BY <1>1, FindClashKeeps, InsertBookingKeeps, ScanKeeps, BookKeeps, BlockAndRemoveKeep
    DEF ParkingStep
  <1>2. ASSUME job' = job, bookings' = bookings PROVE SpotsInv'
    BY <1>2 DEF SpotsInv, ParkingTyped, RowClear, JobClear, ScanSafe, Clear, At
  <1>3. ASSUME NEW b \in BookIds, CancelBooking(b) PROVE SpotsInv'
    BY <1>3, CancelBookingKeeps
  <1>4. CASE \/ \E k \in BlockIds : RemoveBlock(k)
             \/ \E u \in Drivers, member \in BOOLEAN : SetUser(u, member)
             \/ \E new \in SUBSET Spots : SetSpots(new)
             \/ \E s \in Spots, mode \in {"PUBLIC", "GROUP_RESTRICTED"} : SetAccessMode(s, mode)
             \/ \E s \in Spots : Reactivate(s)
             \/ Pass /\ UNCHANGED parking
             \/ UNCHANGED <<parking, control>>
    <2>1. job' = job /\ bookings' = bookings
      BY <1>4 DEF RemoveBlock, SetUser, SetSpots, SetAccessMode, Reactivate, Serve, Pass,
                  parking, control
    <2> QED BY <1>2, <2>1
  <1> QED BY <1>1, <1>3, <1>4, ScanKeeps, BookKeeps, BlockAndRemoveKeep DEF ParkingNext

LEMMA BookingsStart == ParkingInit => SpotsInv
  <1> SUFFICES ASSUME ParkingInit PROVE SpotsInv
    OBVIOUS
  <1>1. job = [t \in Threads |-> Idle] /\ bookings = [b \in BookIds |-> Nil]
    BY DEF ParkingInit, ControlInit
  <1>2. Idle \in OtherJob /\ Idle.pc = "idle"
    BY DEF Idle, OtherJob
  <1> QED BY <1>1, <1>2 DEF SpotsInv, ParkingTyped, RowClear, JobClear, ScanSafe, At

\* A booking overlaps none that the check before it could see, for any number
\* of resources, hours and concurrent requests: findFirst in createBooking.
THEOREM BookingChecksSound == ParkingSpec => []SeenSpotsNeverClash
  <1>1. ParkingInit => SpotsInv
    BY BookingsStart
  <1>2. SpotsInv => SeenSpotsNeverClash
    BY DEF SpotsInv, RowClear, Clear, Confirmed, SeenSpotsNeverClash, Clash
  <1> QED BY <1>1, <1>2, SpotsInvStep, PTL DEF ParkingSpec

(***************************************************************************)
(* What getAvailability shows.  Hours are days and times of day.           *)
(***************************************************************************)
LEMMA DivMod ==
  ASSUME NEW n \in Nat, NEW len \in Nat \ {0}
  PROVE  /\ n \div len \in Nat /\ n % len \in 0..(len - 1)
         /\ n = len * (n \div len) + (n % len)
  OBVIOUS

LEMMA LaterDay ==
  ASSUME NEW len \in Nat, NEW a \in Nat, NEW b \in Nat, a < b
  PROVE  len * a + len <= len * b
  <1>1. len * b = len * a + len * (b - a)
    OBVIOUS
  <1>2. len * (b - a) = len * (b - a - 1) + len
    OBVIOUS
  <1>3. b - a - 1 \in Nat /\ \A k \in Nat : len * k >= 0
    OBVIOUS
  <1> QED BY <1>1, <1>2, <1>3

\* A slot of day d that begins at m, and a booking from s1 to s2: they meet if
\* the booking begins or ends on the day and their times of day overlap ...
LEMMA TimesMeet ==
  ASSUME NEW len \in Nat \ {0}, NEW show \in Nat \ {0}, NEW d \in Nat, NEW m \in Nat,
         m + show <= len, NEW s1 \in Nat, NEW s2 \in Nat, s1 < s2,
         d \in {s1 \div len, s2 \div len}, s1 % len < m + show, s2 % len > m
  PROVE  s1 < len * d + m + show /\ len * d + m < s2
  <1> DEFINE d1 == s1 \div len
             d2 == s2 \div len
             t1 == s1 % len
             t2 == s2 % len
  <1>1. /\ d1 \in Nat /\ t1 \in 0..(len - 1) /\ s1 = len * d1 + t1
        /\ d2 \in Nat /\ t2 \in 0..(len - 1) /\ s2 = len * d2 + t2
    BY DivMod
  <1>2. t1 < m + show /\ t2 > m /\ d \in {d1, d2}
    OBVIOUS
  <1> HIDE DEF d1, d2, t1, t2
  <1>3. len * d1 \in Nat /\ len * d2 \in Nat
    BY <1>1
  <1>4. d1 <= d2
    <2> SUFFICES ASSUME d2 < d1 PROVE FALSE
      BY <1>1
    <2>1. len * d2 + len <= len * d1
      BY <1>1, LaterDay
    <2> QED BY <1>1, <1>3, <2>1
  <1>5. CASE d1 = d2
    BY <1>1, <1>2, <1>3, <1>5
  <1>6. CASE d1 < d2
    <2>1. len * d1 + len <= len * d2
      BY <1>1, <1>6, LaterDay
    <2>2. CASE d = d1
      BY <1>1, <1>2, <1>3, <2>1, <2>2
    <2>3. CASE d = d2
      BY <1>1, <1>2, <1>3, <2>1, <2>3
    <2> QED BY <1>2, <2>2, <2>3
  <1> QED BY <1>1, <1>4, <1>5, <1>6

\* ... and only then, if it does not run over midnight.
LEMMA MeetingTimes ==
  ASSUME NEW len \in Nat \ {0}, NEW show \in Nat \ {0}, NEW d \in Nat, NEW m \in Nat,
         m + show <= len, NEW s1 \in Nat, NEW s2 \in Nat,
         s1 \div len = s2 \div len, s1 < len * d + m + show, len * d + m < s2
  PROVE  d = s1 \div len /\ s1 % len < m + show /\ s2 % len > m
  <1> DEFINE e == s1 \div len
             t1 == s1 % len
             t2 == s2 % len
  <1>1. /\ e \in Nat /\ t1 \in 0..(len - 1) /\ s1 = len * e + t1
        /\ t2 \in 0..(len - 1) /\ s2 = len * e + t2
    BY DivMod
  <1> HIDE DEF e, t1, t2
  <1>2. len * e \in Nat /\ len * d \in Nat
    BY <1>1
  <1>3. ~(d < e)
    <2> SUFFICES ASSUME d < e PROVE FALSE
      OBVIOUS
    <2>1. len * d + len <= len * e
      BY <1>1, LaterDay
    <2> QED BY <1>1, <1>2, <2>1
  <1>4. ~(e < d)
    <2> SUFFICES ASSUME e < d PROVE FALSE
      OBVIOUS
    <2>1. len * e + len <= len * d
      BY <1>1, LaterDay
    <2> QED BY <1>1, <1>2, <2>1
  <1>5. d = e
    BY <1>1, <1>3, <1>4
  <1>6. t1 < m + show /\ t2 > m
    BY <1>1, <1>2, <1>5
  <1> QED BY <1>5, <1>6 DEF e, t1, t2

LEMMA ShownAgrees == ParkingTyped => ShownMeansBookable
  <1> SUFFICES ASSUME ParkingTyped, NEW s \in Spots, NEW d \in 0..LastHour, NEW m \in ShownSlots
               PROVE  LET from == d * DayLength + m
                          met == {b \in Confirmed : bookings[b].spot = s
                                    /\ Clash(bookings[b].slot, <<from, from + ShownLength>>)} IN
                      IF m \in ShownFree(s, d)
                      THEN \A b \in met : Day(bookings[b].slot[1]) # Day(bookings[b].slot[2])
                      ELSE met # {}
    BY DEF ShownMeansBookable
  <1> DEFINE from == d * DayLength + m
             met == {b \in Confirmed : bookings[b].spot = s
                       /\ Clash(bookings[b].slot, <<from, from + ShownLength>>)}
  <1>1. /\ DayLength \in Nat \ {0} /\ ShownLength \in Nat \ {0} /\ LastHour \in Nat
        /\ OpensAt \in Nat /\ ClosesAt \in 0..DayLength
    BY ParkingAssumption
  <1>2. d \in Nat /\ m \in Nat /\ m + ShownLength <= DayLength
    BY <1>1 DEF ShownSlots
  <1>3. from = DayLength * d + m /\ from \in Nat
    BY <1>1, <1>2
  <1>4. ASSUME NEW b \in Confirmed
        PROVE  /\ bookings[b].slot[1] \in Nat /\ bookings[b].slot[2] \in Nat
               /\ bookings[b].slot[1] < bookings[b].slot[2]
    BY <1>1 DEF ParkingTyped, BookingRow, Confirmed, Slot
  <1>5. \A b \in Confirmed :
          Clash(bookings[b].slot, <<from, from + ShownLength>>)
            <=> /\ bookings[b].slot[1] < DayLength * d + m + ShownLength
                /\ DayLength * d + m < bookings[b].slot[2]
    BY <1>3 DEF Clash
  <1> HIDE DEF from
  <1>6. CASE m \in ShownFree(s, d)
    <2> SUFFICES ASSUME NEW b \in met, Day(bookings[b].slot[1]) = Day(bookings[b].slot[2])
                 PROVE  FALSE
      BY <1>6 DEF from
    <2> DEFINE s1 == bookings[b].slot[1]
               s2 == bookings[b].slot[2]
    <2>1. s1 < DayLength * d + m + ShownLength /\ DayLength * d + m < s2
      BY <1>5
    <2>2. s1 \in Nat /\ s2 \in Nat /\ s1 \div DayLength = s2 \div DayLength
      BY <1>4 DEF Day
    <2> HIDE DEF s1, s2
    <2>3. d = s1 \div DayLength /\ s1 % DayLength < m + ShownLength /\ s2 % DayLength > m
      BY <1>1, <1>2, <2>1, <2>2, MeetingTimes
    <2>4. OnDay(b, d) /\ Takes(b, m)
      BY <2>3 DEF OnDay, Takes, Day, TimeOfDay, s1, s2
    <2> QED BY <1>6, <2>4 DEF ShownFree
  <1>7. CASE m \notin ShownFree(s, d)
    <2>1. PICK b \in Confirmed : bookings[b].spot = s /\ OnDay(b, d) /\ Takes(b, m)
      BY <1>7 DEF ShownFree
    <2>2. /\ bookings[b].slot[1] < DayLength * d + m + ShownLength
          /\ DayLength * d + m < bookings[b].slot[2]
      BY <1>1, <1>2, <1>4, <2>1, TimesMeet DEF OnDay, Takes, Day, TimeOfDay
    <2>3. b \in met
      BY <1>5, <2>1, <2>2
    <2> QED BY <1>7, <2>3 DEF from
  <1> QED BY <1>6, <1>7

\* What is shown as taken is taken and what is shown as free can be booked, but
\* for bookings over midnight, whatever the opening hours and the length of the
\* slots: getAvailability beside createBooking.
THEOREM ShownSlotsHonest == ParkingSpec => []ShownMeansBookable
  <1>1. ParkingInit => SpotsInv
    BY BookingsStart
  <1>2. SpotsInv => ShownMeansBookable
    BY ShownAgrees DEF SpotsInv
  <1> QED BY <1>1, <1>2, SpotsInvStep, PTL DEF ParkingSpec

----------------------------------------------------------------------------
(***************************************************************************)
(* The limits.  What was counted and what passed the count and is about to *)
(* be inserted overrun a limit by the other requests at most.              *)
(***************************************************************************)
WeekTaken(u) == {b \in Confirmed : bookings[b].user = u /\ bookings[b].spot \in ParkingSpots}
Counted(t, u) ==
  /\ job[t].pc \in {"block", "clash", "insert"}
  /\ job[t].spot \in ParkingSpots /\ job[t].user = u
WeekPending(u) == {t \in Threads : Counted(t, u)}
Blocking(t, s, grouped) ==
  /\ job[t].pc = "insertBlock"
  /\ IF grouped THEN job[t].grouped ELSE job[t].spot = s
BlockPending(s, grouped) == {t \in Threads : Blocking(t, s, grouped)}
HasRoom(A, P, limit) ==
  /\ IsFiniteSet(A) /\ P \subseteq Threads
  /\ Cardinality(A) + Cardinality(P) <= limit + (Cardinality(Threads) - 1)

\* The week of a user, where the location has a limit.
WeekFits(u) == WeeklyLimit # 0 => HasRoom(WeekTaken(u), WeekPending(u), WeeklyLimit)

LimitsInv ==
  /\ SpotsInv /\ ParkingTypeOK /\ now \in 0..MaxTime
  /\ \A u \in Drivers : WeekFits(u)
  /\ \A s \in Spots : HasRoom(ActiveBlocks(s, FALSE), BlockPending(s, FALSE), MaxActiveBlocks)
  /\ HasRoom(ActiveBlocks(Nil, TRUE), BlockPending(Nil, TRUE), MaxActiveBlocks)

LEMMA ThreadsCount == IsFiniteSet(Threads) /\ Cardinality(Threads) \in Nat \ {0}
  BY ThreadsAssumption, FS_CardinalityType, FS_EmptySet

\* A row is deleted or a request fails.
LEMMA RoomLeft ==
  ASSUME NEW A, NEW P, NEW limit \in Nat, HasRoom(A, P, limit), NEW B \in SUBSET A, NEW Q \in SUBSET P
  PROVE  HasRoom(B, Q, limit)
  <1>1. IsFiniteSet(A) /\ IsFiniteSet(P)
    BY ThreadsAssumption, FS_Subset DEF HasRoom
  <1>2. /\ IsFiniteSet(B) /\ Cardinality(B) <= Cardinality(A)
        /\ Cardinality(Q) <= Cardinality(P) /\ IsFiniteSet(Q)
    BY <1>1, FS_Subset
  <1>3. /\ Cardinality(A) \in Nat /\ Cardinality(P) \in Nat
        /\ Cardinality(B) \in Nat /\ Cardinality(Q) \in Nat
    BY <1>1, <1>2, FS_CardinalityType
  <1> QED BY <1>2, <1>3, ThreadsCount DEF HasRoom

\* A request inserts what it was waiting to.
LEMMA RoomUsed ==
  ASSUME NEW A, NEW P, NEW limit \in Nat, HasRoom(A, P, limit),
         NEW x, NEW t \in P, NEW B \in SUBSET (A \cup {x}), NEW Q \in SUBSET (P \ {t})
  PROVE  HasRoom(B, Q, limit)
  <1>1. IsFiniteSet(A) /\ IsFiniteSet(P)
    BY ThreadsAssumption, FS_Subset DEF HasRoom
  <1>2. /\ IsFiniteSet(A \cup {x})
        /\ Cardinality(A \cup {x}) = IF x \in A THEN Cardinality(A) ELSE Cardinality(A) + 1
    BY <1>1, FS_AddElement
  <1>3. /\ IsFiniteSet(P \ {t})
        /\ Cardinality(P \ {t}) = Cardinality(P) - 1
    BY <1>1, FS_RemoveElement
  <1>4. /\ IsFiniteSet(B) /\ Cardinality(B) <= Cardinality(A \cup {x})
        /\ Cardinality(Q) <= Cardinality(P \ {t}) /\ IsFiniteSet(Q)
    BY <1>2, <1>3, FS_Subset
  <1>5. /\ Cardinality(A) \in Nat /\ Cardinality(P) \in Nat
        /\ Cardinality(B) \in Nat /\ Cardinality(Q) \in Nat
    BY <1>1, <1>4, FS_CardinalityType
  <1>6. Cardinality(B) <= Cardinality(A) + 1 /\ Cardinality(Q) <= Cardinality(P) - 1
    BY <1>2, <1>3, <1>4, <1>5
  <1> QED BY <1>4, <1>5, <1>6, ThreadsCount DEF HasRoom

\* A request finds the count below the limit.
LEMMA RoomFound ==
  ASSUME NEW A, NEW limit \in Nat, IsFiniteSet(A), Cardinality(A) < limit,
         NEW B \in SUBSET A, NEW Q \in SUBSET Threads
  PROVE  HasRoom(B, Q, limit)
  <1>1. /\ IsFiniteSet(B) /\ Cardinality(B) <= Cardinality(A)
        /\ Cardinality(Q) <= Cardinality(Threads) /\ IsFiniteSet(Q)
    BY ThreadsAssumption, FS_Subset
  <1>2. Cardinality(A) \in Nat /\ Cardinality(B) \in Nat /\ Cardinality(Q) \in Nat
    BY <1>1, FS_CardinalityType
  <1> QED BY <1>1, <1>2, ThreadsCount DEF HasRoom

\* The week of a user, when no request passes the count.
LEMMA WeekLeft ==
  ASSUME LimitsInv, NEW u \in Drivers,
         \A b \in Confirmed' : /\ b \in Confirmed /\ bookings'[b].user = bookings[b].user
                               /\ bookings'[b].spot = bookings[b].spot,
         \A t \in Threads : Counted(t, u)' => Counted(t, u)
  PROVE  WeekFits(u)'
  <1> SUFFICES ASSUME WeeklyLimit # 0 PROVE HasRoom(WeekTaken(u), WeekPending(u), WeeklyLimit)'
    BY DEF WeekFits
  <1>1. WeekTaken(u)' \subseteq WeekTaken(u) /\ WeekPending(u)' \subseteq WeekPending(u)
    BY DEF WeekTaken, WeekPending
  <1>2. PICK B, Q : B = WeekTaken(u)' /\ Q = WeekPending(u)'
    OBVIOUS
  <1>3. HasRoom(B, Q, WeeklyLimit)
    BY <1>1, <1>2, RoomLeft, ParkingAssumption DEF LimitsInv, WeekFits
  <1> QED BY <1>2, <1>3 DEF HasRoom

BlockRoom ==
  /\ \A s \in Spots : HasRoom(ActiveBlocks(s, FALSE), BlockPending(s, FALSE), MaxActiveBlocks)
  /\ HasRoom(ActiveBlocks(Nil, TRUE), BlockPending(Nil, TRUE), MaxActiveBlocks)
WeekRoom == \A u \in Drivers : WeekFits(u)

\* The blocks of a spot, or of the group, when no request passes the count.
LEMMA BlocksLeft ==
  ASSUME LimitsInv, now' \in Nat, now <= now',
         \A k \in BlockIds : blocks'[k] = Nil \/ blocks'[k] = blocks[k],
         \A t \in Threads : \A s, grouped : Blocking(t, s, grouped)' => Blocking(t, s, grouped)
  PROVE  BlockRoom'
  <1>1. \A k \in BlockIds : blocks[k] # Nil => blocks[k].slot[2] \in Nat
    BY ParkingAssumption DEF LimitsInv, ParkingTypeOK, BlockRow, Slot
  <1>2. ASSUME NEW s, NEW grouped
        PROVE  /\ ActiveBlocks(s, grouped)' \subseteq ActiveBlocks(s, grouped)
               /\ BlockPending(s, grouped)' \subseteq BlockPending(s, grouped)
    <2>1. now \in Nat
      BY ServiceAssumption DEF LimitsInv
    <2>2. BlockPending(s, grouped)' \subseteq BlockPending(s, grouped)
      BY DEF BlockPending
    <2>3. ASSUME NEW k \in ActiveBlocks(s, grouped)' PROVE k \in ActiveBlocks(s, grouped)
      <3>1. k \in BlockIds /\ blocks'[k] # Nil /\ blocks'[k].slot[2] >= now'
        BY <2>3 DEF ActiveBlocks
      <3>2. blocks[k] = blocks'[k] /\ blocks[k].slot[2] >= now
        BY <1>1, <2>1, <3>1
      <3> QED BY <2>3, <3>1, <3>2 DEF ActiveBlocks
    <2> QED BY <2>2, <2>3
  <1>3. ASSUME NEW s, NEW grouped, HasRoom(ActiveBlocks(s, grouped), BlockPending(s, grouped), MaxActiveBlocks)
        PROVE  HasRoom(ActiveBlocks(s, grouped), BlockPending(s, grouped), MaxActiveBlocks)'
    <2>1. PICK B, Q : B = ActiveBlocks(s, grouped)' /\ Q = BlockPending(s, grouped)'
      OBVIOUS
    <2>2. HasRoom(B, Q, MaxActiveBlocks)
      BY <1>2, <1>3, <2>1, RoomLeft, ParkingAssumption
    <2> QED BY <2>1, <2>2 DEF HasRoom
  <1> QED BY <1>3 DEF LimitsInv, BlockRoom

LEMMA BookingKinds ==
  ASSUME LimitsInv, NEW t \in Threads
  PROVE  /\ job[t].pc \in {"week", "block", "clash", "insert"} =>
              job[t].spot \in Spots /\ job[t].user \in Drivers /\ job[t] \in BookingJob
         /\ job[t].pc = "insertBlock" =>
              /\ job[t].spot \in Spots \cup {Nil} /\ job[t].grouped \in BOOLEAN
              /\ job[t].slot \in Slot
         /\ Idle.pc = "idle"
         /\ \A j : job' = [job EXCEPT ![t] = j] =>
              job'[t] = j /\ \A x \in Threads \ {t} : job'[x] = job[x]
  <1>1. job \in [Threads -> BookingJob \cup ScanJob \cup OtherJob]
    BY DEF LimitsInv, SpotsInv, ParkingTyped
  <1>2. ASSUME NEW j \in BookingJob \cup ScanJob \cup OtherJob
        PROVE  j.pc = "insertBlock" => /\ j.spot \in Spots \cup {Nil} /\ j.grouped \in BOOLEAN
                                       /\ j.slot \in Slot
    BY DEF BookingJob, ScanJob, OtherJob
  <1>3. \A j \in BookingJob : j.spot \in Spots /\ j.user \in Drivers
    BY DEF BookingJob
  <1> QED BY <1>1, <1>2, <1>3, JobKinds DEF LimitsInv, SpotsInv, Idle

\* A step of a request that neither counts nor changes blocks.
LEMMA BlocksAlone ==
  ASSUME LimitsInv, NEW t \in Threads, NEW j, job' = [job EXCEPT ![t] = j], j.pc # "insertBlock",
         now' = now, blocks' = blocks
  PROVE  BlockRoom'
  <1>1. now \in Nat
    BY ServiceAssumption DEF LimitsInv
  <1>2. \A x \in Threads : \A s, grouped : Blocking(x, s, grouped)' => Blocking(x, s, grouped)
    BY BookingKinds DEF Blocking
  <1> QED BY <1>1, <1>2, BlocksLeft

\* A step of a request that adds no booking and passes no count.
LEMMA WeekAlone ==
  ASSUME LimitsInv, NEW t \in Threads, NEW j, job' = [job EXCEPT ![t] = j], bookings' = bookings,
         \A u \in Drivers : (/\ j.pc \in {"block", "clash", "insert"}
                             /\ j.spot \in ParkingSpots /\ j.user = u) => Counted(t, u)
  PROVE  WeekRoom'
  <1>1. \A x \in Threads, u \in Drivers : Counted(x, u)' => Counted(x, u)
    BY BookingKinds DEF Counted
  <1>2. \A b \in Confirmed' : /\ b \in Confirmed /\ bookings'[b].user = bookings[b].user
                             /\ bookings'[b].spot = bookings[b].spot
    BY DEF Confirmed
  <1> QED BY <1>1, <1>2, WeekLeft DEF WeekRoom

LEMMA BookRoom ==
  ASSUME LimitsInv, NEW t \in Threads,
         \/ \E s \in Spots, u \in Drivers, slot \in Slot : Book(t, s, u, slot)
         \/ \E b \in BookIds : ScanSpot(t, b)
         \/ \E s \in Spots \cup {Nil} : RemoveRead(t, s)
         \/ CheckBlocks(t) \/ FindClash(t)
  PROVE  WeekRoom' /\ BlockRoom'
  <1>1. PICK j : /\ job' = [job EXCEPT ![t] = j] /\ j.pc # "insertBlock"
                 /\ \A u \in Drivers : (/\ j.pc \in {"block", "clash", "insert"}
                                         /\ j.spot \in ParkingSpots /\ j.user = u) => Counted(t, u)
    <2>1. ASSUME NEW s \in Spots, NEW u \in Drivers, NEW slot \in Slot, Book(t, s, u, slot)
          PROVE  \E j : /\ job' = [job EXCEPT ![t] = j]
                        /\ j.pc = IF s \in ParkingSpots THEN "week" ELSE "clash"
                        /\ j.spot = s
      <3>1. PICK j : j = [pc |-> IF s \in ParkingSpots THEN "week" ELSE "clash",
                          spot |-> s, user |-> u, slot |-> slot, saw |-> {}]
        OBVIOUS
      <3>2. job' = [job EXCEPT ![t] = j]
        BY <2>1, <3>1 DEF Book, Arrive
      <3>3. j.pc = (IF s \in ParkingSpots THEN "week" ELSE "clash") /\ j.spot = s
        BY <3>1
      <3> QED BY <3>2, <3>3
    <2>2. ASSUME NEW b \in BookIds, ScanSpot(t, b)
          PROVE  \E j : job' = [job EXCEPT ![t] = j] /\ j.pc = "scan"
      <3>1. PICK j : j = [pc |-> "scan", book |-> b]
        OBVIOUS
      <3>2. job' = [job EXCEPT ![t] = j]
        BY <2>2, <3>1 DEF ScanSpot, Arrive
      <3>3. j.pc = "scan"
        BY <3>1
      <3> QED BY <3>2, <3>3
    <2>3. ASSUME NEW s \in Spots \cup {Nil}, RemoveRead(t, s)
          PROVE  \E j : job' = [job EXCEPT ![t] = j] /\ j.pc = "remove"
      <3>1. PICK j : j = [pc |-> "remove", spot |-> s]
        OBVIOUS
      <3>2. job' = [job EXCEPT ![t] = j]
        BY <2>3, <3>1 DEF RemoveRead, Arrive
      <3>3. j.pc = "remove"
        BY <3>1
      <3> QED BY <3>2, <3>3
    <2>4. ASSUME CheckBlocks(t) \/ FindClash(t)
          PROVE  \E j : /\ job' = [job EXCEPT ![t] = j]
                        /\ \/ j = Idle
                           \/ /\ j.pc \in {"clash", "insert"} /\ job[t].pc \in {"block", "clash"}
                              /\ j.spot = job[t].spot /\ j.user = job[t].user
      <3>1. job[t].pc \in {"block", "clash"} /\ job[t] \in BookingJob
        BY <2>4, BookingKinds DEF CheckBlocks, FindClash, At
      <3>2. PICK j \in {Idle, [job[t] EXCEPT !.pc = "clash"],
                         [job[t] EXCEPT !.pc = "insert", !.saw = Confirmed]} :
              job' = [job EXCEPT ![t] = j]
        BY <2>4 DEF CheckBlocks, FindClash, GoTo, Finish
      <3>3. j = Idle \/ /\ j.pc \in {"clash", "insert"}
                        /\ j.spot = job[t].spot /\ j.user = job[t].user
        BY <3>1, <3>2 DEF BookingJob
      <3> QED BY <3>1, <3>2, <3>3
    <2> QED BY <2>1, <2>2, <2>3, <2>4, BookingKinds DEF Counted
  <1>2. bookings' = bookings /\ blocks' = blocks /\ now' = now
    BY DEF Book, ScanSpot, RemoveRead, CheckBlocks, FindClash, parking, Arrive, GoTo, Finish
  <1> QED BY <1>1, <1>2, WeekAlone, BlocksAlone

LEMMA CheckWeekRoom ==
  ASSUME LimitsInv, NEW t \in Threads, CheckWeek(t)
  PROVE  WeekRoom' /\ BlockRoom'
  <1>1. /\ job[t].pc = "week" /\ job[t] \in BookingJob
        /\ bookings' = bookings /\ blocks' = blocks /\ now' = now
    BY BookingKinds DEF CheckWeek, At, parking, GoTo, Finish
  <1>2. CASE job' = [job EXCEPT ![t] = Idle]
    BY <1>1, <1>2, BookingKinds, WeekAlone, BlocksAlone
  <1>3. CASE /\ WeeklyLimit = 0 \/ WeekCount(job[t].user) < WeeklyLimit
             /\ job' = [job EXCEPT ![t] = [job[t] EXCEPT !.pc = "block"]]
    <2>1. PICK j : j = [job[t] EXCEPT !.pc = "block"]
      OBVIOUS
    <2>2. j.pc = "block" /\ j.user = job[t].user /\ job' = [job EXCEPT ![t] = j]
      BY <1>1, <1>3, <2>1 DEF BookingJob
    <2>3. ASSUME NEW u \in Drivers, WeeklyLimit # 0
          PROVE  HasRoom(WeekTaken(u), WeekPending(u), WeeklyLimit)'
      <3>1. CASE u = job[t].user
        <4>1. WeekTaken(u)' = WeekTaken(u) /\ WeekPending(u)' \in SUBSET Threads
          BY <1>1 DEF WeekTaken, WeekPending, Confirmed
        <4>2. IsFiniteSet(WeekTaken(u)) /\ Cardinality(WeekTaken(u)) < WeeklyLimit
          BY <1>3, <2>3, <3>1 DEF LimitsInv, WeekFits, HasRoom, WeekCount, WeekTaken
        <4>3. PICK B, Q : B = WeekTaken(u)' /\ Q = WeekPending(u)'
          OBVIOUS
        <4>4. HasRoom(B, Q, WeeklyLimit)
          BY <4>1, <4>2, <4>3, RoomFound, ParkingAssumption
        <4> QED BY <4>3, <4>4 DEF HasRoom
      <3>2. CASE u # job[t].user
        <4>1. \A x \in Threads : Counted(x, u)' => Counted(x, u)
          BY <2>2, <3>2, BookingKinds DEF Counted
        <4>2. \A b \in Confirmed' : /\ b \in Confirmed /\ bookings'[b].user = bookings[b].user
                                   /\ bookings'[b].spot = bookings[b].spot
          BY <1>1 DEF Confirmed
        <4> QED BY <2>3, <4>1, <4>2, WeekLeft DEF WeekFits
      <3> QED BY <3>1, <3>2
    <2>4. BlockRoom'
      BY <1>1, <2>2, BlocksAlone
    <2> QED BY <2>3, <2>4 DEF WeekRoom, WeekFits
  <1> QED BY <1>2, <1>3 DEF CheckWeek, GoTo, Finish

LEMMA InsertRoom ==
  ASSUME LimitsInv, NEW t \in Threads, InsertBooking(t)
  PROVE  WeekRoom' /\ BlockRoom'
  <1> DEFINE row == [spot |-> job[t].spot, user |-> job[t].user, slot |-> job[t].slot,
                     status |-> "CONFIRMED", in |-> FALSE, saw |-> job[t].saw]
  <1>1. /\ job[t].pc = "insert" /\ job' = [job EXCEPT ![t] = Idle]
        /\ blocks' = blocks /\ now' = now
    BY DEF InsertBooking, At, GoTo, Finish
  <1>2. PICK n \in BookIds : bookings' = [bookings EXCEPT ![n] = row]
    BY DEF InsertBooking
  <1>3. row.user = job[t].user /\ row.spot = job[t].spot
    OBVIOUS
  <1> HIDE DEF row
  <1>4. bookings'[n] = row /\ \A b \in BookIds \ {n} : bookings'[b] = bookings[b]
    BY <1>2 DEF LimitsInv, ParkingTypeOK
  <1>5. ASSUME NEW u \in Drivers, WeeklyLimit # 0
        PROVE  HasRoom(WeekTaken(u), WeekPending(u), WeeklyLimit)'
    <2>1. PICK B, Q : B = WeekTaken(u)' /\ Q = WeekPending(u)'
      OBVIOUS
    <2>2. Q \subseteq WeekPending(u) \ {t}
      <3>1. job'[t] = Idle /\ \A x \in Threads \ {t} : job'[x] = job[x]
        BY <1>1, BookingKinds
      <3>2. ~Counted(t, u)'
        BY <3>1, BookingKinds DEF Counted, Idle
      <3>3. \A x \in Threads \ {t} : Counted(x, u)' = Counted(x, u)
        BY <3>1 DEF Counted
      <3> QED BY <2>1, <3>2, <3>3 DEF WeekPending
    <2>3. B \subseteq WeekTaken(u) \cup {n}
      BY <1>4, <2>1 DEF WeekTaken, Confirmed
    <2>5. HasRoom(WeekTaken(u), WeekPending(u), WeeklyLimit)
      BY <1>5 DEF LimitsInv, WeekFits
    <2>4. HasRoom(B, Q, WeeklyLimit)
      <3>1. CASE Counted(t, u)
        <4>1. t \in WeekPending(u)
          BY <3>1 DEF WeekPending
        <4> QED BY <2>2, <2>3, <2>5, <4>1, RoomUsed, ParkingAssumption
      <3>2. CASE ~Counted(t, u)
        <4>1. n \notin B
          BY <1>1, <1>3, <1>4, <2>1, <3>2 DEF WeekTaken, Counted
        <4>2. B \subseteq WeekTaken(u) /\ Q \subseteq WeekPending(u)
          BY <2>2, <2>3, <4>1
        <4> QED BY <2>5, <4>2, RoomLeft, ParkingAssumption
      <3> QED BY <3>1, <3>2
    <2> QED BY <2>1, <2>4 DEF HasRoom
  <1>6. BlockRoom'
    BY <1>1, BookingKinds, BlocksAlone
  <1> QED BY <1>5, <1>6 DEF WeekRoom, WeekFits

LEMMA ColumnRoom ==
  ASSUME LimitsInv,
         (\E b \in BookIds : CancelBooking(b)) \/ (\E t \in Threads : ScanUpdate(t))
  PROVE  WeekRoom' /\ BlockRoom'
  <1>0. bookings \in [BookIds -> BookingRow \cup {Nil}]
    BY DEF LimitsInv, ParkingTypeOK
  <1>1. CASE \E b \in BookIds : CancelBooking(b)
    <2>1. PICK b \in BookIds : /\ bookings[b] # Nil
                              /\ bookings' = [bookings EXCEPT ![b].status = "CANCELLED"]
                              /\ UNCHANGED <<job, now, blocks>>
      BY <1>1 DEF CancelBooking, Serve
    <2>2. bookings'[b].status = "CANCELLED" /\ \A c \in BookIds \ {b} : bookings'[c] = bookings[c]
      BY <1>0, <2>1 DEF BookingRow
    <2>3. \A c \in Confirmed' : /\ c \in Confirmed /\ bookings'[c].user = bookings[c].user
                               /\ bookings'[c].spot = bookings[c].spot
      BY <2>2 DEF Confirmed
    <2>4. \A u \in Drivers, t \in Threads : Counted(t, u)' => Counted(t, u)
      BY <2>1 DEF Counted
    <2>5. \A t \in Threads : \A s, grouped : Blocking(t, s, grouped)' => Blocking(t, s, grouped)
      BY <2>1 DEF Blocking
    <2>6. now \in Nat
      BY ServiceAssumption DEF LimitsInv
    <2> QED BY <2>1, <2>3, <2>4, <2>5, <2>6, WeekLeft, BlocksLeft DEF WeekRoom
  <1>2. CASE \E t \in Threads : ScanUpdate(t)
    <2>1. PICK t \in Threads : /\ job[t].pc = "scan" /\ job' = [job EXCEPT ![t] = Idle]
                              /\ bookings' = [bookings EXCEPT ![job[t].book].in = TRUE]
                              /\ UNCHANGED <<now, blocks>>
      BY <1>2 DEF ScanUpdate, At, Finish, GoTo
    <2>2. job[t].book \in BookIds /\ bookings[job[t].book] # Nil
      BY <2>1, JobKinds DEF LimitsInv, SpotsInv, ScanSafe, At, ScanJob
    <2> DEFINE b == job[t].book
    <2>3. /\ bookings'[b].status = bookings[b].status /\ bookings'[b].user = bookings[b].user
          /\ bookings'[b].spot = bookings[b].spot
          /\ \A c \in BookIds \ {b} : bookings'[c] = bookings[c]
      <3>1. bookings[b] \in BookingRow
        BY <1>0, <2>2
      <3> QED BY <1>0, <2>1, <2>2, <3>1 DEF BookingRow
    <2>4. \A c \in Confirmed' : /\ c \in Confirmed /\ bookings'[c].user = bookings[c].user
                               /\ bookings'[c].spot = bookings[c].spot
      BY <2>2, <2>3 DEF Confirmed
    <2>5. \A u \in Drivers, x \in Threads : Counted(x, u)' => Counted(x, u)
      BY <2>1, BookingKinds DEF Counted
    <2>6. BlockRoom'
      BY <2>1, BookingKinds, BlocksAlone
    <2> QED BY <2>4, <2>5, <2>6, WeekLeft DEF WeekRoom
  <1> QED BY <1>1, <1>2

LEMMA BlockReadRoom ==
  ASSUME LimitsInv, NEW t \in Threads, NEW s \in Spots \cup {Nil}, NEW grouped \in BOOLEAN,
         NEW slot \in Slot, BlockRead(t, s, grouped, slot)
  PROVE  WeekRoom' /\ BlockRoom'
  <1>1. PICK j : j = [pc |-> "insertBlock", spot |-> s, grouped |-> grouped, slot |-> slot]
    OBVIOUS
  <1>2. /\ job' = [job EXCEPT ![t] = j] /\ job[t] = Idle
        /\ bookings' = bookings /\ blocks' = blocks /\ now' = now
        /\ s # Nil => Cardinality(ActiveBlocks(s, FALSE)) < MaxActiveBlocks
        /\ grouped => Cardinality(ActiveBlocks(Nil, TRUE)) < MaxActiveBlocks
    BY <1>1 DEF BlockRead, Arrive, IsFree, parking
  <1>3. j.pc = "insertBlock" /\ j.spot = s /\ j.grouped = grouped
    BY <1>1
  <1>4. WeekRoom'
    BY <1>2, <1>3, WeekAlone
  <1>5. ASSUME NEW r, NEW g \in BOOLEAN, g => r = Nil, ~g => r \in Spots
        PROVE  HasRoom(ActiveBlocks(r, g), BlockPending(r, g), MaxActiveBlocks)'
    <2>1. PICK B, Q : B = ActiveBlocks(r, g)' /\ Q = BlockPending(r, g)'
      OBVIOUS
    <2>2. HasRoom(ActiveBlocks(r, g), BlockPending(r, g), MaxActiveBlocks)
      BY <1>5 DEF LimitsInv
    <2>3. B = ActiveBlocks(r, g) /\ Q \subseteq Threads
      BY <1>2, <2>1 DEF ActiveBlocks, BlockPending
    <2>4. HasRoom(B, Q, MaxActiveBlocks)
      <3>1. CASE IF g THEN grouped ELSE s = r
        <4>1. Cardinality(ActiveBlocks(r, g)) < MaxActiveBlocks
          BY <1>2, <1>5, <3>1, ParkingAssumption
        <4>2. IsFiniteSet(ActiveBlocks(r, g))
          BY <2>2 DEF HasRoom
        <4> QED BY <2>3, <4>1, <4>2, RoomFound, ParkingAssumption
      <3>2. CASE ~IF g THEN grouped ELSE s = r
        <4>1. Q \subseteq BlockPending(r, g)
          BY <1>2, <1>3, <2>1, <3>2, BookingKinds DEF BlockPending, Blocking
        <4> QED BY <2>2, <2>3, <4>1, RoomLeft, ParkingAssumption
      <3> QED BY <3>1, <3>2
    <2> QED BY <2>1, <2>4 DEF HasRoom
  <1> QED BY <1>4, <1>5 DEF BlockRoom

LEMMA BlockInsertRoom ==
  ASSUME LimitsInv, NEW t \in Threads, BlockInsert(t)
  PROVE  WeekRoom' /\ BlockRoom'
  <1>1. /\ job[t].pc = "insertBlock" /\ job' = [job EXCEPT ![t] = Idle]
        /\ bookings' = bookings /\ now' = now
    BY DEF BlockInsert, At, Finish, GoTo
  <1>2. WeekRoom'
    BY <1>1, BookingKinds, WeekAlone
  <1>3. CASE UNCHANGED blocks
    BY <1>1, <1>2, <1>3, BookingKinds, BlocksAlone
  <1>4. CASE \E k \in BlockIds : blocks' = [blocks EXCEPT ![k] =
               [spot |-> job[t].spot, grouped |-> job[t].grouped, slot |-> job[t].slot]]
    <2>1. PICK k \in BlockIds : blocks' = [blocks EXCEPT ![k] =
               [spot |-> job[t].spot, grouped |-> job[t].grouped, slot |-> job[t].slot]]
      BY <1>4
    <2>2. /\ blocks'[k].spot = job[t].spot /\ blocks'[k].grouped = job[t].grouped
          /\ \A x \in BlockIds \ {k} : blocks'[x] = blocks[x]
      BY <2>1 DEF LimitsInv, ParkingTypeOK
    <2>3. ASSUME NEW r, NEW g \in BOOLEAN, HasRoom(ActiveBlocks(r, g), BlockPending(r, g), MaxActiveBlocks)
          PROVE  HasRoom(ActiveBlocks(r, g), BlockPending(r, g), MaxActiveBlocks)'
      <3>1. PICK B, Q : B = ActiveBlocks(r, g)' /\ Q = BlockPending(r, g)'
        OBVIOUS
      <3>2. Q \subseteq BlockPending(r, g) \ {t}
        BY <1>1, <3>1, BookingKinds DEF BlockPending, Blocking
      <3>3. B \subseteq ActiveBlocks(r, g) \cup {k}
        BY <1>1, <2>2, <3>1 DEF ActiveBlocks
      <3>4. HasRoom(B, Q, MaxActiveBlocks)
        <4>1. CASE Blocking(t, r, g)
          <5>1. t \in BlockPending(r, g)
            BY <4>1 DEF BlockPending
          <5> QED BY <2>3, <3>2, <3>3, <5>1, RoomUsed, ParkingAssumption
        <4>2. CASE ~Blocking(t, r, g)
          <5>1. k \notin B
            BY <1>1, <2>2, <3>1, <4>2 DEF ActiveBlocks, Blocking
          <5>2. B \subseteq ActiveBlocks(r, g) /\ Q \subseteq BlockPending(r, g)
            BY <3>2, <3>3, <5>1
          <5> QED BY <2>3, <5>2, RoomLeft, ParkingAssumption
        <4> QED BY <4>1, <4>2
      <3> QED BY <3>1, <3>4 DEF HasRoom
    <2> QED BY <1>2, <2>3 DEF BlockRoom, LimitsInv
  <1> QED BY <1>3, <1>4 DEF BlockInsert

LEMMA RemovalRoom ==
  ASSUME LimitsInv,
         \/ \E t \in Threads : RemoveWrite(t)
         \/ \E k \in BlockIds : RemoveBlock(k)
         \/ \E u \in Drivers, member \in BOOLEAN : SetUser(u, member)
         \/ \E new \in SUBSET Spots : SetSpots(new)
         \/ \E s \in Spots, mode \in {"PUBLIC", "GROUP_RESTRICTED"} : SetAccessMode(s, mode)
         \/ \E s \in Spots : Reactivate(s)
         \/ Pass /\ UNCHANGED parking
         \/ UNCHANGED <<parking, control>>
  PROVE  WeekRoom' /\ BlockRoom'
  <1>0. now \in Nat /\ blocks \in [BlockIds -> BlockRow \cup {Nil}]
    BY ServiceAssumption DEF LimitsInv, ParkingTypeOK
  <1>1. bookings' = bookings
    BY DEF RemoveWrite, RemoveBlock, SetUser, SetSpots, SetAccessMode, Reactivate, parking
  <1>2. \A t \in Threads : job'[t] = job[t] \/ job'[t] = Idle
    <2>1. ASSUME NEW t \in Threads, RemoveWrite(t) PROVE \A x \in Threads : job'[x] = job[x] \/ job'[x] = Idle
      BY <2>1, BookingKinds DEF RemoveWrite, Finish, GoTo
    <2> QED BY <2>1 DEF RemoveBlock, SetUser, SetSpots, SetAccessMode, Reactivate, Serve, Pass, parking, control
  <1>3. now' \in Nat /\ now <= now'
    <2>1. now' = now \/ now' = now + 1
      BY DEF RemoveWrite, Finish, GoTo, RemoveBlock, SetUser, SetSpots, SetAccessMode, Reactivate,
             Serve, Pass, control
    <2> QED BY <1>0, <2>1
  <1>4. \A k \in BlockIds : blocks'[k] = Nil \/ blocks'[k] = blocks[k]
    BY <1>0 DEF RemoveWrite, RemoveBlock, SetUser, SetSpots, SetAccessMode, Reactivate, parking
  <1>5. \A u \in Drivers, t \in Threads : Counted(t, u)' => Counted(t, u)
    BY <1>2, BookingKinds DEF Counted
  <1>6. \A t \in Threads : \A s, grouped : Blocking(t, s, grouped)' => Blocking(t, s, grouped)
    BY <1>2, BookingKinds DEF Blocking
  <1>7. \A b \in Confirmed' : /\ b \in Confirmed /\ bookings'[b].user = bookings[b].user
                             /\ bookings'[b].spot = bookings[b].spot
    BY <1>1 DEF Confirmed
  <1> QED BY <1>3, <1>4, <1>5, <1>6, <1>7, WeekLeft, BlocksLeft DEF WeekRoom

LEMMA GroupTyped ==
  ASSUME LimitsInv, [ParkingNext]_<<parking, control>>
  PROVE  /\ spotOf' \in [Spots -> [status : {"ACTIVE", "INACTIVE"},
                                  access : {"PUBLIC", "GROUP_RESTRICTED"}]]
         /\ group' \in [exists : BOOLEAN, users : SUBSET Drivers, spots : SUBSET ParkingSpots]
  <1> DEFINE Spot == [status : {"ACTIVE", "INACTIVE"}, access : {"PUBLIC", "GROUP_RESTRICTED"}]
             Group == [exists : BOOLEAN, users : SUBSET Drivers, spots : SUBSET ParkingSpots]
  <1>0. spotOf \in [Spots -> Spot] /\ group \in Group
    BY DEF LimitsInv, ParkingTypeOK
  <1>1. CASE \E t \in Threads : RemoveWrite(t)
    <2>1. PICK t \in Threads : RemoveWrite(t)
      BY <1>1
    <2>2. CASE job[t].spot # Nil
      BY <1>0, <2>1, <2>2 DEF RemoveWrite
    <2>3. CASE job[t].spot = Nil
      <3>1. spotOf' = spotOf /\ group' = [exists |-> FALSE, users |-> {}, spots |-> {}]
        BY <2>1, <2>3 DEF RemoveWrite
      <3>2. [exists |-> FALSE, users |-> {}, spots |-> {}] \in Group
        OBVIOUS
      <3> QED BY <1>0, <3>1, <3>2
    <2> QED BY <2>2, <2>3
  <1>2. CASE \E u \in Drivers, member \in BOOLEAN : SetUser(u, member)
    BY <1>0, <1>2 DEF SetUser
  <1>3. CASE \E new \in SUBSET Spots : SetSpots(new)
    BY <1>0, <1>3 DEF SetSpots
  <1>4. CASE \E s \in Spots, mode \in {"PUBLIC", "GROUP_RESTRICTED"} : SetAccessMode(s, mode)
    BY <1>0, <1>4 DEF SetAccessMode
  <1>5. CASE \E s \in Spots : Reactivate(s)
    BY <1>0, <1>5 DEF Reactivate
  <1>6. CASE UNCHANGED <<spotOf, group>>
    BY <1>0, <1>6
  <1>7. ASSUME NEW t \in Threads,
               \/ ParkingStep(t) /\ ~RemoveWrite(t)
               \/ \E s \in Spots, u \in Drivers, slot \in Slot : Book(t, s, u, slot)
               \/ \E b \in BookIds : ScanSpot(t, b)
               \/ \E s \in Spots \cup {Nil}, grouped \in BOOLEAN, slot \in Slot :
                    BlockRead(t, s, grouped, slot)
               \/ \E s \in Spots \cup {Nil} : RemoveRead(t, s)
        PROVE  UNCHANGED <<spotOf, group>>
    BY <1>7 DEF ParkingStep, CheckWeek, CheckBlocks, FindClash, InsertBooking, ScanUpdate, BlockInsert,
                Book, ScanSpot, BlockRead, RemoveRead, parking
  <1>8. CASE \/ \E b \in BookIds : CancelBooking(b)
             \/ \E k \in BlockIds : RemoveBlock(k)
             \/ Pass /\ UNCHANGED parking
             \/ UNCHANGED <<parking, control>>
    <2>1. UNCHANGED <<spotOf, group>>
      BY <1>8 DEF CancelBooking, RemoveBlock, parking
    <2> QED BY <1>0, <2>1
  <1> HIDE DEF Spot, Group
  <1> QED BY <1>1, <1>2, <1>3, <1>4, <1>5, <1>6, <1>7, <1>8 DEF ParkingNext, Spot, Group

LEMMA BlocksTyped ==
  ASSUME LimitsInv, [ParkingNext]_<<parking, control>>
  PROVE  blocks' \in [BlockIds -> BlockRow \cup {Nil}] /\ now' \in 0..MaxTime
  <1>0. blocks \in [BlockIds -> BlockRow \cup {Nil}] /\ now \in 0..MaxTime
    BY DEF LimitsInv, ParkingTypeOK
  <1>1. CASE \E t \in Threads : BlockInsert(t)
    <2>1. PICK t \in Threads : BlockInsert(t)
      BY <1>1
    <2>2. [spot |-> job[t].spot, grouped |-> job[t].grouped, slot |-> job[t].slot] \in BlockRow
      BY <2>1, BookingKinds DEF BlockInsert, At, BlockRow
    <2> QED BY <1>0, <2>1, <2>2 DEF BlockInsert, Finish, GoTo
  <1>2. CASE \E t \in Threads : RemoveWrite(t)
    BY <1>0, <1>2 DEF RemoveWrite, Finish, GoTo
  <1>3. CASE \E k \in BlockIds : RemoveBlock(k)
    BY <1>0, <1>3 DEF RemoveBlock, Serve
  <1>4. ASSUME NEW t \in Threads,
               \/ ParkingStep(t) /\ ~RemoveWrite(t) /\ ~BlockInsert(t)
               \/ \E s \in Spots, u \in Drivers, slot \in Slot : Book(t, s, u, slot)
               \/ \E b \in BookIds : ScanSpot(t, b)
               \/ \E s \in Spots \cup {Nil}, grouped \in BOOLEAN, slot \in Slot :
                    BlockRead(t, s, grouped, slot)
               \/ \E s \in Spots \cup {Nil} : RemoveRead(t, s)
        PROVE  UNCHANGED <<blocks, now>>
    BY <1>4 DEF ParkingStep, CheckWeek, CheckBlocks, FindClash, InsertBooking, ScanUpdate,
                Book, ScanSpot, BlockRead, RemoveRead, parking, Arrive, Finish, GoTo
  <1>5. CASE \/ \E b \in BookIds : CancelBooking(b)
             \/ \E u \in Drivers, member \in BOOLEAN : SetUser(u, member)
             \/ \E new \in SUBSET Spots : SetSpots(new)
             \/ \E s \in Spots, mode \in {"PUBLIC", "GROUP_RESTRICTED"} : SetAccessMode(s, mode)
             \/ \E s \in Spots : Reactivate(s)
             \/ UNCHANGED <<parking, control>>
    <2>1. UNCHANGED <<blocks, now>>
      BY <1>5 DEF CancelBooking, SetUser, SetSpots, SetAccessMode, Reactivate, Serve, parking, control
    <2> QED BY <1>0, <2>1
  <1>6. CASE Pass /\ UNCHANGED parking
    <2>1. blocks' = blocks /\ now' = now + 1 /\ now < MaxTime
      BY <1>6 DEF Pass, parking
    <2> QED BY <1>0, <2>1, ServiceAssumption
  <1>7. CASE UNCHANGED <<blocks, now>>
    BY <1>0, <1>7
  <1> QED BY <1>1, <1>2, <1>3, <1>4, <1>5, <1>6, <1>7 DEF ParkingNext

LEMMA LimitsInvStep == LimitsInv /\ [ParkingNext]_<<parking, control>> => LimitsInv'
  <1> SUFFICES ASSUME LimitsInv, [ParkingNext]_<<parking, control>> PROVE LimitsInv'
    OBVIOUS
  <1>1. SpotsInv'
    BY SpotsInvStep DEF LimitsInv
  <1>2. ParkingTypeOK' /\ (now \in 0..MaxTime)'
    BY <1>1, GroupTyped, BlocksTyped DEF ParkingTypeOK, SpotsInv, ParkingTyped
  <1>3. WeekRoom' /\ BlockRoom'
    <2>1. ASSUME NEW t \in Threads, ParkingStep(t) PROVE WeekRoom' /\ BlockRoom'
      BY <2>1, BookRoom, CheckWeekRoom, InsertRoom, ColumnRoom, BlockInsertRoom, RemovalRoom
         DEF ParkingStep
    <2> QED BY <2>1, BookRoom, BlockReadRoom, ColumnRoom, RemovalRoom DEF ParkingNext
  <1> QED BY <1>1, <1>2, <1>3 DEF LimitsInv, WeekRoom, BlockRoom

LEMMA LimitsInvInit == ParkingInit => LimitsInv
  <1> SUFFICES ASSUME ParkingInit PROVE LimitsInv
    OBVIOUS
  <1>1. /\ job = [t \in Threads |-> Idle] /\ bookings = [b \in BookIds |-> Nil]
        /\ blocks = [k \in BlockIds |-> Nil] /\ now = 0 /\ Idle.pc = "idle"
    BY DEF ParkingInit, ControlInit, Idle
  <1>2. ParkingTypeOK /\ now \in 0..MaxTime
    BY <1>1, ServiceAssumption DEF ParkingInit, ParkingTypeOK
  <1>3. \A limit \in Nat : HasRoom({}, {}, limit)
    BY FS_EmptySet, ThreadsCount DEF HasRoom
  <1>4. \A u \in Drivers : WeekTaken(u) = {} /\ WeekPending(u) = {}
    BY <1>1 DEF WeekTaken, WeekPending, Confirmed, Counted
  <1>5. \A s, grouped : ActiveBlocks(s, grouped) = {} /\ BlockPending(s, grouped) = {}
    BY <1>1 DEF ActiveBlocks, BlockPending, Blocking
  <1> QED BY <1>2, <1>3, <1>4, <1>5, BookingsStart, ParkingAssumption DEF LimitsInv, WeekFits

\* The weekly limit of a user and the limit of blocks of a spot or a group are
\* overrun by the other requests in flight at most, for any limits (a weekly one
\* of 0 is none) and any number of requests: checkWeeklyLimit and the counts of
\* the blocks' create.
THEOREM LimitsBend == ParkingSpec => []LimitsHoldButForRaces
  <1>1. LimitsInv => LimitsHoldButForRaces
    <2>1. ASSUME NEW A, NEW P, NEW limit \in Nat, HasRoom(A, P, limit)
          PROVE  Cardinality(A) <= limit + (Cardinality(Threads) - 1)
      <3>1. IsFiniteSet(A) /\ IsFiniteSet(P)
        BY <2>1, ThreadsAssumption, FS_Subset DEF HasRoom
      <3>2. Cardinality(A) \in Nat /\ Cardinality(P) \in Nat
        BY <3>1, FS_CardinalityType
      <3> QED BY <2>1, <3>2, ThreadsCount DEF HasRoom
    <2> SUFFICES ASSUME LimitsInv PROVE LimitsHoldButForRaces
      OBVIOUS
    <2>2. WeeklyLimit # 0 =>
            \A u \in Drivers : WeekCount(u) <= WeeklyLimit + (Cardinality(Threads) - 1)
      BY <2>1, ParkingAssumption DEF LimitsInv, WeekFits, WeekCount, WeekTaken
    <2> QED BY <2>1, <2>2, ParkingAssumption DEF LimitsInv, LimitsHoldButForRaces
  <1> QED BY <1>1, LimitsInvInit, LimitsInvStep, PTL DEF ParkingSpec

----------------------------------------------------------------------------
(***************************************************************************)
(* The desks of beacons.  While nothing is lost and no two requests        *)
(* overlap, the commands on the wire lead, one after the other, from what  *)
(* the beacons remember to what they will remember; the request under way  *)
(* says how that differs from the rows.                                    *)
(***************************************************************************)
Memory == [Beacons -> Desks \cup {Nil}]
BeaconJobs ==
  {Idle} \cup [pc : {"credentials"}, dev : Beacons, desk : Desks \cup {Nil}]
         \cup [pc : {"update", "send"}, dev : Beacons, old : Desks \cup {Nil}, desk : Desks]

BeaconTyped ==
  /\ BeaconDesksTypeOK
  /\ job \in [Threads -> BeaconJobs]
  /\ \A b, c \in known : b # c /\ deskOf[b] = deskOf[c] => deskOf[b] = Nil

\* What the beacons remember after a command, and after each one on the wire.
Obey(f, m) == [b \in Beacons |-> IF f[b] = m.topic THEN m.desk ELSE f[b]]
Path(p) ==
  /\ p \in Seq(Memory) /\ Len(p) = Len(wire) + 1 /\ p[1] = nvs
  /\ \A i \in 1..Len(wire) : p[i + 1] = Obey(p[i], wire[i])

\* f is the end of the path: what beacon b will remember.
Told(f, b) ==
  /\ (\A t \in Threads : job[t] = Idle \/ job[t].dev # b \/ At(t, "update")) => f[b] = deskOf[b]
  /\ \A t \in Threads :
       /\ (At(t, "update") /\ job[t].dev = b) => deskOf[b] = job[t].old
       /\ (At(t, "credentials") /\ job[t].dev = b) => deskOf[b] = job[t].desk
       /\ (At(t, "send") /\ job[t].dev = b) => f[b] = job[t].old /\ deskOf[b] = job[t].desk
       /\ (At(t, "send") /\ job[t].dev # b /\ job[t].old # Nil) => deskOf[b] # job[t].old
OneByOne ==
  /\ \A t, x \in Threads : job[t] # Idle /\ job[x] # Idle => t = x
  /\ \A t \in Threads : At(t, "credentials") => wire = <<>>
  /\ \E p \in Seq(Memory) : Path(p) /\ \A b \in known : Told(p[Len(p)], b)
BeaconInv == BeaconTyped /\ (~astray => OneByOne)

LEMMA IdleBeacon == Idle \in BeaconJobs /\ Idle.pc = "idle"
  BY DEF Idle, BeaconJobs

LEMMA BeaconJobTypes ==
  ASSUME NEW j \in BeaconJobs
  PROVE  /\ j = Idle <=> j.pc = "idle"
         /\ j.pc \in {"idle", "credentials", "update", "send"}
         /\ j # Idle => j.dev \in Beacons
         /\ j.pc = "credentials" => j.desk \in Desks \cup {Nil}
         /\ j.pc \in {"update", "send"} => j.desk \in Desks /\ j.old \in Desks \cup {Nil}
  BY DEF Idle, BeaconJobs

LEMMA ProvisionKeeps ==
  ASSUME BeaconInv, NEW t \in Threads, NEW b \in Beacons, NEW k \in Desks \cup {Nil}, Provision(t, b, k)
  PROVE  BeaconInv'
  <1> DEFINE desk == IF k # Nil THEN k ELSE IF b \in known THEN deskOf[b] ELSE Nil
             j == [pc |-> "credentials", dev |-> b, desk |-> desk]
  <1>0. BeaconTyped
    BY DEF BeaconInv
  <1>1. /\ k # Nil => ~Used(k, b)
        /\ job[t] = Idle /\ job' = [job EXCEPT ![t] = j]
        /\ known' = known \cup {b} /\ deskOf' = [deskOf EXCEPT ![b] = desk]
        /\ astray' = (astray \/ ~Quiet \/ wire # <<>>)
        /\ UNCHANGED <<nvs, wire>>
    BY DEF Provision, Arrive, IsFree
  <1>2. desk \in Desks \cup {Nil}
    BY <1>0 DEF BeaconTyped, BeaconDesksTypeOK
  <1>3. /\ j \in BeaconJobs /\ j # Idle /\ j.pc = "credentials" /\ j.dev = b /\ j.desk = desk
    BY <1>2, IdleBeacon DEF BeaconJobs
  <1>4. \A c \in known \ {b} : deskOf[c] = desk => desk = Nil
    BY <1>0, <1>1 DEF BeaconTyped, Used
  <1> HIDE DEF desk, j
  <1>5. BeaconTyped'
    BY <1>0, <1>1, <1>2, <1>3, <1>4 DEF BeaconTyped, BeaconDesksTypeOK
  <1>6. ASSUME ~astray'
        PROVE  OneByOne'
    <2>1. OneByOne /\ wire = <<>> /\ \A x \in Threads : job[x] = Idle
      BY <1>1, <1>6 DEF BeaconInv, Quiet, IsFree
    <2>2. PICK p \in Seq(Memory) : Path(p) /\ \A c \in known : Told(p[Len(p)], c)
      BY <2>1 DEF OneByOne
    <2> DEFINE f == p[Len(p)]
    <2>3. Path(p)'
      BY <1>1, <2>2 DEF Path
    <2>4. job'[t] = j /\ \A x \in Threads \ {t} : job'[x] = Idle
      BY <1>0, <1>1, <2>1 DEF BeaconTyped
    <2>5. ASSUME NEW c \in known'
          PROVE  Told(f, c)'
      <3>1. CASE c = b
        BY <1>0, <1>1, <1>3, <2>4, <3>1, IdleBeacon DEF Told, At, BeaconTyped, BeaconDesksTypeOK
      <3>2. CASE c # b
        <4>1. c \in known /\ Told(f, c) /\ deskOf'[c] = deskOf[c] /\ f[c] = deskOf[c]
          BY <1>0, <1>1, <2>1, <2>2, <3>2 DEF Told, BeaconTyped, BeaconDesksTypeOK
        <4> QED BY <1>3, <2>4, <3>2, <4>1, IdleBeacon DEF Told, At
      <3> QED BY <3>1, <3>2
    <2>6. \A x, y \in Threads : job'[x] # Idle /\ job'[y] # Idle => x = y
      BY <2>4
    <2> QED BY <1>1, <2>1, <2>3, <2>5, <2>6 DEF OneByOne
  <1> QED BY <1>5, <1>6 DEF BeaconInv

LEMMA RespondKeeps ==
  ASSUME BeaconInv, NEW t \in Threads, ProvisionRespond(t)
  PROVE  BeaconInv'
  <1> DEFINE b == job[t].dev
             k == job[t].desk
  <1>0. BeaconTyped
    BY DEF BeaconInv
  <1>1. /\ job[t].pc = "credentials" /\ job' = [job EXCEPT ![t] = Idle]
        /\ (nvs' = [nvs EXCEPT ![b] = k] /\ astray' = astray) \/ (astray' = TRUE /\ nvs' = nvs)
        /\ UNCHANGED <<deskOf, known, wire>>
    BY DEF ProvisionRespond, Finish, GoTo, At
  <1>2. b \in Beacons /\ k \in Desks \cup {Nil} /\ job[t] # Idle
    BY <1>0, <1>1, BeaconJobTypes DEF BeaconTyped
  <1> HIDE DEF k
  <1>3. BeaconTyped'
    BY <1>0, <1>1, <1>2, IdleBeacon DEF BeaconTyped, BeaconDesksTypeOK
  <1>4. ASSUME ~astray'
        PROVE  OneByOne'
    <2>1. /\ OneByOne /\ wire = <<>> /\ nvs' = [nvs EXCEPT ![b] = k]
          /\ \A x \in Threads : x # t => job[x] = Idle
      BY <1>1, <1>2, <1>4 DEF BeaconInv, OneByOne, At
    <2>2. PICK p \in Seq(Memory) : Path(p) /\ \A c \in known : Told(p[Len(p)], c)
      BY <2>1 DEF OneByOne
    <2>3. Len(p) = 1 /\ p[Len(p)] = nvs
      BY <2>1, <2>2 DEF Path
    <2>4. \A x \in Threads : job'[x] = Idle
      BY <1>0, <1>1, <2>1 DEF BeaconTyped
    <2>5. PICK q \in Seq(Memory) : q = <<nvs'>>
      <3>1. nvs' \in Memory
        BY <1>3 DEF BeaconTyped, BeaconDesksTypeOK, Memory
      <3>2. <<nvs'>> \in Seq(Memory)
        BY <3>1
      <3> QED BY <3>2
    <2>7. q[Len(q)] = nvs' /\ Path(q)'
      <3>1. wire' = <<>> /\ Len(wire') = 0
        BY <1>1, <2>1
      <3> QED BY <2>5, <3>1 DEF Path
    <2>6. ASSUME NEW c \in known'
          PROVE  Told(nvs, c)'
      <3>1. c \in known /\ Told(nvs, c)
        BY <1>1, <2>2, <2>3, <2>6
      <3>2. nvs'[c] = deskOf[c]
        <4>1. CASE c = b
          BY <1>0, <1>1, <1>2, <2>1, <3>1, <4>1 DEF Told, At, k, BeaconTyped, BeaconDesksTypeOK
        <4>2. CASE c # b
          BY <1>0, <1>1, <1>2, <2>1, <3>1, <4>2 DEF Told, BeaconTyped, BeaconDesksTypeOK
        <4> QED BY <4>1, <4>2
      <3> QED BY <1>1, <2>4, <3>2, IdleBeacon DEF Told, At
    <2> QED BY <2>4, <2>6, <2>7, IdleBeacon DEF OneByOne, At
  <1> QED BY <1>3, <1>4 DEF BeaconInv

LEMMA AssignReadKeeps ==
  ASSUME BeaconInv, NEW t \in Threads, NEW b \in Beacons, NEW k \in Desks, AssignRead(t, b, k)
  PROVE  BeaconInv'
  <1> DEFINE j == [pc |-> "update", dev |-> b, old |-> deskOf[b], desk |-> k]
  <1>0. BeaconTyped
    BY DEF BeaconInv
  <1>1. /\ job[t] = Idle /\ job' = [job EXCEPT ![t] = j]
        /\ astray' = (astray \/ ~Quiet)
        /\ UNCHANGED <<deskOf, known, nvs, wire>>
    BY DEF AssignRead, Arrive, IsFree
  <1>2. /\ j \in BeaconJobs /\ j # Idle /\ j.pc = "update" /\ j.dev = b /\ j.old = deskOf[b]
    BY <1>0, IdleBeacon DEF BeaconJobs, BeaconTyped, BeaconDesksTypeOK
  <1> HIDE DEF j
  <1>3. BeaconTyped'
    BY <1>0, <1>1, <1>2 DEF BeaconTyped, BeaconDesksTypeOK
  <1>4. ASSUME ~astray'
        PROVE  OneByOne'
    <2>1. OneByOne /\ \A x \in Threads : job[x] = Idle
      BY <1>1, <1>4 DEF BeaconInv, Quiet, IsFree
    <2>2. PICK p \in Seq(Memory) : Path(p) /\ \A c \in known : Told(p[Len(p)], c)
      BY <2>1 DEF OneByOne
    <2>3. Path(p)'
      BY <1>1, <2>2 DEF Path
    <2>4. job'[t] = j /\ \A x \in Threads \ {t} : job'[x] = Idle
      BY <1>0, <1>1, <2>1 DEF BeaconTyped
    <2> DEFINE f == p[Len(p)]
    <2>5. ASSUME NEW c \in known'
          PROVE  Told(f, c)'
      <3>1. Told(f, c) /\ f[c] = deskOf[c]
        BY <1>1, <2>1, <2>2, <2>5 DEF Told
      <3> QED BY <1>1, <1>2, <2>4, <3>1, IdleBeacon DEF Told, At
    <2>6. \A x, y \in Threads : job'[x] # Idle /\ job'[y] # Idle => x = y
      BY <2>4
    <2>7. \A x \in Threads : job'[x].pc # "credentials"
      BY <1>2, <2>4, IdleBeacon
    <2> QED BY <2>2, <2>3, <2>5, <2>6, <2>7 DEF OneByOne, At
  <1> QED BY <1>3, <1>4 DEF BeaconInv

LEMMA AssignUpdateKeeps ==
  ASSUME BeaconInv, NEW t \in Threads, AssignUpdate(t)
  PROVE  BeaconInv'
  <1> DEFINE b == job[t].dev
             k == job[t].desk
             taken == b \in known /\ ~Used(k, b)
             j == IF taken THEN [job[t] EXCEPT !.pc = "send"] ELSE Idle
  <1>0. BeaconTyped
    BY DEF BeaconInv
  <1>1. /\ job[t].pc = "update" /\ job' = [job EXCEPT ![t] = j]
        /\ deskOf' = IF taken THEN [deskOf EXCEPT ![b] = k] ELSE deskOf
        /\ UNCHANGED <<known, nvs, wire, astray>>
    BY DEF AssignUpdate, Finish, GoTo, At
  <1>2. /\ job[t] \in BeaconJobs /\ b \in Beacons /\ k \in Desks /\ k # Nil /\ job[t] # Idle
    BY <1>0, <1>1, BeaconJobTypes, BeaconAssumption DEF BeaconTyped
  <1>3. /\ j \in BeaconJobs
        /\ taken => j.pc = "send" /\ j.dev = b /\ j.desk = k /\ j.old = job[t].old
        /\ ~taken => j = Idle
    BY <1>1, <1>2, IdleBeacon DEF BeaconJobs, Idle
  <1>4. taken => \A c \in known \ {b} : deskOf[c] # k
    BY DEF Used
  <1>5. job'[t] = j /\ \A x \in Threads \ {t} : job'[x] = job[x]
    BY <1>0, <1>1 DEF BeaconTyped
  <1> HIDE DEF j
  <1>6. BeaconTyped'
    BY <1>0, <1>1, <1>2, <1>3, <1>4 DEF BeaconTyped, BeaconDesksTypeOK
  <1>7. ASSUME ~astray'
        PROVE  OneByOne'
    <2>1. OneByOne /\ \A x \in Threads : x # t => job[x] = Idle
      BY <1>1, <1>2, <1>7 DEF BeaconInv, OneByOne
    <2>2. PICK p \in Seq(Memory) : Path(p) /\ \A c \in known : Told(p[Len(p)], c)
      BY <2>1 DEF OneByOne
    <2>3. Path(p)'
      BY <1>1, <2>2 DEF Path
    <2> DEFINE f == p[Len(p)]
    <2>5. ASSUME NEW c \in known'
          PROVE  Told(f, c)'
      <3>1. c \in Beacons /\ c \in known /\ Told(f, c) /\ f[c] = deskOf[c]
        BY <1>0, <1>1, <2>1, <2>2, <2>5 DEF Told, At, BeaconTyped, BeaconDesksTypeOK
      <3>2. CASE ~taken
        BY <1>1, <1>3, <1>5, <2>1, <3>1, <3>2, IdleBeacon DEF Told, At
      <3>3. CASE taken /\ c = b
        <4>1. deskOf[c] = job[t].old /\ deskOf'[c] = k
          BY <1>0, <1>1, <1>2, <3>1, <3>3 DEF Told, At, BeaconTyped, BeaconDesksTypeOK
        <4> QED BY <1>3, <1>5, <2>1, <3>1, <3>3, <4>1, IdleBeacon DEF Told, At
      <3>4. CASE taken /\ c # b
        <4>1. deskOf'[c] = deskOf[c]
          BY <1>0, <1>1, <1>2, <3>1, <3>4 DEF BeaconTyped, BeaconDesksTypeOK
        <4>2. Told(f, b)
          BY <2>2, <3>4
        <4>3. deskOf[b] = job[t].old
          BY <1>1, <4>2 DEF Told, At
        <4>4. job[t].old # Nil => deskOf[c] # job[t].old
          BY <1>0, <3>1, <3>4, <4>3 DEF BeaconTyped
        <4> QED BY <1>3, <1>5, <2>1, <3>1, <3>4, <4>1, <4>4, IdleBeacon DEF Told, At
      <3> QED BY <3>2, <3>3, <3>4
    <2>6. \A x, y \in Threads : job'[x] # Idle /\ job'[y] # Idle => x = y
      BY <1>5, <2>1
    <2>7. \A x \in Threads : job'[x].pc # "credentials"
      BY <1>3, <1>5, <2>1, IdleBeacon
    <2> QED BY <2>2, <2>3, <2>5, <2>6, <2>7 DEF OneByOne, At
  <1> QED BY <1>6, <1>7 DEF BeaconInv

LEMMA AssignSendKeeps ==
  ASSUME BeaconInv, NEW t \in Threads, AssignSend(t)
  PROVE  BeaconInv'
  <1> DEFINE b == job[t].dev
             m == [topic |-> job[t].old, desk |-> job[t].desk]
  <1>0. BeaconTyped
    BY DEF BeaconInv
  <1>1. /\ job[t].pc = "send" /\ job' = [job EXCEPT ![t] = Idle]
        /\ (job[t].old # Nil /\ wire' = Append(wire, m) /\ astray' = astray)
           \/ (astray' = TRUE /\ wire' = wire)
        /\ UNCHANGED <<deskOf, known, nvs>>
    BY DEF AssignSend, Finish, GoTo, At
  <1>2. /\ job[t] \in BeaconJobs /\ b \in Beacons /\ job[t].desk \in Desks
        /\ job[t].old \in Desks \cup {Nil} /\ job[t] # Idle
    BY <1>0, <1>1, BeaconJobTypes DEF BeaconTyped
  <1>3. job[t].old # Nil => m \in [topic : Desks, desk : Desks]
    BY <1>2
  <1>x. m.topic = job[t].old /\ m.desk = job[t].desk
    OBVIOUS
  <1> HIDE DEF m
  <1>5. job'[t] = Idle /\ \A x \in Threads \ {t} : job'[x] = job[x]
    BY <1>0, <1>1 DEF BeaconTyped
  <1>6. BeaconTyped'
    <2>1. wire' \in Seq([topic : Desks, desk : Desks])
      <3>1. wire \in Seq([topic : Desks, desk : Desks])
        BY <1>0 DEF BeaconTyped, BeaconDesksTypeOK
      <3>2. CASE wire' = wire
        BY <3>1, <3>2
      <3>3. CASE job[t].old # Nil /\ wire' = Append(wire, m)
        BY <1>3, <3>1, <3>3
      <3> QED BY <1>1, <3>2, <3>3
    <2> QED BY <1>0, <1>1, <2>1, IdleBeacon DEF BeaconTyped, BeaconDesksTypeOK
  <1>7. ASSUME ~astray'
        PROVE  OneByOne'
    <2>1. /\ OneByOne /\ \A x \in Threads : x # t => job[x] = Idle
          /\ job[t].old # Nil /\ wire' = Append(wire, m)
      BY <1>1, <1>2, <1>7 DEF BeaconInv, OneByOne
    <2>2. PICK p \in Seq(Memory) : Path(p) /\ \A c \in known : Told(p[Len(p)], c)
      BY <2>1 DEF OneByOne
    <2> DEFINE f == p[Len(p)]
    <2>f. f \in Memory /\ Len(p) = Len(wire) + 1 /\ wire \in Seq([topic : Desks, desk : Desks])
      BY <1>0, <2>2 DEF Path, BeaconTyped, BeaconDesksTypeOK
    <2>o. PICK g \in Memory : g = Obey(f, m)
      BY <1>2, <1>x, <2>f DEF Obey, Memory
    <2>3. PICK q \in Seq(Memory) : q = Append(p, g)
      <3>1. Append(p, g) \in Seq(Memory)
        BY <2>2, <2>o
      <3> QED BY <3>1
    <2>4. Path(q)' /\ q[Len(q)] = g
      <3>1. Len(wire') = Len(wire) + 1 /\ Len(wire) \in Nat /\ Len(q) = Len(p) + 1
        BY <2>1, <2>3, <2>f
      <3>2. q[1] = nvs' /\ q[Len(q)] = g
        BY <1>1, <2>2, <2>3, <2>f DEF Path
      <3>3. ASSUME NEW i \in 1..Len(wire') PROVE q[i + 1] = Obey(q[i], wire'[i])
        <4>1. CASE i = Len(wire')
          BY <2>1, <2>3, <2>f, <2>o, <3>1, <4>1
        <4>2. CASE i # Len(wire')
          <5>1. i \in 1..Len(wire) /\ wire'[i] = wire[i] /\ q[i] = p[i] /\ q[i + 1] = p[i + 1]
            BY <2>1, <2>3, <2>f, <3>1, <3>3, <4>2
          <5> QED BY <2>2, <5>1 DEF Path
        <4> QED BY <4>1, <4>2
      <3>4. \A i \in 1..Len(wire') : q[i + 1] = Obey(q[i], wire[i])'
        BY <3>3 DEF Obey
      <3> QED BY <2>f, <3>1, <3>2, <3>4 DEF Path
    <2>5. ASSUME NEW c \in known'
          PROVE  Told(g, c)'
      <3>1. c \in Beacons /\ c \in known /\ Told(f, c)
        BY <1>0, <1>1, <2>2, <2>5 DEF BeaconTyped, BeaconDesksTypeOK
      <3>2. g[c] = deskOf[c]
        <4>1. CASE c = b
          BY <1>1, <1>x, <2>o, <3>1, <4>1 DEF Told, At, Obey
        <4>2. CASE c # b
          BY <1>1, <1>x, <2>1, <2>o, <3>1, <4>2, IdleBeacon DEF Told, At, Obey
        <4> QED BY <4>1, <4>2
      <3> QED BY <1>1, <1>5, <2>1, <3>2, IdleBeacon DEF Told, At
    <2>6. \A x \in Threads : job'[x] = Idle
      BY <1>5, <2>1
    <2>7. \A c \in known' : Told(q[Len(q)], c)'
      BY <2>4, <2>5
    <2> QED BY <2>3, <2>4, <2>6, <2>7, IdleBeacon DEF OneByOne, At
  <1> QED BY <1>6, <1>7 DEF BeaconInv

LEMMA RemoveBeaconKeeps ==
  ASSUME BeaconInv, NEW b \in Beacons, RemoveBeacon(b)
  PROVE  BeaconInv'
  <1>0. BeaconTyped
    BY DEF BeaconInv
  <1>1. /\ known' = known \ {b} /\ deskOf' = [deskOf EXCEPT ![b] = Nil]
        /\ UNCHANGED <<job, nvs, wire, astray>>
    BY DEF RemoveBeacon, Serve
  <1>2. \A c \in known' : c \in known /\ deskOf'[c] = deskOf[c]
    BY <1>0, <1>1 DEF BeaconTyped, BeaconDesksTypeOK
  <1>3. BeaconTyped'
    BY <1>0, <1>1, <1>2 DEF BeaconTyped, BeaconDesksTypeOK
  <1>4. ASSUME ~astray'
        PROVE  OneByOne'
    <2>1. OneByOne
      BY <1>1, <1>4 DEF BeaconInv
    <2>2. PICK p \in Seq(Memory) : Path(p) /\ \A c \in known : Told(p[Len(p)], c)
      BY <2>1 DEF OneByOne
    <2>3. Path(p)'
      BY <1>1, <2>2 DEF Path
    <2>4. \A c \in known' : Told(p[Len(p)], c)'
      BY <1>1, <1>2, <2>2 DEF Told, At
    <2> QED BY <1>1, <2>1, <2>3, <2>4 DEF OneByOne, At
  <1> QED BY <1>3, <1>4 DEF BeaconInv

\* The rows of a sequence that is not empty, without the first.
LEMMA HeadAndTail ==
  ASSUME NEW S, NEW s \in Seq(S), s # <<>>
  PROVE  /\ Len(s) \in Nat \ {0} /\ Head(s) = s[1] /\ s[1] \in S
         /\ Tail(s) \in Seq(S) /\ Len(Tail(s)) = Len(s) - 1
         /\ \A i \in 1..Len(Tail(s)) : Tail(s)[i] = s[i + 1]
  OBVIOUS

LEMMA DeliverKeeps ==
  ASSUME BeaconInv, DeliverCommand
  PROVE  BeaconInv'
  <1> DEFINE Sent == [topic : Desks, desk : Desks]
  <1>0. BeaconTyped /\ wire \in Seq(Sent)
    BY DEF BeaconInv, BeaconTyped, BeaconDesksTypeOK
  <1>1. /\ wire # <<>> /\ nvs' = Obey(nvs, Head(wire)) /\ wire' = Tail(wire)
        /\ UNCHANGED <<deskOf, known, astray, job>>
    BY DEF DeliverCommand, Obey, control
  <1>2. /\ Len(wire) \in Nat \ {0} /\ wire' \in Seq(Sent) /\ Len(wire') = Len(wire) - 1
        /\ Head(wire) = wire[1] /\ wire[1] \in Sent
        /\ \A i \in 1..Len(wire') : wire'[i] = wire[i + 1]
    <2> HIDE DEF Sent
    <2> QED BY <1>0, <1>1, HeadAndTail
  <1>3. BeaconTyped'
    <2>1. nvs' \in [Beacons -> Desks \cup {Nil}]
      BY <1>0, <1>1, <1>2 DEF BeaconTyped, BeaconDesksTypeOK, Obey
    <2> QED BY <1>0, <1>1, <1>2, <2>1 DEF BeaconTyped, BeaconDesksTypeOK
  <1>4. ASSUME ~astray'
        PROVE  OneByOne'
    <2>1. OneByOne
      BY <1>1, <1>4 DEF BeaconInv
    <2>2. PICK p \in Seq(Memory) : Path(p) /\ \A c \in known : Told(p[Len(p)], c)
      BY <2>1 DEF OneByOne
    <2>3. Len(p) = Len(wire) + 1 /\ p[1] = nvs
      BY <2>2 DEF Path
    <2>4. PICK q \in Seq(Memory) : q = Tail(p)
      <3>1. p # <<>>
        BY <1>2, <2>3
      <3>2. Tail(p) \in Seq(Memory)
        BY <2>2, <3>1
      <3> QED BY <3>2
    <2>5. /\ Len(q) = Len(p) - 1 /\ q[Len(q)] = p[Len(p)]
          /\ \A i \in 1..Len(q) : q[i] = p[i + 1]
      BY <1>2, <2>2, <2>3, <2>4
    <2>6. Path(q)'
      <3>1. q[1] = nvs'
        BY <1>1, <1>2, <2>2, <2>3, <2>5 DEF Path
      <3>2. ASSUME NEW i \in 1..Len(wire') PROVE q[i + 1] = Obey(q[i], wire'[i])
        <4>1. /\ i + 1 \in 1..Len(wire) /\ wire'[i] = wire[i + 1]
              /\ q[i] = p[i + 1] /\ q[i + 1] = p[(i + 1) + 1]
          BY <1>2, <2>3, <2>5
        <4> QED BY <2>2, <4>1 DEF Path
      <3>3. \A i \in 1..Len(wire') : q[i + 1] = Obey(q[i], wire[i])'
        BY <3>2 DEF Obey
      <3> QED BY <1>2, <2>3, <2>4, <2>5, <3>1, <3>3 DEF Path
    <2>7. \A c \in known' : Told(q[Len(q)], c)'
      BY <1>1, <2>2, <2>5 DEF Told, At
    <2>8. \A t \in Threads : ~At(t, "credentials")
      BY <1>1, <2>1 DEF OneByOne
    <2> QED BY <1>1, <2>1, <2>6, <2>7, <2>8 DEF OneByOne, At
  <1> QED BY <1>3, <1>4 DEF BeaconInv

LEMMA LoseKeeps == ASSUME BeaconInv, LoseCommands PROVE BeaconInv'
  BY DEF BeaconInv, BeaconTyped, BeaconDesksTypeOK, LoseCommands, control

LEMMA BeaconInvStep == BeaconInv /\ [BeaconDesksNext]_<<beaconDesks, control>> => BeaconInv'
  <1> SUFFICES ASSUME BeaconInv, [BeaconDesksNext]_<<beaconDesks, control>> PROVE BeaconInv'
    OBVIOUS
  <1>1. CASE BeaconDesksNext
    BY <1>1, ProvisionKeeps, RespondKeeps, AssignReadKeeps, AssignUpdateKeeps, AssignSendKeeps,
       RemoveBeaconKeeps, DeliverKeeps, LoseKeeps DEF BeaconDesksNext
  <1>2. CASE UNCHANGED <<beaconDesks, control>>
    <2>1. UNCHANGED <<deskOf, known, nvs, wire, astray, job>>
      BY <1>2 DEF beaconDesks, control
    <2> QED BY <2>1 DEF BeaconInv, BeaconTyped, BeaconDesksTypeOK, OneByOne, Path, Told, At
  <1> QED BY <1>1, <1>2

LEMMA BeaconInvInit == BeaconDesksInit => BeaconInv
  <1> SUFFICES ASSUME BeaconDesksInit PROVE BeaconInv
    OBVIOUS
  <1>1. /\ \A t \in Threads : job[t] = Idle
        /\ job \in [Threads -> BeaconJobs]
    BY IdleBeacon DEF BeaconDesksInit, ControlInit
  <1>2. known = {} /\ wire = <<>> /\ nvs \in Memory /\ deskOf \in Memory /\ astray = FALSE
    BY DEF BeaconDesksInit, Memory
  <1>3. BeaconTyped
    <2>1. wire \in Seq([topic : Desks, desk : Desks])
      BY <1>2
    <2> QED BY <1>1, <1>2, <2>1 DEF BeaconTyped, BeaconDesksTypeOK, Memory
  <1>4. <<nvs>> \in Seq(Memory) /\ Path(<<nvs>>)
    BY <1>2 DEF Path
  <1> QED BY <1>1, <1>2, <1>3, <1>4 DEF BeaconInv, OneByOne, At, Idle

\* Whatever sequence of provisioning, reassignments and deletions is served one
\* request after the other with no message lost, every beacon ends with the
\* desk of its row, for any number of beacons, desks and commands on the wire.
THEOREM BeaconsAreTold == BeaconDesksSpec => []BeaconsFollowTheirDesk
  <1>1. BeaconInv => BeaconsFollowTheirDesk
    <2> SUFFICES ASSUME BeaconInv, Quiet, wire = <<>>, ~astray, NEW b \in known
                 PROVE  nvs[b] = deskOf[b]
      BY DEF BeaconsFollowTheirDesk
    <2>1. PICK p \in Seq(Memory) : Path(p) /\ Told(p[Len(p)], b)
      BY DEF BeaconInv, OneByOne
    <2>2. p[Len(p)] = nvs
      BY <2>1 DEF Path
    <2> QED BY <2>1, <2>2 DEF Told, Quiet, IsFree
  <1> QED BY <1>1, BeaconInvInit, BeaconInvStep, PTL DEF BeaconDesksSpec

----------------------------------------------------------------------------
\* A sequence without its i-th row.
LEMMA WithoutOne ==
  ASSUME NEW S, NEW s \in Seq(S), NEW i \in 1..Len(s),
         NEW r, r = SubSeq(s, 1, i - 1) \o SubSeq(s, i + 1, Len(s))
  PROVE  /\ r \in Seq(S) /\ Len(r) = Len(s) - 1
         /\ \A k \in 1..Len(r) : r[k] = s[IF k < i THEN k ELSE k + 1]
  <1> DEFINE a == SubSeq(s, 1, i - 1)
             b == SubSeq(s, i + 1, Len(s))
  <1>1. /\ a \in Seq(S) /\ Len(a) = i - 1 /\ \A k \in 1..(i - 1) : a[k] = s[k]
    OBVIOUS
  <1>2. /\ b \in Seq(S) /\ Len(b) = Len(s) - i /\ \A k \in 1..(Len(s) - i) : b[k] = s[k + i]
    OBVIOUS
  <1>0. Len(s) \in Nat
    OBVIOUS
  <1> HIDE DEF a, b
  <1>3. r = a \o b
    BY DEF a, b
  <1>4. /\ r \in Seq(S) /\ Len(r) = Len(s) - 1
        /\ \A k \in 1..Len(r) : r[k] = IF k <= i - 1 THEN a[k] ELSE b[k - (i - 1)]
    <2>1. /\ r \in Seq(S) /\ Len(r) = Len(a) + Len(b)
          /\ \A k \in 1..(Len(a) + Len(b)) : r[k] = IF k <= Len(a) THEN a[k] ELSE b[k - Len(a)]
      <3>1. /\ a \o b \in Seq(S) /\ Len(a \o b) = Len(a) + Len(b)
            /\ \A k \in 1..Len(a) + Len(b) :
                 (a \o b)[k] = IF k <= Len(a) THEN a[k] ELSE b[k - Len(a)]
        BY <1>1, <1>2, ConcatProperties
      <3> QED BY <1>3, <3>1
    <2>2. Len(s) \in Nat /\ Len(a) + Len(b) = Len(s) - 1
      BY <1>1, <1>2
    <2> QED BY <1>1, <2>1, <2>2
  <1>5. ASSUME NEW k \in 1..Len(r) PROVE r[k] = s[IF k < i THEN k ELSE k + 1]
    <2>0. k \in Int /\ i \in Int /\ Len(s) \in Nat /\ k <= Len(s) - 1 /\ k >= 1
      <3>1. k \in 1..(Len(s) - 1)
        BY <1>4, <1>5
      <3>2. i \in Int
        OBVIOUS
      <3> QED BY <1>0, <3>1, <3>2
    <2>1. CASE k < i
      <3>1. k <= i - 1 /\ k \in 1..(i - 1)
        BY <2>0, <2>1
      <3> QED BY <1>1, <1>4, <1>5, <2>1, <3>1
    <2>2. CASE ~(k < i)
      <3>0. k - (i - 1) \in 1..(Len(s) - i) /\ ~(k <= i - 1)
        BY <2>0, <2>2
      <3>1. r[k] = b[k - (i - 1)] /\ k - (i - 1) \in 1..(Len(s) - i)
        BY <1>4, <1>5, <3>0
      <3>2. (k - (i - 1)) + i = k + 1
        BY <2>0
      <3> QED BY <1>2, <2>2, <3>1, <3>2
    <2> QED BY <2>1, <2>2
  <1> QED BY <1>4, <1>5

(***************************************************************************)
(* Sessions that wait for a card.  An administrator has one session at     *)
(* most, and the timers that run are those of the sessions.                *)
(***************************************************************************)
EnrolmentJobs ==
  {Idle} \cup [pc : {"notify"}, card : Cards]
         \cup [pc : {"updateCard"}, card : Cards, user : Holders]
TimerOf(w) == [admin |-> w.admin, due |-> w.since + Minute]
EnrolmentTyped ==
  /\ EnrolmentTypeOK /\ now \in 0..MaxTime
  /\ job \in [Threads -> EnrolmentJobs]
EnrolmentInv ==
  /\ EnrolmentTyped
  /\ \A i, j \in DOMAIN waiters : waiters[i].admin = waiters[j].admin => i = j
  /\ timers = {TimerOf(waiters[i]) : i \in DOMAIN waiters}

LEMMA IdleEnrolment == Idle \in EnrolmentJobs
  BY DEF EnrolmentJobs

LEMMA EnrolmentJobTypes ==
  ASSUME NEW j \in EnrolmentJobs
  PROVE  /\ j.pc = "notify" => j.card \in Cards
         /\ j.pc = "updateCard" => j.card \in Cards /\ j.user \in Holders
  BY DEF Idle, EnrolmentJobs

\* The sessions of the others, in the order they were in.
LEMMA OthersStay ==
  ASSUME EnrolmentInv, NEW a
  PROVE  /\ Others(a) \in Seq(Session)
         /\ \A i \in DOMAIN Others(a) : Others(a)[i].admin # a
         /\ \A i, j \in DOMAIN Others(a) : Others(a)[i].admin = Others(a)[j].admin => i = j
         /\ {TimerOf(Others(a)[i]) : i \in DOMAIN Others(a)} = timers \ TimersOf(a)
  <1> DEFINE own == {i \in DOMAIN waiters : waiters[i].admin = a}
             n == CHOOSE i \in own : TRUE
             rest == SubSeq(waiters, 1, n - 1) \o SubSeq(waiters, n + 1, Len(waiters))
  <1>1. waiters \in Seq(Session)
    BY DEF EnrolmentInv, EnrolmentTyped, EnrolmentTypeOK
  <1>2. CASE own = {}
    <2>1. Others(a) = waiters /\ \A i \in DOMAIN waiters : waiters[i].admin # a
      BY <1>2 DEF Others
    <2>2. TimersOf(a) = {}
      BY <2>1 DEF EnrolmentInv, TimersOf, TimerOf
    <2> QED BY <1>1, <2>1, <2>2 DEF EnrolmentInv
  <1>3. CASE own # {}
    <2>1. n \in DOMAIN waiters /\ waiters[n].admin = a /\ n \in 1..Len(waiters)
      BY <1>1, <1>3
    <2>2. Others(a) = rest
      BY <1>3 DEF Others
    <2> DEFINE old(k) == IF k < n THEN k ELSE k + 1
    <2>3. /\ rest \in Seq(Session) /\ Len(rest) = Len(waiters) - 1
          /\ \A k \in 1..Len(rest) : rest[k] = waiters[old(k)]
      <3> HIDE DEF n
      <3>1. \A r : r = SubSeq(waiters, 1, n - 1) \o SubSeq(waiters, n + 1, Len(waiters)) =>
                 /\ r \in Seq(Session) /\ Len(r) = Len(waiters) - 1
                 /\ \A k \in 1..Len(r) : r[k] = waiters[IF k < n THEN k ELSE k + 1]
        BY <1>1, <2>1, WithoutOne
      <3> QED BY <3>1
    <2> HIDE DEF rest, n
    <2>4. \A k \in DOMAIN rest : rest[k] = waiters[old(k)] /\ old(k) \in DOMAIN waiters \ {n}
      BY <1>1, <2>1, <2>3
    <2>5. \A i \in DOMAIN waiters \ {n} : \E k \in DOMAIN rest : i = old(k)
      <3> SUFFICES ASSUME NEW i \in DOMAIN waiters \ {n} PROVE \E k \in DOMAIN rest : i = old(k)
        OBVIOUS
      <3>1. CASE i < n
        BY <1>1, <2>1, <2>3, <3>1
      <3>2. CASE i > n
        <4>1. i - 1 \in DOMAIN rest /\ i = old(i - 1)
          BY <1>1, <2>1, <2>3, <3>2
        <4> QED BY <4>1
      <3> QED BY <1>1, <2>1, <3>1, <3>2
    <2>6. \A i, j \in DOMAIN rest : old(i) = old(j) => i = j
      BY <1>1, <2>1, <2>3
    <2> HIDE DEF old
    <2>7. \A i \in DOMAIN waiters : waiters[i].admin = a <=> i = n
      BY <2>1 DEF EnrolmentInv
    <2>8. \A i \in DOMAIN rest : rest[i].admin # a
      BY <2>4, <2>7
    <2>9. \A i, j \in DOMAIN rest : rest[i].admin = rest[j].admin => i = j
      BY <2>4, <2>6 DEF EnrolmentInv
    <2>10. {TimerOf(rest[i]) : i \in DOMAIN rest} = timers \ TimersOf(a)
      <3>1. timers = {TimerOf(waiters[i]) : i \in DOMAIN waiters}
        BY DEF EnrolmentInv
      <3>2. \A w : TimerOf(w).admin = w.admin
        BY DEF TimerOf
      <3>3. timers \ TimersOf(a) = {TimerOf(waiters[i]) : i \in DOMAIN waiters \ {n}}
        BY <2>1, <2>7, <3>1, <3>2 DEF TimersOf
      <3>4. {TimerOf(rest[i]) : i \in DOMAIN rest} = {TimerOf(waiters[i]) : i \in DOMAIN waiters \ {n}}
        BY <2>4, <2>5
      <3> QED BY <3>3, <3>4
    <2> QED BY <2>2, <2>3, <2>8, <2>9, <2>10
  <1> QED BY <1>2, <1>3

LEMMA StartSessionKeeps ==
  ASSUME EnrolmentInv, NEW a \in Admins, NEW u \in Holders, StartSession(a, u)
  PROVE  EnrolmentInv'
  <1> DEFINE w == [admin |-> a, user |-> u, since |-> now]
  <1>1. /\ waiters' = Append(Others(a), w)
        /\ timers' = (timers \ TimersOf(a)) \cup {[admin |-> a, due |-> now + Minute]}
        /\ UNCHANGED <<cardOf, job, now>>
    BY DEF StartSession, Serve
  <1>2. /\ now \in 0..MaxTime /\ w \in Session /\ w.admin = a
        /\ TimerOf(w) = [admin |-> a, due |-> now + Minute]
    BY DEF EnrolmentInv, EnrolmentTyped, Session, TimerOf
  <1>3. PICK s \in Seq(Session) : s = Others(a)
    BY OthersStay
  <1>4. /\ \A i \in DOMAIN s : s[i].admin # a
        /\ \A i, j \in DOMAIN s : s[i].admin = s[j].admin => i = j
        /\ {TimerOf(s[i]) : i \in DOMAIN s} = timers \ TimersOf(a)
    BY <1>3, OthersStay
  <1> HIDE DEF w
  <1>5. /\ waiters' \in Seq(Session) /\ DOMAIN waiters' = DOMAIN s \cup {Len(s) + 1}
        /\ \A i \in DOMAIN s : waiters'[i] = s[i]
        /\ waiters'[Len(s) + 1] = w
    BY <1>1, <1>2, <1>3, AppendProperties
  <1>6. \A i, j \in DOMAIN waiters' : waiters'[i].admin = waiters'[j].admin => i = j
    BY <1>2, <1>4, <1>5
  <1>7. timers' = {TimerOf(waiters'[i]) : i \in DOMAIN waiters'}
    BY <1>1, <1>2, <1>4, <1>5
  <1>8. EnrolmentTyped'
    <2>1. now + Minute \in 0..(MaxTime + Minute)
      BY <1>2, ServiceAssumption, EnrolmentAssumption
    <2> QED BY <1>1, <1>5, <2>1 DEF EnrolmentInv, EnrolmentTyped, EnrolmentTypeOK
  <1> QED BY <1>6, <1>7, <1>8 DEF EnrolmentInv, TimerOf

LEMMA TimeOutKeeps == ASSUME EnrolmentInv, TimeOut PROVE EnrolmentInv'
  <1>1. PICK x \in timers : waiters' = Others(x.admin) /\ timers' = timers \ {x}
    BY DEF TimeOut
  <1>2. UNCHANGED <<cardOf, job, now>>
    BY DEF TimeOut, control
  <1>3. TimersOf(x.admin) = {x}
    BY DEF EnrolmentInv, TimersOf, TimerOf
  <1>4. EnrolmentTyped'
    BY <1>1, <1>2, OthersStay DEF EnrolmentInv, EnrolmentTyped, EnrolmentTypeOK
  <1>5. /\ \A i, j \in DOMAIN waiters' : waiters'[i].admin = waiters'[j].admin => i = j
        /\ timers' = {TimerOf(waiters'[i]) : i \in DOMAIN waiters'}
    BY <1>1, <1>3, OthersStay
  <1> QED BY <1>4, <1>5 DEF EnrolmentInv, TimerOf

LEMMA NotifyKeeps == ASSUME EnrolmentInv, NEW t \in Threads, NotifyScan(t) PROVE EnrolmentInv'
  <1>0. /\ EnrolmentTyped /\ waiters \in Seq(Session)
    BY DEF EnrolmentInv, EnrolmentTyped, EnrolmentTypeOK
  <1>1. CASE waiters = <<>>
    <2>1. UNCHANGED <<waiters, timers, cardOf, now>> /\ job' = [job EXCEPT ![t] = Idle]
      BY <1>1 DEF NotifyScan, Finish, GoTo
    <2> QED BY <1>0, <2>1, IdleEnrolment DEF EnrolmentInv, EnrolmentTyped, EnrolmentTypeOK, TimerOf
  <1>2. CASE waiters # <<>>
    <2> DEFINE j == [pc |-> "updateCard", card |-> job[t].card, user |-> Head(waiters).user]
    <2>1. /\ job[t].pc = "notify" /\ job' = [job EXCEPT ![t] = j] /\ waiters' = Tail(waiters)
          /\ timers' = timers \ TimersOf(Head(waiters).admin) /\ UNCHANGED <<cardOf, now>>
      BY <1>2 DEF NotifyScan, GoTo, At
    <2>2. /\ Head(waiters) \in Session /\ Head(waiters) = waiters[1] /\ 1 \in DOMAIN waiters
          /\ waiters' \in Seq(Session) /\ Len(waiters') = Len(waiters) - 1 /\ Len(waiters) \in Nat
          /\ \A i \in 1..Len(waiters') : waiters'[i] = waiters[i + 1]
      BY <1>0, <1>2, <2>1, HeadTailProperties
    <2>3. j \in EnrolmentJobs
      <3>1. job[t].card \in Cards /\ Head(waiters).user \in Holders
        BY <1>0, <2>1, <2>2, EnrolmentJobTypes DEF EnrolmentTyped, Session
      <3> QED BY <3>1 DEF EnrolmentJobs
    <2>4. EnrolmentTyped'
      BY <1>0, <2>1, <2>2, <2>3 DEF EnrolmentTyped, EnrolmentTypeOK
    <2>5. /\ DOMAIN waiters = 1..Len(waiters) /\ DOMAIN waiters' = 1..Len(waiters')
          /\ \A i \in DOMAIN waiters' : i + 1 \in DOMAIN waiters \ {1}
          /\ \A i \in DOMAIN waiters \ {1} : i - 1 \in DOMAIN waiters' /\ (i - 1) + 1 = i
      BY <1>0, <2>2
    <2>6. \A i, k \in DOMAIN waiters' : waiters'[i].admin = waiters'[k].admin => i = k
      <3> SUFFICES ASSUME NEW i \in DOMAIN waiters', NEW k \in DOMAIN waiters',
                          waiters'[i].admin = waiters'[k].admin
                   PROVE  i = k
        OBVIOUS
      <3>1. i + 1 = k + 1
        BY <2>2, <2>5 DEF EnrolmentInv
      <3> QED BY <2>5, <3>1
    <2>7. timers' = {TimerOf(waiters'[i]) : i \in DOMAIN waiters'}
      <3>1. TimersOf(Head(waiters).admin) = {TimerOf(waiters[1])}
        BY <2>2 DEF EnrolmentInv, TimersOf, TimerOf
      <3>2. \A i \in DOMAIN waiters : TimerOf(waiters[i]) = TimerOf(waiters[1]) => i = 1
        BY <2>2 DEF EnrolmentInv, TimerOf
      <3>3. timers' = {TimerOf(waiters[i]) : i \in DOMAIN waiters \ {1}}
        BY <2>1, <2>2, <3>1, <3>2 DEF EnrolmentInv
      <3>4. {TimerOf(waiters[i]) : i \in DOMAIN waiters \ {1}}
              = {TimerOf(waiters'[i]) : i \in DOMAIN waiters'}
        <4>1. \A i \in DOMAIN waiters \ {1} : waiters[i] = waiters'[i - 1] /\ i - 1 \in DOMAIN waiters'
          BY <2>2, <2>5
        <4>2. \A i \in DOMAIN waiters' : waiters'[i] = waiters[i + 1] /\ i + 1 \in DOMAIN waiters \ {1}
          BY <2>2, <2>5
        <4> QED BY <4>1, <4>2
      <3> QED BY <3>3, <3>4
    <2> QED BY <2>4, <2>6, <2>7 DEF EnrolmentInv, TimerOf
  <1> QED BY <1>1, <1>2

LEMMA CardStepsKeep ==
  ASSUME EnrolmentInv,
         \/ \E t \in Threads : UpdateCard(t) \/ \E c \in Cards : ScanCard(t, c)
         \/ \E u \in Holders, c \in Cards \cup {Nil} : AssignCard(u, c)
         \/ EnrolmentTick
  PROVE  EnrolmentInv'
  <1>1. UNCHANGED <<waiters, timers>>
    BY DEF UpdateCard, ScanCard, AssignCard, EnrolmentTick, enrolment
  <1>2. EnrolmentTyped
    BY DEF EnrolmentInv
  <1>3. now' \in 0..MaxTime
    BY <1>2, ServiceAssumption DEF UpdateCard, ScanCard, AssignCard, EnrolmentTick, EnrolmentTyped, Finish, GoTo, Arrive, Serve, Pass
  <1>4. job' \in [Threads -> EnrolmentJobs]
    <2>1. CASE \E t \in Threads, c \in Cards : ScanCard(t, c)
      <3>1. PICK t \in Threads, c \in Cards : job' = [job EXCEPT ![t] = [pc |-> "notify", card |-> c]]
        BY <2>1 DEF ScanCard, Arrive
      <3>2. [pc |-> "notify", card |-> c] \in EnrolmentJobs
        BY DEF EnrolmentJobs
      <3> QED BY <1>2, <3>1, <3>2 DEF EnrolmentTyped
    <2>2. CASE \E t \in Threads : UpdateCard(t)
      BY <1>2, <2>2, IdleEnrolment DEF UpdateCard, EnrolmentTyped, Finish, GoTo
    <2>3. CASE \E u \in Holders, c \in Cards \cup {Nil} : AssignCard(u, c)
      BY <1>2, <2>3 DEF AssignCard, EnrolmentTyped, Serve
    <2>4. CASE EnrolmentTick
      BY <1>2, <2>4 DEF EnrolmentTick, EnrolmentTyped, Pass
    <2> QED BY <2>1, <2>2, <2>3, <2>4
  <1>5. cardOf' \in [Holders -> Cards \cup {Nil}]
    <2>0. cardOf \in [Holders -> Cards \cup {Nil}]
      BY <1>2 DEF EnrolmentTyped, EnrolmentTypeOK
    <2>1. CASE \E t \in Threads : UpdateCard(t)
      <3>1. PICK t \in Threads : UpdateCard(t)
        BY <2>1
      <3>2. job[t].card \in Cards
        BY <1>2, <3>1, EnrolmentJobTypes DEF EnrolmentTyped, UpdateCard, At
      <3> QED BY <2>0, <3>1, <3>2 DEF UpdateCard
    <2> QED BY <2>0, <2>1 DEF ScanCard, AssignCard, EnrolmentTick, enrolment
  <1> QED BY <1>1, <1>2, <1>3, <1>4, <1>5 DEF EnrolmentInv, EnrolmentTyped, EnrolmentTypeOK, TimerOf

LEMMA EnrolmentRestartKeeps == ASSUME EnrolmentInv, EnrolmentRestart PROVE EnrolmentInv'
  <1>1. /\ waiters' = <<>> /\ timers' = {} /\ job' = [t \in Threads |-> Idle]
        /\ UNCHANGED <<cardOf, now>>
    BY DEF EnrolmentRestart
  <1>2. waiters' \in Seq(Session) /\ DOMAIN waiters' = {}
    BY <1>1
  <1> QED BY <1>1, <1>2, IdleEnrolment DEF EnrolmentInv, EnrolmentTyped, EnrolmentTypeOK

LEMMA EnrolmentInvStep == EnrolmentInv /\ [EnrolmentNext]_<<enrolment, control>> => EnrolmentInv'
  <1> SUFFICES ASSUME EnrolmentInv, [EnrolmentNext]_<<enrolment, control>> PROVE EnrolmentInv'
    OBVIOUS
  <1>1. CASE EnrolmentNext
    BY <1>1, StartSessionKeeps, TimeOutKeeps, NotifyKeeps, CardStepsKeep, EnrolmentRestartKeeps
       DEF EnrolmentNext
  <1>2. CASE UNCHANGED <<enrolment, control>>
    <2>1. UNCHANGED <<waiters, timers, cardOf, now, job>>
      BY <1>2 DEF enrolment, control
    <2> QED BY <2>1 DEF EnrolmentInv, EnrolmentTyped, EnrolmentTypeOK, TimerOf
  <1> QED BY <1>1, <1>2

LEMMA EnrolmentInvInit == EnrolmentInit => EnrolmentInv
  <1> SUFFICES ASSUME EnrolmentInit PROVE EnrolmentInv
    OBVIOUS
  <1>1. waiters = <<>> /\ waiters \in Seq(Session) /\ DOMAIN waiters = {}
    BY DEF EnrolmentInit
  <1> QED BY <1>1, IdleEnrolment, ServiceAssumption
          DEF EnrolmentInit, ControlInit, EnrolmentInv, EnrolmentTyped, EnrolmentTypeOK

\* As many timers as sessions.
LEMMA TimersCounted == EnrolmentInv => Cardinality(timers) = Len(waiters)
  <1> SUFFICES ASSUME EnrolmentInv PROVE Cardinality(timers) = Len(waiters)
    OBVIOUS
  <1> DEFINE f == [i \in 1..Len(waiters) |-> TimerOf(waiters[i])]
  <1>1. Len(waiters) \in Nat /\ DOMAIN waiters = 1..Len(waiters)
    BY DEF EnrolmentInv, EnrolmentTyped, EnrolmentTypeOK
  <1>2. f \in Surjection(1..Len(waiters), timers)
    BY <1>1 DEF EnrolmentInv, Surjection
  <1>3. f \in Injection(1..Len(waiters), timers)
    <2>1. \A i, j \in 1..Len(waiters) : f[i] = f[j] => i = j
      BY <1>1 DEF EnrolmentInv, TimerOf
    <2> QED BY <1>2, <2>1 DEF Surjection, Injection, IsInjective
  <1>4. IsFiniteSet(1..Len(waiters)) /\ Cardinality(1..Len(waiters)) = Len(waiters)
    <2>1. 1 \in Int /\ Len(waiters) \in Int
      BY <1>1
    <2>2. /\ IsFiniteSet(1..Len(waiters))
          /\ Cardinality(1..Len(waiters)) = IF 1 > Len(waiters) THEN 0 ELSE Len(waiters) - 1 + 1
      BY <2>1, FS_Interval
    <2> QED BY <1>1, <2>2
  <1> QED BY <1>2, <1>3, <1>4, FS_Surjection

\* A session that waits for a card is ended by a scan, its administrator, a
\* restart or its own timer a minute after it began, for any administrators.
THEOREM SessionsHaveTheirTimer == EnrolmentSpec => []SessionsLastTheirMinute
  <1>1. EnrolmentInv => SessionsLastTheirMinute
    <2> SUFFICES ASSUME EnrolmentInv, NEW i \in 1..Len(waiters)
                 PROVE  TimersOf(waiters[i].admin)
                          = {[admin |-> waiters[i].admin, due |-> waiters[i].since + Minute]}
      BY TimersCounted DEF SessionsLastTheirMinute
    <2>1. i \in DOMAIN waiters
      BY DEF EnrolmentInv, EnrolmentTyped, EnrolmentTypeOK
    <2> QED BY <2>1 DEF EnrolmentInv, TimersOf, TimerOf
  <1> QED BY <1>1, EnrolmentInvInit, EnrolmentInvStep, PTL DEF EnrolmentSpec

----------------------------------------------------------------------------
(***************************************************************************)
(* Alerts.  While no two alerts of a key are under way at once, what the   *)
(* only one of them is about to insert or to log comes a window after all  *)
(* that was inserted or logged before.                                     *)
(***************************************************************************)
NoticeRow == [key : Keys \cup {Nil}, user : Recipients, at : 0..MaxTime, read : BOOLEAN]
MailRow == [key : Keys, at : 0..MaxTime, ok : BOOLEAN]
NoticeRequest == [pc : {"dedupe", "insert", "mail", "log"}, key : Keys \cup {Nil},
                  mail : BOOLEAN, left : SUBSET Recipients, rounds : SUBSET SUBSET Recipients]
\* The only requests without a key are announcements.
NoticeJobs ==
  {Idle} \cup {j \in NoticeRequest : j.key = Nil => j.pc = "insert" /\ j.mail = FALSE /\ j.rounds = {}}
NoticesTyped == NoticesTypeOK /\ now \in 0..MaxTime /\ job \in [Threads -> NoticeJobs]

ToldLongAgo(k, u) ==
  \A i \in DOMAIN notices :
    (notices[i].key = k /\ notices[i].user = u) => notices[i].at + NoticeWindow < now
MailedLongAgo(k) ==
  \A i \in DOMAIN mailLog : (mailLog[i].key = k /\ mailLog[i].ok) => mailLog[i].at + MailWindow < now
OneAlert(k) ==
  /\ \A t, x \in Threads :
       (job[t] # Idle /\ job[x] # Idle /\ job[t].key = k /\ job[x].key = k) => t = x
  /\ \A t \in Threads :
       /\ (At(t, "insert") /\ job[t].key = k) => \A u \in job[t].left : ToldLongAgo(k, u)
       /\ (At(t, "log") /\ job[t].key = k) => MailedLongAgo(k)
NoticesInv == NoticesTyped /\ AlertsAreSpaced /\ \A k \in Keys \ crossed : OneAlert(k)

LEMMA IdleNotice == Idle \in NoticeJobs /\ Idle.pc = "idle"
  BY DEF NoticeJobs, Idle

LEMMA NoticeJobTypes ==
  ASSUME NEW j \in NoticeJobs, j.pc # "idle"
  PROVE  j # Idle /\ j \in NoticeRequest /\ (j.pc # "insert" => j.key \in Keys)
  BY DEF NoticeJobs, NoticeRequest, Idle

LEMMA OnwardGoesOn ==
  ASSUME NEW j \in NoticeRequest, j.key = Nil => j.pc = "insert" /\ j.mail = FALSE /\ j.rounds = {}
  PROVE  /\ Onward(j) \in NoticeJobs
         /\ \/ Onward(j) \in {j, Idle}
            \/ Onward(j).key = j.key /\ Onward(j).pc \in {"dedupe", "mail"}
  <1>1. CASE j.left # {}
    BY <1>1 DEF Onward, NoticeJobs
  <1>2. CASE j.left = {} /\ j.rounds # {}
    <2>1. PICK k : k = [j EXCEPT !.pc = "dedupe"]
      OBVIOUS
    <2>2. k \in NoticeRequest /\ k.key = j.key /\ k.pc = "dedupe" /\ k.key # Nil
      BY <1>2, <2>1 DEF NoticeRequest
    <2>3. Onward(j) = k
      BY <1>2, <2>1 DEF Onward
    <2> QED BY <2>2, <2>3 DEF NoticeJobs
  <1>3. CASE j.left = {} /\ j.rounds = {} /\ j.mail
    <2>1. PICK k : k = [j EXCEPT !.pc = "mail"]
      OBVIOUS
    <2>2. k \in NoticeRequest /\ k.key = j.key /\ k.pc = "mail" /\ k.key # Nil
      BY <1>3, <2>1 DEF NoticeRequest
    <2>3. Onward(j) = k
      BY <1>3, <2>1 DEF Onward
    <2> QED BY <2>2, <2>3 DEF NoticeJobs
  <1>4. CASE j.left = {} /\ j.rounds = {} /\ ~j.mail
    BY <1>4, IdleNotice DEF Onward
  <1> QED BY <1>1, <1>2, <1>3, <1>4

\* A request goes on with its key, and with the rows checked that it needs.
LEMMA RequestGoesOn ==
  ASSUME NoticesInv, NEW t \in Threads, NEW j \in NoticeJobs,
         job' = [job EXCEPT ![t] = j], UNCHANGED <<notices, mailLog, crossed, now>>,
         j = Idle \/ j.key = Nil \/ (job[t] # Idle /\ job[t].key = j.key),
         (j.pc = "insert" /\ j.key \in Keys \ crossed) => \A u \in j.left : ToldLongAgo(j.key, u),
         (j.pc = "log" /\ j.key \in Keys \ crossed) => MailedLongAgo(j.key)
  PROVE  NoticesInv'
  <1>0. NoticesTyped
    BY DEF NoticesInv
  <1>1. NoticesTyped'
    BY <1>0 DEF NoticesTyped, NoticesTypeOK
  <1>2. AlertsAreSpaced'
    BY DEF NoticesInv, AlertsAreSpaced
  <1>3. job'[t] = j /\ \A x \in Threads \ {t} : job'[x] = job[x]
    BY <1>0 DEF NoticesTyped
  <1>4. ASSUME NEW k \in Keys \ crossed'
        PROVE  OneAlert(k)'
    <2>1. OneAlert(k) /\ k # Nil
      BY <1>4, NoticeAssumption DEF NoticesInv
    <2>2. \A x \in Threads : (job'[x] # Idle /\ job'[x].key = k) => job[x] # Idle /\ job[x].key = k
      BY <1>3, <2>1
    <2>3. \A u : ToldLongAgo(k, u)' <=> ToldLongAgo(k, u)
      BY DEF ToldLongAgo
    <2>4. MailedLongAgo(k)' <=> MailedLongAgo(k)
      BY DEF MailedLongAgo
    <2>5. ASSUME NEW x \in Threads
          PROVE  /\ (job'[x].pc = "insert" /\ job'[x].key = k) => \A u \in job'[x].left : ToldLongAgo(k, u)'
                 /\ (job'[x].pc = "log" /\ job'[x].key = k) => MailedLongAgo(k)'
      <3>1. CASE x = t
        BY <1>3, <1>4, <2>3, <2>4, <3>1
      <3>2. CASE x # t
        BY <1>3, <2>1, <2>3, <2>4, <3>2 DEF OneAlert, At
      <3> QED BY <3>1, <3>2
    <2> QED BY <2>1, <2>2, <2>5 DEF OneAlert, At
  <1> QED BY <1>1, <1>2, <1>4 DEF NoticesInv

LEMMA AlertKeeps ==
  ASSUME NoticesInv, NEW t \in Threads, NEW k \in Keys, NEW mail \in BOOLEAN, Alert(t, k, mail)
  PROVE  NoticesInv'
  <1>1. PICK j : j = [pc |-> "dedupe", key |-> k, mail |-> mail, left |-> {},
                      rounds |-> IF mail THEN {Recipients} ELSE {{u} : u \in Recipients}]
    OBVIOUS
  <1>2. /\ job[t] = Idle /\ job' = [job EXCEPT ![t] = j] /\ UNCHANGED <<notices, mailLog, now>>
        /\ crossed' = IF Alerting(k) THEN crossed \cup {k} ELSE crossed
    BY <1>1 DEF Alert, Arrive, IsFree
  <1>3. j.pc = "dedupe" /\ j.key = k /\ j \in NoticeJobs
    BY <1>1, NoticeAssumption DEF NoticeJobs, NoticeRequest
  <1>0. NoticesTyped
    BY DEF NoticesInv
  <1>4. NoticesTyped'
    BY <1>0, <1>2, <1>3 DEF NoticesTyped, NoticesTypeOK
  <1>5. AlertsAreSpaced'
    BY <1>2 DEF NoticesInv, AlertsAreSpaced
  <1>6. job'[t] = j /\ \A x \in Threads \ {t} : job'[x] = job[x]
    BY <1>0, <1>2 DEF NoticesTyped
  <1>7. ASSUME NEW m \in Keys \ crossed'
        PROVE  OneAlert(m)'
    <2>1. OneAlert(m) /\ m \notin crossed
      BY <1>2, <1>7 DEF NoticesInv
    <2>2. m = k => ~Alerting(k)
      BY <1>2, <1>7
    <2>3. \A u : ToldLongAgo(m, u)' <=> ToldLongAgo(m, u)
      BY <1>2 DEF ToldLongAgo
    <2>4. MailedLongAgo(m)' <=> MailedLongAgo(m)
      BY <1>2 DEF MailedLongAgo
    <2>5. \A x, y \in Threads :
            (job'[x] # Idle /\ job'[y] # Idle /\ job'[x].key = m /\ job'[y].key = m) => x = y
      BY <1>3, <1>6, <2>1, <2>2 DEF OneAlert, Alerting
    <2>6. ASSUME NEW x \in Threads
          PROVE  /\ (job'[x].pc = "insert" /\ job'[x].key = m) => \A u \in job'[x].left : ToldLongAgo(m, u)'
                 /\ (job'[x].pc = "log" /\ job'[x].key = m) => MailedLongAgo(m)'
      BY <1>3, <1>6, <2>1, <2>3, <2>4 DEF OneAlert, At
    <2> QED BY <2>5, <2>6 DEF OneAlert, At
  <1> QED BY <1>4, <1>5, <1>7 DEF NoticesInv

LEMMA AnnounceKeeps == ASSUME NoticesInv, NEW t \in Threads, Announce(t) PROVE NoticesInv'
  <1>1. PICK j : j = [pc |-> "insert", key |-> Nil, mail |-> FALSE, left |-> Recipients, rounds |-> {}]
    OBVIOUS
  <1>2. job' = [job EXCEPT ![t] = j] /\ UNCHANGED <<notices, mailLog, crossed, now>>
    BY <1>1 DEF Announce, Arrive, noticed
  <1>3. j \in NoticeJobs /\ j.key = Nil /\ j.pc = "insert"
    BY <1>1 DEF NoticeJobs, NoticeRequest
  <1> QED BY <1>2, <1>3, NoticeAssumption, RequestGoesOn

LEMMA DedupeKeeps == ASSUME NoticesInv, NEW t \in Threads, Dedupe(t) PROVE NoticesInv'
  <1>0. NoticesTyped
    BY DEF NoticesInv
  <1>1. PICK r \in job[t].rounds :
          GoTo(t, LET rest == [job[t] EXCEPT !.rounds = job[t].rounds \ {r}] IN
                  IF Recent(job[t].key) THEN Onward(rest)
                  ELSE [rest EXCEPT !.pc = "insert", !.left = r])
    BY DEF Dedupe
  <1>2. /\ job[t].pc = "dedupe" /\ job[t] # Idle /\ job[t] \in NoticeRequest /\ job[t].key \in Keys
        /\ UNCHANGED <<notices, mailLog, crossed, now>>
    BY <1>0, <1>1, NoticeJobTypes DEF Dedupe, At, NoticesTyped, noticed, GoTo
  <1>3. PICK rest : rest = [job[t] EXCEPT !.rounds = job[t].rounds \ {r}]
    OBVIOUS
  <1>4. rest \in NoticeRequest /\ rest.key = job[t].key /\ rest.pc = "dedupe"
    BY <1>2, <1>3 DEF NoticeRequest
  <1>5. CASE Recent(job[t].key)
    <2>1. job' = [job EXCEPT ![t] = Onward(rest)]
      BY <1>1, <1>3, <1>5 DEF GoTo
    <2>2. /\ Onward(rest) \in NoticeJobs
          /\ Onward(rest) = Idle \/ (Onward(rest).key = job[t].key /\ Onward(rest).pc \in {"dedupe", "mail"})
      BY <1>2, <1>4, NoticeAssumption, OnwardGoesOn
    <2>3. Onward(rest).pc \notin {"insert", "log"}
      BY <2>2, IdleNotice
    <2> QED BY <1>2, <2>1, <2>2, <2>3, RequestGoesOn
  <1>6. CASE ~Recent(job[t].key)
    <2>1. PICK j : j = [rest EXCEPT !.pc = "insert", !.left = r]
      OBVIOUS
    <2>2. r \subseteq Recipients
      BY <1>1, <1>2 DEF NoticeRequest
    <2>3. j \in NoticeRequest /\ j.pc = "insert" /\ j.key = job[t].key /\ j.left = r
      BY <1>4, <2>1, <2>2 DEF NoticeRequest
    <2>4. j \in NoticeJobs
      BY <1>2, <2>3, NoticeAssumption DEF NoticeJobs
    <2>5. job' = [job EXCEPT ![t] = j]
      BY <1>1, <1>3, <1>6, <2>1 DEF GoTo
    <2>6. \A u : ToldLongAgo(j.key, u)
      <3>1. notices \in Seq(NoticeRow)
        BY <1>0 DEF NoticesTyped, NoticesTypeOK, NoticeRow
      <3>2. \A i \in DOMAIN notices : notices[i] \in Rows(notices) /\ notices[i].at \in Nat
        <4>1. DOMAIN notices = 1..Len(notices) /\ \A i \in DOMAIN notices : notices[i] \in NoticeRow
          BY <3>1
        <4>2. \A n \in NoticeRow : n.at \in Nat
          BY ServiceAssumption DEF NoticeRow
        <4> QED BY <4>1, <4>2 DEF Rows
      <3>3. \A i \in DOMAIN notices : notices[i].key = j.key => ~(notices[i].at + NoticeWindow >= now)
        BY <1>6, <2>3, <3>2 DEF Recent
      <3> QED BY <1>0, <3>2, <3>3, NoticeAssumption DEF ToldLongAgo, NoticesTyped
    <2> QED BY <1>2, <2>3, <2>4, <2>5, <2>6, RequestGoesOn
  <1> QED BY <1>5, <1>6

\* A row is inserted for a user who was told of its key a window ago.
LEMMA NoticeInserted ==
  ASSUME NoticesInv, NEW t \in Threads, NEW j \in NoticeJobs, NEW u \in job[t].left, NEW row \in NoticeRow,
         At(t, "insert"), row.key = job[t].key, row.user = u, row.at = now,
         notices' = Append(notices, row), UNCHANGED <<mailLog, crossed, now>>,
         job' = [job EXCEPT ![t] = j],
         \/ j = Idle
         \/ j.key = job[t].key /\ j.pc \in {"dedupe", "mail"}
         \/ j.key = job[t].key /\ j.pc = "insert" /\ j.left = job[t].left \ {u}
  PROVE  NoticesInv'
  <1>0. NoticesTyped /\ notices \in Seq(NoticeRow) /\ job[t] # Idle
    BY IdleNotice DEF NoticesInv, NoticesTyped, NoticesTypeOK, NoticeRow, At
  <1>1. /\ notices' \in Seq(NoticeRow) /\ notices'[Len(notices) + 1] = row
        /\ DOMAIN notices' = DOMAIN notices \cup {Len(notices) + 1}
        /\ \A i \in DOMAIN notices : notices'[i] = notices[i] /\ i <= Len(notices)
        /\ DOMAIN notices \subseteq Nat /\ Len(notices) \in Nat
    BY <1>0, AppendProperties
  <1>2. NoticesTyped'
    BY <1>0, <1>1 DEF NoticesTyped, NoticesTypeOK, NoticeRow
  <1>3. job'[t] = j /\ \A x \in Threads \ {t} : job'[x] = job[x]
    BY <1>0 DEF NoticesTyped
  <1>4. ASSUME NEW k \in Keys \ crossed', NEW i \in DOMAIN notices', NEW m \in DOMAIN notices',
               i < m, notices'[i].key = k, notices'[m].key = k, notices'[i].user = notices'[m].user
        PROVE  notices'[i].at + NoticeWindow < notices'[m].at
    <2>1. CASE m \in DOMAIN notices
      <3>1. i \in DOMAIN notices
        BY <1>1, <1>4, <2>1
      <3> QED BY <1>1, <1>4, <2>1, <3>1 DEF NoticesInv, AlertsAreSpaced
    <2>2. CASE m = Len(notices) + 1
      <3>1. i \in DOMAIN notices /\ k = job[t].key /\ notices[i].user = u
        BY <1>1, <1>4, <2>2
      <3>2. ToldLongAgo(k, u)
        BY <1>4, <3>1 DEF NoticesInv, OneAlert
      <3> QED BY <1>1, <1>4, <2>2, <3>1, <3>2 DEF ToldLongAgo
    <2> QED BY <1>1, <1>4, <2>1, <2>2
  <1>5. AlertsAreSpaced'
    BY <1>4 DEF NoticesInv, AlertsAreSpaced
  <1>6. ASSUME NEW k \in Keys \ crossed'
        PROVE  OneAlert(k)'
    <2>1. OneAlert(k)
      BY <1>6 DEF NoticesInv
    <2>2. \A x \in Threads : (job'[x] # Idle /\ job'[x].key = k) => job[x] # Idle /\ job[x].key = k
      BY <1>0, <1>3
    <2>3. \A v : ToldLongAgo(k, v) /\ ~(row.key = k /\ v = u) => ToldLongAgo(k, v)'
      BY <1>1 DEF ToldLongAgo
    <2>4. MailedLongAgo(k)' <=> MailedLongAgo(k)
      BY DEF MailedLongAgo
    <2>5. ASSUME NEW x \in Threads
          PROVE  /\ (job'[x].pc = "insert" /\ job'[x].key = k) => \A v \in job'[x].left : ToldLongAgo(k, v)'
                 /\ (job'[x].pc = "log" /\ job'[x].key = k) => MailedLongAgo(k)'
      <3>1. CASE x = t
        BY <1>3, <2>1, <2>3, <3>1, IdleNotice DEF OneAlert, At
      <3>2. CASE x # t
        <4>1. (job[x] # Idle /\ job[x].key = k) => row.key # k
          BY <1>0, <2>1, <3>2 DEF OneAlert
        <4> QED BY <1>3, <2>1, <2>3, <2>4, <3>2, <4>1, IdleNotice DEF OneAlert, At
      <3> QED BY <3>1, <3>2
    <2> QED BY <2>1, <2>2, <2>5 DEF OneAlert, At
  <1> QED BY <1>2, <1>5, <1>6 DEF NoticesInv

LEMMA InsertNoticeKeeps ==
  ASSUME NoticesInv, NEW t \in Threads, InsertNotice(t)
  PROVE  NoticesInv'
  <1>0. NoticesTyped
    BY DEF NoticesInv
  <1>1. PICK u \in job[t].left :
          /\ \/ notices' = Append(notices, [key |-> job[t].key, user |-> u, at |-> now, read |-> FALSE])
             \/ UNCHANGED notices
          /\ GoTo(t, Onward([job[t] EXCEPT !.left = job[t].left \ {u}]))
    BY DEF InsertNotice
  <1>2. /\ job[t].pc = "insert" /\ job[t] # Idle /\ job[t] \in NoticeRequest /\ job[t] \in NoticeJobs
        /\ UNCHANGED <<mailLog, crossed, now>>
    BY <1>0, <1>1, NoticeJobTypes DEF InsertNotice, At, NoticesTyped, GoTo
  <1>3. PICK rest : rest = [job[t] EXCEPT !.left = job[t].left \ {u}]
    OBVIOUS
  <1>4. /\ rest \in NoticeRequest /\ rest.key = job[t].key /\ rest.pc = "insert"
        /\ rest.left = job[t].left \ {u} /\ rest.mail = job[t].mail /\ rest.rounds = job[t].rounds
    BY <1>2, <1>3 DEF NoticeRequest
  <1>5. rest.key = Nil => rest.pc = "insert" /\ rest.mail = FALSE /\ rest.rounds = {}
    BY <1>2, <1>4 DEF NoticeJobs
  <1>6. PICK j \in NoticeJobs :
          /\ job' = [job EXCEPT ![t] = j]
          /\ \/ j \in {rest, Idle}
             \/ j.key = rest.key /\ j.pc \in {"dedupe", "mail"}
    BY <1>1, <1>3, <1>4, <1>5, OnwardGoesOn DEF GoTo
  <1>7. CASE UNCHANGED notices
    <2>1. j = Idle \/ j.key = job[t].key
      BY <1>4, <1>6
    <2>2. (j.pc = "insert" /\ j.key \in Keys \ crossed) => \A v \in j.left : ToldLongAgo(j.key, v)
      BY <1>2, <1>4, <1>6, IdleNotice DEF NoticesInv, OneAlert, At
    <2>3. j.pc # "log"
      BY <1>4, <1>6, IdleNotice
    <2> QED BY <1>2, <1>6, <1>7, <2>1, <2>2, <2>3, RequestGoesOn
  <1>8. CASE notices' = Append(notices, [key |-> job[t].key, user |-> u, at |-> now, read |-> FALSE])
    <2>1. PICK row : row = [key |-> job[t].key, user |-> u, at |-> now, read |-> FALSE]
      OBVIOUS
    <2>2. row \in NoticeRow /\ row.key = job[t].key /\ row.user = u /\ row.at = now
      <3>1. job[t].key \in Keys \cup {Nil} /\ u \in Recipients /\ now \in 0..MaxTime
        BY <1>0, <1>1, <1>2 DEF NoticeRequest, NoticesTyped
      <3> QED BY <2>1, <3>1 DEF NoticeRow
    <2>3. \/ j = Idle
          \/ j.key = job[t].key /\ j.pc \in {"dedupe", "mail"}
          \/ j.key = job[t].key /\ j.pc = "insert" /\ j.left = job[t].left \ {u}
      BY <1>4, <1>6
    <2>4. notices' = Append(notices, row) /\ At(t, "insert")
      BY <1>2, <1>8, <2>1 DEF At
    <2>5. job' = [job EXCEPT ![t] = j]
      BY <1>6
    <2> HIDE <1>8
    <2> QED BY <1>2, <2>2, <2>3, <2>4, <2>5, NoticeInserted
  <1> QED BY <1>1, <1>7, <1>8

LEMMA MailCheckKeeps == ASSUME NoticesInv, NEW t \in Threads, MailCheck(t) PROVE NoticesInv'
  <1>0. NoticesTyped
    BY DEF NoticesInv
  <1>1. /\ job[t].pc = "mail" /\ job[t] # Idle /\ job[t] \in NoticeRequest /\ job[t].key \in Keys
        /\ UNCHANGED <<notices, mailLog, crossed, now>>
    BY <1>0, NoticeJobTypes DEF MailCheck, At, NoticesTyped, noticed, Finish, GoTo
  <1>2. CASE Mailed(job[t].key)
    <2>1. job' = [job EXCEPT ![t] = Idle]
      BY <1>2 DEF MailCheck, Finish, GoTo
    <2> QED BY <1>1, <2>1, IdleNotice, RequestGoesOn
  <1>3. CASE ~Mailed(job[t].key)
    <2>1. PICK j : j = [job[t] EXCEPT !.pc = "log"]
      OBVIOUS
    <2>2. j \in NoticeRequest /\ j.pc = "log" /\ j.key = job[t].key
      BY <1>1, <2>1 DEF NoticeRequest
    <2>3. j \in NoticeJobs /\ job' = [job EXCEPT ![t] = j]
      BY <1>1, <1>3, <2>1, <2>2, NoticeAssumption DEF NoticeJobs, MailCheck, GoTo
    <2>4. MailedLongAgo(j.key)
      <3>1. mailLog \in Seq(MailRow)
        BY <1>0 DEF NoticesTyped, NoticesTypeOK, MailRow
      <3>2. \A i \in DOMAIN mailLog : mailLog[i] \in Rows(mailLog) /\ mailLog[i].at \in Nat
        <4>1. DOMAIN mailLog = 1..Len(mailLog) /\ \A i \in DOMAIN mailLog : mailLog[i] \in MailRow
          BY <3>1
        <4>2. \A m \in MailRow : m.at \in Nat
          BY ServiceAssumption DEF MailRow
        <4> QED BY <4>1, <4>2 DEF Rows
      <3>3. \A i \in DOMAIN mailLog : (mailLog[i].key = j.key /\ mailLog[i].ok)
                                       => ~(mailLog[i].at + MailWindow >= now)
        BY <1>3, <2>2, <3>2 DEF Mailed
      <3> QED BY <1>0, <3>2, <3>3, NoticeAssumption DEF MailedLongAgo, NoticesTyped
    <2> QED BY <1>1, <2>2, <2>3, <2>4, RequestGoesOn
  <1> QED BY <1>2, <1>3

LEMMA MailLogKeeps == ASSUME NoticesInv, NEW t \in Threads, MailLog(t) PROVE NoticesInv'
  <1>0. NoticesTyped /\ mailLog \in Seq(MailRow)
    BY DEF NoticesInv, NoticesTyped, NoticesTypeOK, MailRow
  <1>1. /\ job[t].pc = "log" /\ job[t] # Idle /\ job[t] \in NoticeRequest /\ job[t].key \in Keys
        /\ UNCHANGED <<notices, crossed, now>> /\ job' = [job EXCEPT ![t] = Idle]
    BY <1>0, NoticeJobTypes DEF MailLog, At, NoticesTyped, Finish, GoTo
  <1>2. CASE UNCHANGED mailLog
    BY <1>1, <1>2, IdleNotice, RequestGoesOn
  <1>3. CASE \E ok \in BOOLEAN : mailLog' = Append(mailLog, [key |-> job[t].key, at |-> now, ok |-> ok])
    <2>0. PICK ok \in BOOLEAN : mailLog' = Append(mailLog, [key |-> job[t].key, at |-> now, ok |-> ok])
      BY <1>3
    <2>1. PICK row : /\ row = [key |-> job[t].key, at |-> now, ok |-> ok]
                     /\ mailLog' = Append(mailLog, row)
      BY <2>0
    <2>2. row \in MailRow /\ row.key = job[t].key /\ row.at = now
      BY <1>0, <1>1, <2>1 DEF MailRow, NoticesTyped
    <2>3. /\ mailLog' \in Seq(MailRow) /\ mailLog'[Len(mailLog) + 1] = row
          /\ DOMAIN mailLog' = DOMAIN mailLog \cup {Len(mailLog) + 1}
          /\ \A i \in DOMAIN mailLog : mailLog'[i] = mailLog[i] /\ i <= Len(mailLog)
          /\ DOMAIN mailLog \subseteq Nat /\ Len(mailLog) \in Nat
      BY <1>0, <2>1, <2>2, AppendProperties
    <2>4. NoticesTyped'
      BY <1>0, <1>1, <2>3, IdleNotice DEF NoticesTyped, NoticesTypeOK, MailRow
    <2>5. job'[t] = Idle /\ \A x \in Threads \ {t} : job'[x] = job[x]
      BY <1>0, <1>1 DEF NoticesTyped
    <2>6. ASSUME NEW k \in Keys \ crossed', NEW i \in DOMAIN mailLog', NEW m \in DOMAIN mailLog',
                 i < m, mailLog'[i].key = k, mailLog'[m].key = k, mailLog'[i].ok, mailLog'[m].ok
          PROVE  mailLog'[i].at + MailWindow < mailLog'[m].at
      <3>1. CASE m \in DOMAIN mailLog
        <4>1. i \in DOMAIN mailLog
          BY <2>3, <2>6, <3>1
        <4> QED BY <1>1, <2>3, <2>6, <3>1, <4>1 DEF NoticesInv, AlertsAreSpaced
      <3>2. CASE m = Len(mailLog) + 1
        <4>1. i \in DOMAIN mailLog /\ k = job[t].key /\ mailLog[i].ok /\ mailLog[i].key = k
          BY <2>2, <2>3, <2>6, <3>2
        <4>2. MailedLongAgo(k)
          BY <1>1, <2>6, <4>1 DEF NoticesInv, OneAlert, At
        <4> QED BY <2>2, <2>3, <2>6, <3>2, <4>1, <4>2 DEF MailedLongAgo
      <3> QED BY <2>3, <2>6, <3>1, <3>2
    <2>7. AlertsAreSpaced'
      BY <1>1, <2>6 DEF NoticesInv, AlertsAreSpaced
    <2>8. ASSUME NEW k \in Keys \ crossed'
          PROVE  OneAlert(k)'
      <3>1. OneAlert(k)
        BY <1>1, <2>8 DEF NoticesInv
      <3>2. \A v : ToldLongAgo(k, v)' <=> ToldLongAgo(k, v)
        BY <1>1 DEF ToldLongAgo
      <3>3. k # job[t].key => (MailedLongAgo(k) => MailedLongAgo(k)')
        BY <1>1, <2>2, <2>3 DEF MailedLongAgo
      <3>4. ASSUME NEW x \in Threads
            PROVE  /\ (job'[x].pc = "insert" /\ job'[x].key = k) => \A v \in job'[x].left : ToldLongAgo(k, v)'
                   /\ (job'[x].pc = "log" /\ job'[x].key = k) => MailedLongAgo(k)'
        <4>1. CASE x = t
          BY <2>5, <4>1, IdleNotice
        <4>2. CASE x # t
          BY <1>1, <2>5, <3>1, <3>2, <3>3, <4>2, IdleNotice DEF OneAlert, At
        <4> QED BY <4>1, <4>2
      <3> QED BY <2>5, <3>1, <3>4 DEF OneAlert, At
    <2> QED BY <2>4, <2>7, <2>8 DEF NoticesInv
  <1> QED BY <1>2, <1>3 DEF MailLog

\* Rows are read or deleted: g tells where the rows that stay were.
LEMMA NoticesThinned ==
  ASSUME NoticesInv, notices' \in Seq(NoticeRow), UNCHANGED <<mailLog, crossed, now, job>>,
         NEW g \in [DOMAIN notices' -> DOMAIN notices],
         \A i, j \in DOMAIN notices' : i < j => g[i] < g[j],
         \A i \in DOMAIN notices' : /\ notices'[i].key = notices[g[i]].key
                                   /\ notices'[i].user = notices[g[i]].user
                                   /\ notices'[i].at = notices[g[i]].at
  PROVE  NoticesInv'
  <1>1. NoticesTyped'
    BY DEF NoticesInv, NoticesTyped, NoticesTypeOK, NoticeRow
  <1>2. ASSUME NEW k \in Keys \ crossed', NEW i \in DOMAIN notices', NEW m \in DOMAIN notices',
               i < m, notices'[i].key = k, notices'[m].key = k, notices'[i].user = notices'[m].user
        PROVE  notices'[i].at + NoticeWindow < notices'[m].at
    <2>1. g[i] \in DOMAIN notices /\ g[m] \in DOMAIN notices /\ g[i] < g[m]
      BY <1>2
    <2> QED BY <1>2, <2>1 DEF NoticesInv, AlertsAreSpaced
  <1>3. AlertsAreSpaced'
    BY <1>2 DEF NoticesInv, AlertsAreSpaced
  <1>4. ASSUME NEW k \in Keys \ crossed' PROVE OneAlert(k)'
    <2>1. OneAlert(k)
      BY <1>4 DEF NoticesInv
    <2>2. \A u : ToldLongAgo(k, u) => ToldLongAgo(k, u)'
      BY DEF ToldLongAgo
    <2>3. MailedLongAgo(k)' <=> MailedLongAgo(k)
      BY DEF MailedLongAgo
    <2> QED BY <2>1, <2>2, <2>3 DEF OneAlert, At
  <1> QED BY <1>1, <1>3, <1>4 DEF NoticesInv

LEMMA ReadingKeeps ==
  ASSUME NoticesInv,
         (\E u \in Recipients : MarkRead(u)) \/ (\E i \in DOMAIN notices : DeleteOne(i)) \/ Cleanup
  PROVE  NoticesInv'
  <1>0. notices \in Seq(NoticeRow) /\ DOMAIN notices = 1..Len(notices) /\ Len(notices) \in Nat
    BY DEF NoticesInv, NoticesTyped, NoticesTypeOK, NoticeRow
  <1>r. UNCHANGED <<mailLog, crossed, now, job>>
    BY DEF MarkRead, DeleteOne, Cleanup, Serve, control
  <1>1. ASSUME NEW u \in Recipients, MarkRead(u) PROVE NoticesInv'
    <2>1. notices' = [i \in DOMAIN notices |->
            IF notices[i].user = u THEN [notices[i] EXCEPT !.read = TRUE] ELSE notices[i]]
      BY <1>1 DEF MarkRead
    <2>2. \A n \in NoticeRow : /\ [n EXCEPT !.read = TRUE] \in NoticeRow
                              /\ [n EXCEPT !.read = TRUE].key = n.key
                              /\ [n EXCEPT !.read = TRUE].user = n.user
                              /\ [n EXCEPT !.read = TRUE].at = n.at
      BY DEF NoticeRow
    <2>3. \A i \in DOMAIN notices : notices[i] \in NoticeRow
      BY <1>0
    <2>4. /\ notices' \in [1..Len(notices) -> NoticeRow]
          /\ \A i \in DOMAIN notices : /\ notices'[i].key = notices[i].key
                                      /\ notices'[i].user = notices[i].user
                                      /\ notices'[i].at = notices[i].at
      <3> HIDE DEF NoticeRow
      <3> QED BY <1>0, <2>1, <2>2, <2>3
    <2>5. notices' \in Seq(NoticeRow) /\ DOMAIN notices' = DOMAIN notices
      BY <1>0, <2>4, SeqDef
    <2>6. PICK g \in [DOMAIN notices' -> DOMAIN notices] : \A i \in DOMAIN notices' : g[i] = i
      <3>1. [i \in DOMAIN notices' |-> i] \in [DOMAIN notices' -> DOMAIN notices]
        BY <2>5
      <3> QED BY <3>1
    <2> QED BY <1>r, <2>4, <2>5, <2>6, NoticesThinned
  <1>2. ASSUME NEW n \in DOMAIN notices, DeleteOne(n) PROVE NoticesInv'
    <2>1. notices' = SubSeq(notices, 1, n - 1) \o SubSeq(notices, n + 1, Len(notices))
      BY <1>2 DEF DeleteOne
    <2>2. /\ notices' \in Seq(NoticeRow) /\ Len(notices') = Len(notices) - 1
          /\ \A k \in 1..Len(notices') : notices'[k] = notices[IF k < n THEN k ELSE k + 1]
      <3>1. n \in 1..Len(notices)
        BY <1>0, <1>2
      <3>2. \A r : r = SubSeq(notices, 1, n - 1) \o SubSeq(notices, n + 1, Len(notices)) =>
                 /\ r \in Seq(NoticeRow) /\ Len(r) = Len(notices) - 1
                 /\ \A k \in 1..Len(r) : r[k] = notices[IF k < n THEN k ELSE k + 1]
        BY <1>0, <3>1, WithoutOne
      <3> QED BY <2>1, <3>2
    <2>3. DOMAIN notices' = 1..(Len(notices) - 1)
      BY <2>2
    <2>4. PICK g \in [DOMAIN notices' -> DOMAIN notices] :
            \A k \in DOMAIN notices' : g[k] = IF k < n THEN k ELSE k + 1
      <3>1. [k \in DOMAIN notices' |-> IF k < n THEN k ELSE k + 1] \in [DOMAIN notices' -> DOMAIN notices]
        BY <1>0, <2>3
      <3> QED BY <3>1
    <2>5. \A i, j \in DOMAIN notices' : i < j => g[i] < g[j]
      BY <1>0, <2>3, <2>4
    <2>6. \A i \in DOMAIN notices' : notices'[i] = notices[g[i]]
      BY <2>2, <2>3, <2>4
    <2> QED BY <1>r, <2>2, <2>5, <2>6, NoticesThinned
  <1>3. ASSUME Cleanup PROVE NoticesInv'
    <2>1. PICK kept \in SUBSET DOMAIN notices :
            \E f \in Rising(kept) : notices' = [i \in DOMAIN f |-> notices[f[i]]]
      BY <1>3 DEF Cleanup
    <2>2. PICK f \in Rising(kept) : notices' = [i \in DOMAIN f |-> notices[f[i]]]
      BY <2>1
    <2>3. /\ f \in [1..Cardinality(kept) -> kept] /\ Cardinality(kept) \in Nat
          /\ \A i, j \in DOMAIN f : i < j => f[i] < f[j]
      <3>1. IsFiniteSet(DOMAIN notices)
        BY <1>0, FS_Interval
      <3>2. Cardinality(kept) \in Nat
        BY <3>1, FS_Subset, FS_CardinalityType
      <3> QED BY <3>2 DEF Rising
    <2>4. \A i \in 1..Cardinality(kept) : f[i] \in DOMAIN notices /\ notices[f[i]] \in NoticeRow
      BY <1>0, <2>3
    <2>5. notices' \in [1..Cardinality(kept) -> NoticeRow] /\ DOMAIN notices' = DOMAIN f
      BY <2>2, <2>3, <2>4
    <2>6. notices' \in Seq(NoticeRow)
      BY <2>3, <2>5, SeqDef
    <2>7. f \in [DOMAIN notices' -> DOMAIN notices]
      BY <2>3, <2>5
    <2> QED BY <1>r, <2>2, <2>3, <2>5, <2>6, <2>7, NoticesThinned
  <1> QED BY <1>1, <1>2, <1>3

LEMMA NoticesRest ==
  ASSUME NoticesInv, NoticesRestart \/ (Pass /\ UNCHANGED noticed)
  PROVE  NoticesInv'
  <1>1. UNCHANGED <<notices, mailLog, crossed>> /\ \A t \in Threads : job'[t] = Idle
    BY DEF NoticesRestart, Pass, noticed, Quiet, IsFree
  <1>2. now' \in 0..MaxTime
    BY ServiceAssumption DEF NoticesInv, NoticesTyped, NoticesRestart, Pass
  <1>3. job' \in [Threads -> NoticeJobs]
    BY IdleNotice DEF NoticesInv, NoticesTyped, NoticesRestart, Pass
  <1>4. NoticesTyped'
    BY <1>1, <1>2, <1>3 DEF NoticesInv, NoticesTyped, NoticesTypeOK
  <1>5. AlertsAreSpaced'
    BY <1>1 DEF NoticesInv, AlertsAreSpaced
  <1>6. \A k \in Keys : OneAlert(k)'
    BY <1>1, IdleNotice DEF OneAlert, At
  <1> QED BY <1>4, <1>5, <1>6 DEF NoticesInv

LEMMA NoticesInvStep == NoticesInv /\ [NoticesNext]_<<noticed, control>> => NoticesInv'
  <1> SUFFICES ASSUME NoticesInv, [NoticesNext]_<<noticed, control>> PROVE NoticesInv'
    OBVIOUS
  <1>1. CASE NoticesNext
    BY <1>1, AlertKeeps, AnnounceKeeps, DedupeKeeps, InsertNoticeKeeps, MailCheckKeeps,
       MailLogKeeps, ReadingKeeps, NoticesRest DEF NoticesNext
  <1>2. CASE UNCHANGED <<noticed, control>>
    <2>1. UNCHANGED <<notices, mailLog, crossed, now, job>>
      BY <1>2 DEF noticed, control
    <2> QED BY <2>1 DEF NoticesInv, NoticesTyped, NoticesTypeOK, AlertsAreSpaced, OneAlert,
                        ToldLongAgo, MailedLongAgo, At
  <1> QED BY <1>1, <1>2

LEMMA NoticesInvInit == NoticesInit => NoticesInv
  <1> SUFFICES ASSUME NoticesInit PROVE NoticesInv
    OBVIOUS
  <1>1. /\ notices = <<>> /\ mailLog = <<>> /\ crossed = {} /\ now = 0
        /\ job = [t \in Threads |-> Idle]
    BY DEF NoticesInit, ControlInit
  <1>2. /\ notices \in Seq(NoticeRow) /\ mailLog \in Seq(MailRow)
        /\ DOMAIN notices = {} /\ DOMAIN mailLog = {}
    BY <1>1
  <1>3. NoticesTyped
    BY <1>1, <1>2, IdleNotice, ServiceAssumption DEF NoticesTyped, NoticesTypeOK, NoticeRow, MailRow
  <1> QED BY <1>1, <1>2, <1>3, IdleNotice DEF NoticesInv, AlertsAreSpaced, OneAlert, At

\* The notices of a user and the mails of an alert are more than a window
\* apart, for any keys, recipients and windows, unless two alerts of the key
\* were under way at once: create, and the alert jobs that call it.
THEOREM AlertsKeepApart == NoticesSpec => []AlertsAreSpaced
  <1>1. NoticesInv => AlertsAreSpaced
    BY DEF NoticesInv
  <1> QED BY <1>1, NoticesInvInit, NoticesInvStep, PTL DEF NoticesSpec

----------------------------------------------------------------------------
(***************************************************************************)
(* The seven services together, each alone in its behaviours.              *)
(***************************************************************************)
OfficeKept ==
  /\ OfficeTypeOK
  /\ part = "parking" => LimitsInv
  /\ part = "beacons" => BeaconInv
  /\ part = "setup" => SetupInv
  /\ part = "enrolment" => EnrolmentInv
  /\ part = "client" => ClientInv
  /\ part = "notices" => NoticesInv
  /\ part = "mail" => MailInv

LEMMA SetupTypes ==
  ASSUME SetupTypeOK, SetupInv, [SetupNext]_<<setup, control>> PROVE SetupTypeOK'
  <1>1. SetupInv'
    BY SetupInvStep
  <1>2. cut' \subseteq TokenIds
    <2>0. cut \subseteq TokenIds
      BY DEF SetupTypeOK
    <2>1. ASSUME NEW k \in TokenIds, NEW t \in Threads, RedeemRead(t, k) PROVE cut' \subseteq TokenIds
      BY <2>0, <2>1 DEF RedeemRead
    <2>2. ASSUME NEW k \in TokenIds, ExpireToken(k) PROVE cut' \subseteq TokenIds
      BY <2>0, <2>2 DEF ExpireToken
    <2>3. CASE SetupRestart
      BY <2>0, <2>3 DEF SetupRestart
    <2> QED BY <2>0, <2>1, <2>2, <2>3
            DEF SetupNext, ExpireOld, CreateToken, RedeemCreate, RedeemMark, setup
  <1> QED BY <1>1, <1>2 DEF SetupInv, SetupTyped, SetupTypeOK

LEMMA ClientTypes ==
  ASSUME ClientTypeOK, ClientInv, [ClientNext]_<<client, control>> PROVE ClientTypeOK'
  <1>1. ClientInv'
    BY ClientInvStep
  <1>2. refreshing' \in BOOLEAN /\ fresh' \in BOOLEAN
    BY DEF ClientTypeOK, ClientNext, ClientStep, Call, Answer, TryRefresh, ToLogin, RefreshOk,
           RefreshFails, TokenExpires, Login, ClientTick, client
  <1>3. now' \in 0..MaxTime /\ (lastFail' = Nil \/ lastFail' \in 0..now')
    BY <1>1 DEF ClientInv
  <1> QED BY <1>1, <1>2, <1>3 DEF ClientInv, ClientTypeOK

LEMMA MailTypes ==
  ASSUME OrgMailTypeOK, MailInv, [OrgMailNext]_<<orgMail, control>> PROVE OrgMailTypeOK'
  <1>1. MailInv'
    BY MailInvStep
  <1>2. crossing' \in BOOLEAN
    BY DEF OrgMailTypeOK, OrgMailNext, SaveSmtp, DeleteSmtp, DropCache, GetTransporter,
           CacheTransporter, SendMail, MarkVerified, MailRestart, orgMail
  <1> QED BY <1>1, <1>2 DEF MailInv, MailTyped, OrgMailTypeOK

LEMMA TypesKept ==
  ASSUME OfficeTypeOK
  PROVE  /\ UNCHANGED parking => ParkingTypeOK'
         /\ UNCHANGED beaconDesks => BeaconDesksTypeOK'
         /\ UNCHANGED setup => SetupTypeOK'
         /\ UNCHANGED enrolment => EnrolmentTypeOK'
         /\ UNCHANGED client => ClientTypeOK'
         /\ UNCHANGED noticed => NoticesTypeOK'
         /\ UNCHANGED orgMail => OrgMailTypeOK'
  <1>1. UNCHANGED parking => ParkingTypeOK'
    BY DEF OfficeTypeOK, ParkingTypeOK, parking
  <1>2. UNCHANGED beaconDesks => BeaconDesksTypeOK'
    BY DEF OfficeTypeOK, BeaconDesksTypeOK, beaconDesks
  <1>3. UNCHANGED setup => SetupTypeOK'
    BY DEF OfficeTypeOK, SetupTypeOK, setup
  <1>4. UNCHANGED enrolment => EnrolmentTypeOK'
    BY DEF OfficeTypeOK, EnrolmentTypeOK, enrolment
  <1>5. UNCHANGED client => ClientTypeOK'
    BY DEF OfficeTypeOK, ClientTypeOK, client
  <1>6. UNCHANGED noticed => NoticesTypeOK'
    BY DEF OfficeTypeOK, NoticesTypeOK, noticed
  <1>7. UNCHANGED orgMail => OrgMailTypeOK'
    BY DEF OfficeTypeOK, OrgMailTypeOK, orgMail
  <1> QED BY <1>1, <1>2, <1>3, <1>4, <1>5, <1>6, <1>7

LEMMA OfficeKeptInit == OfficeInit => OfficeKept
  <1> SUFFICES ASSUME OfficeInit PROVE OfficeKept
    OBVIOUS
  <1>1. LimitsInv /\ BeaconInv /\ SetupInv /\ EnrolmentInv /\ ClientInv /\ NoticesInv /\ MailInv
    BY LimitsInvInit, BeaconInvInit, SetupInvInit, EnrolmentInvInit, ClientInvInit,
       NoticesInvInit, MailInvInit DEF OfficeInit
  <1>2. SetupTypeOK
    BY <1>1 DEF SetupInv, SetupTyped, SetupTypeOK, OfficeInit, SetupInit
  <1>3. ClientTypeOK
    BY <1>1 DEF ClientInv, ClientTypeOK, OfficeInit, ClientInit
  <1>4. OrgMailTypeOK
    BY <1>1 DEF MailInv, MailTyped, OrgMailTypeOK, OfficeInit, OrgMailInit
  <1> QED BY <1>1, <1>2, <1>3, <1>4 DEF OfficeKept, OfficeTypeOK, LimitsInv, BeaconInv,
             BeaconTyped, EnrolmentInv, EnrolmentTyped, NoticesInv, NoticesTyped

LEMMA OfficeKeptStep == OfficeKept /\ [OfficeNext]_office => OfficeKept'
  <1> SUFFICES ASSUME OfficeKept, [OfficeNext]_office PROVE OfficeKept'
    OBVIOUS
  <1>0. OfficeTypeOK /\ part' = part
    BY DEF OfficeKept, OfficeNext, office
  <1>1. part = "parking" => LimitsInv' /\ ParkingTypeOK'
    <2>1. part = "parking" => [ParkingNext]_<<parking, control>>
      BY DEF OfficeNext, office
    <2> QED BY <2>1, LimitsInvStep DEF OfficeKept, LimitsInv
  <1>2. part = "beacons" => BeaconInv' /\ BeaconDesksTypeOK'
    <2>1. part = "beacons" => [BeaconDesksNext]_<<beaconDesks, control>>
      BY DEF OfficeNext, office
    <2> QED BY <2>1, BeaconInvStep DEF OfficeKept, BeaconInv, BeaconTyped
  <1>3. part = "setup" => SetupInv' /\ SetupTypeOK'
    <2>1. part = "setup" => [SetupNext]_<<setup, control>>
      BY DEF OfficeNext, office
    <2> QED BY <1>0, <2>1, SetupInvStep, SetupTypes DEF OfficeKept, OfficeTypeOK
  <1>4. part = "enrolment" => EnrolmentInv' /\ EnrolmentTypeOK'
    <2>1. part = "enrolment" => [EnrolmentNext]_<<enrolment, control>>
      BY DEF OfficeNext, office
    <2> QED BY <2>1, EnrolmentInvStep DEF OfficeKept, EnrolmentInv, EnrolmentTyped
  <1>5. part = "client" => ClientInv' /\ ClientTypeOK'
    <2>1. part = "client" => [ClientNext]_<<client, control>>
      BY DEF OfficeNext, office
    <2> QED BY <1>0, <2>1, ClientInvStep, ClientTypes DEF OfficeKept, OfficeTypeOK
  <1>6. part = "notices" => NoticesInv' /\ NoticesTypeOK'
    <2>1. part = "notices" => [NoticesNext]_<<noticed, control>>
      BY DEF OfficeNext, office
    <2> QED BY <2>1, NoticesInvStep DEF OfficeKept, NoticesInv, NoticesTyped
  <1>7. part = "mail" => MailInv' /\ OrgMailTypeOK'
    <2>1. part = "mail" => [OrgMailNext]_<<orgMail, control>>
      BY DEF OfficeNext, office
    <2> QED BY <1>0, <2>1, MailInvStep, MailTypes DEF OfficeKept, OfficeTypeOK
  <1>8. /\ part # "parking" => UNCHANGED parking
        /\ part # "beacons" => UNCHANGED beaconDesks
        /\ part # "setup" => UNCHANGED setup
        /\ part # "enrolment" => UNCHANGED enrolment
        /\ part # "client" => UNCHANGED client
        /\ part # "notices" => UNCHANGED noticed
        /\ part # "mail" => UNCHANGED orgMail
    BY DEF OfficeNext, office
  <1>9. OfficeTypeOK'
    BY <1>0, <1>1, <1>2, <1>3, <1>4, <1>5, <1>6, <1>7, <1>8, TypesKept DEF OfficeTypeOK
  <1> QED BY <1>0, <1>1, <1>2, <1>3, <1>4, <1>5, <1>6, <1>7, <1>9 DEF OfficeKept

\* The rows, caches, timers and queues of the seven services stay well typed,
\* whichever runs and however often.
THEOREM OfficeTyped == OfficeSpec => []OfficeTypeOK
  <1>1. OfficeKept => OfficeTypeOK
    BY DEF OfficeKept
  <1> QED BY <1>1, OfficeKeptInit, OfficeKeptStep, PTL DEF OfficeSpec
=============================================================================
