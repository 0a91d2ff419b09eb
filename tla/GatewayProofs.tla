---------------------------- MODULE GatewayProofs ----------------------------
(***************************************************************************)
(* The command channel and the rotation of secrets on top of it, for any   *)
(* number of gateways, streams, commands and rotations.                    *)
(***************************************************************************)
EXTENDS SecretRotation, TLAPS

Inv == LinkInv /\ AnsweredMeansExecuted /\ ConnectedToNewest

LEMMA InitInv == Init => Inv
<1> SUFFICES ASSUME Init PROVE Inv
  OBVIOUS
<1>1. (CHOOSE g \in Gateways : TRUE) \in Gateways
  BY GatewayAssumption
<1>2. TypeOK
  BY <1>1, GatewayAssumption DEF Init, TypeOK, StreamStates, Outcomes, Ack
<1>3. QED
  BY <1>2, GatewayAssumption DEF Init, Inv, LinkInv, AnsweredMeansExecuted, ConnectedToNewest

-----------------------------------------------------------------------------
(***************************************************************************)
(* Streams.  Two gateways never share a stream: each is connected to the   *)
(* one it opened last, and that has one owner.                             *)
(***************************************************************************)
LEMMA ConnectedIsOwned ==
  ASSUME Inv, NEW g \in Gateways, connections[g] # None
  PROVE  connections[g] \in Streams /\ owner[connections[g]] = g
  BY DEF Inv, LinkInv, TypeOK, ConnectedToNewest

LEMMA InvRegister ==
  ASSUME Inv, NEW g \in Gateways, NEW c \in Streams, Register(g, c)
  PROVE  Inv'
<1> USE DEF Inv, LinkInv
<1>1. TypeOK'
  BY DEF Register, TypeOK, StreamStates, commands, gateway
<1>2. /\ stream[c] = "unused" /\ stream'[c] = "open"
      /\ \A x \in Streams : x # c /\ stream[x] # "unused" => stream'[x] # "unused"
      /\ newest' = [newest EXCEPT ![g] = c] /\ owner' = [owner EXCEPT ![c] = g]
      /\ connections' = [connections EXCEPT ![g] = c]
      /\ UNCHANGED <<pending, outcome, acks, executed>>
  BY DEF Register, TypeOK, commands, gateway
<1>3. c # None
  BY GatewayAssumption
<1>4. \A h \in Gateways : newest'[h] # None => /\ stream'[newest'[h]] # "unused"
                                              /\ owner'[newest'[h]] = h
  <2> SUFFICES ASSUME NEW h \in Gateways, newest'[h] # None
               PROVE  stream'[newest'[h]] # "unused" /\ owner'[newest'[h]] = h
    OBVIOUS
  <2>1. CASE h = g
    BY <1>2, <2>1 DEF TypeOK
  <2>2. CASE h # g
    <3>1. newest'[h] = newest[h] /\ newest[h] \in Streams /\ newest[h] # c
      BY <1>2, <2>2 DEF TypeOK
    <3>2. QED BY <1>2, <3>1 DEF TypeOK
  <2>3. QED BY <2>1, <2>2
<1>5. ConnectedToNewest'
  <2> SUFFICES ASSUME NEW h \in Gateways, connections'[h] # None
               PROVE  /\ connections'[h] = newest'[h]
                      /\ stream'[connections'[h]] \in {"open", "aborted"}
    BY DEF ConnectedToNewest
  <2>1. CASE h = g
    BY <1>2, <2>1 DEF TypeOK
  <2>2. CASE h # g
    <3>1. connections'[h] = connections[h] /\ newest'[h] = newest[h]
      BY <1>2, <2>2 DEF TypeOK
    <3>2. connections[h] = newest[h] /\ stream[connections[h]] \in {"open", "aborted"}
      BY <3>1 DEF ConnectedToNewest
    <3>3. connections[h] \in Streams /\ owner[connections[h]] = h
      BY <3>1, ConnectedIsOwned
    <3>4. connections[g] # None => connections[g] # connections[h]
      BY <2>2, <3>3, ConnectedIsOwned
    <3>5. stream'[connections[h]] = stream[connections[h]]
      BY <1>2, <3>2, <3>3, <3>4 DEF Register, Connected, TypeOK
    <3>6. QED BY <3>1, <3>2, <3>5
  <2>3. QED BY <2>1, <2>2
<1>6. QED BY <1>1, <1>2, <1>4, <1>5 DEF AnsweredMeansExecuted

LEMMA InvAbort ==
  ASSUME Inv, NEW c \in Streams, Abort(c)
  PROVE  Inv'
<1> USE DEF Inv, LinkInv
<1>1. TypeOK'
  BY DEF Abort, TypeOK, StreamStates, commands, gateway
<1>2. ConnectedToNewest'
  BY DEF Abort, TypeOK, ConnectedToNewest
<1>3. QED
  BY <1>1, <1>2 DEF Abort, TypeOK, AnsweredMeansExecuted, commands, gateway

LEMMA InvCloseEvent ==
  ASSUME Inv, NEW c \in Streams, CloseEvent(c)
  PROVE  Inv'
<1> USE DEF Inv, LinkInv
<1>1. TypeOK'
  BY DEF CloseEvent, TypeOK, StreamStates, commands, gateway
<1>2. ConnectedToNewest'
  <2> SUFFICES ASSUME NEW g \in Gateways, connections'[g] # None
               PROVE  /\ connections'[g] = newest'[g]
                      /\ stream'[connections'[g]] \in {"open", "aborted"}
    BY DEF ConnectedToNewest
  <2>1. g # owner[c] /\ connections'[g] = connections[g] /\ newest' = newest
    BY DEF CloseEvent, TypeOK
  <2>2. connections[g] # c
    BY <2>1, ConnectedIsOwned
  <2>3. QED BY <2>1, <2>2 DEF CloseEvent, TypeOK, ConnectedToNewest
<1>3. QED
  BY <1>1, <1>2 DEF CloseEvent, TypeOK, AnsweredMeansExecuted, commands, gateway

-----------------------------------------------------------------------------
(***************************************************************************)
(* Commands: these steps leave the streams alone.                          *)
(***************************************************************************)
LEMMA InvPublish ==
  ASSUME Inv, NEW p \in Nonces, NEW g \in Gateways, NEW waits \in BOOLEAN,
         Publish(p, g, waits)
  PROVE  Inv'
<1> USE DEF Inv, LinkInv
<1>1. TypeOK'
  BY DEF Publish, TypeOK, Outcomes, link, gateway, Connected
<1>2. \A q \in Nonces : q \in pending' <=> outcome'[q] = "waiting"
  BY DEF Publish, TypeOK
<1>3. AnsweredMeansExecuted'
  BY DEF Publish, TypeOK, AnsweredMeansExecuted, gateway
<1>4. QED
  BY <1>1, <1>2, <1>3 DEF Publish, ConnectedToNewest, link, gateway

LEMMA InvHandleAck ==
  ASSUME Inv, NEW a \in acks, HandleAck(a)
  PROVE  Inv'
<1> USE DEF Inv, LinkInv
<1>1. a \in Ack /\ a.nonce \in Nonces /\ a.ok \in BOOLEAN
  BY DEF TypeOK, Ack
<1>2. TypeOK'
  BY <1>1 DEF HandleAck, TypeOK, Outcomes, link, gateway
<1>3. \A q \in Nonces : q \in pending' <=> outcome'[q] = "waiting"
  BY <1>1 DEF HandleAck, TypeOK
<1>4. AnsweredMeansExecuted'
  BY <1>1 DEF HandleAck, TypeOK, AnsweredMeansExecuted, gateway
<1>5. QED
  BY <1>2, <1>3, <1>4 DEF HandleAck, ConnectedToNewest, link, gateway

LEMMA InvAckTimeout ==
  ASSUME Inv, NEW p \in Nonces, AckTimeout(p)
  PROVE  Inv'
<1> USE DEF Inv, LinkInv
<1>1. TypeOK'
  BY DEF AckTimeout, TypeOK, Outcomes, link, gateway
<1>2. \A q \in Nonces : q \in pending' <=> outcome'[q] = "waiting"
  BY DEF AckTimeout, TypeOK
<1>3. AnsweredMeansExecuted'
  BY DEF AckTimeout, TypeOK, AnsweredMeansExecuted, gateway
<1>4. QED
  BY <1>1, <1>2, <1>3 DEF AckTimeout, ConnectedToNewest, link, gateway

LEMMA InvShutdown ==
  ASSUME Inv, Shutdown
  PROVE  Inv'
<1> USE DEF Inv, LinkInv
<1>1. TypeOK'
  BY GatewayAssumption DEF Shutdown, TypeOK, Outcomes, StreamStates, gateway
<1>2. \A q \in Nonces : q \in pending' <=> outcome'[q] = "waiting"
  BY DEF Shutdown, TypeOK
<1>3. AnsweredMeansExecuted'
  BY DEF Shutdown, TypeOK, AnsweredMeansExecuted, gateway
<1>4. ConnectedToNewest'
  BY DEF Shutdown, ConnectedToNewest
<1>5. \A g \in Gateways : newest'[g] # None => /\ stream'[newest'[g]] # "unused"
                                              /\ owner'[newest'[g]] = g
  BY DEF Shutdown, TypeOK
<1>6. QED
  BY <1>1, <1>2, <1>3, <1>4, <1>5 DEF Shutdown, gateway

LEMMA InvGateway ==
  ASSUME Inv, NEW p \in Nonces, Execute(p) \/ Decline(p), UNCHANGED <<link, commands, restarts>>
  PROVE  Inv'
<1> USE DEF Inv, LinkInv
<1>1. TypeOK'
  <2>1. [nonce |-> p, ok |-> TRUE] \in Ack /\ [nonce |-> p, ok |-> FALSE] \in Ack
    BY DEF Ack
  <2>2. executed' \in SUBSET Nonces /\ acks' \in SUBSET Ack
    BY <2>1 DEF Execute, Decline, TypeOK
  <2>3. QED BY <2>2 DEF TypeOK, link, commands
<1>2. executed \subseteq executed'
  BY DEF Execute, Decline
<1>3. \A a \in acks' : a.ok => a.nonce \in executed'
  BY DEF Execute, Decline
<1>4. AnsweredMeansExecuted'
  BY <1>2 DEF AnsweredMeansExecuted, commands
<1>5. QED
  BY <1>1, <1>3, <1>4 DEF ConnectedToNewest, link, commands

-----------------------------------------------------------------------------
(***************************************************************************)
(* What GatewayCommandsService promises holds of every behaviour: an ok    *)
(* answer is that of a command its gateway carried out, and the map names  *)
(* only the last stream of each gateway.                                   *)
(***************************************************************************)
THEOREM ChannelSound == Spec => []Inv
<1>1. Inv /\ [Next]_vars => Inv'
  <2> SUFFICES ASSUME Inv, [Next]_vars PROVE Inv'
    OBVIOUS
  <2>1. CASE UNCHANGED vars
    BY <2>1 DEF vars, Inv, LinkInv, TypeOK, AnsweredMeansExecuted, ConnectedToNewest
  <2>2. ASSUME NEW g \in Gateways, NEW c \in Streams, Register(g, c) PROVE Inv'
    BY <2>2, InvRegister
  <2>3. ASSUME NEW c \in Streams, Abort(c) \/ CloseEvent(c) PROVE Inv'
    BY <2>3, InvAbort, InvCloseEvent
  <2>4. ASSUME NEW a \in acks, HandleAck(a) PROVE Inv'
    BY <2>4, InvHandleAck
  <2>5. ASSUME NEW p \in Nonces, AckTimeout(p) PROVE Inv'
    BY <2>5, InvAckTimeout
  <2>6. ASSUME NEW p \in Nonces, NEW g \in Gateways, NEW waits \in BOOLEAN,
               Publish(p, g, waits)
        PROVE  Inv'
    BY <2>6, InvPublish
  <2>7. ASSUME NEW p \in Nonces,
               (Execute(p) \/ Decline(p)) /\ UNCHANGED <<link, commands, restarts>>
        PROVE  Inv'
    BY <2>7, InvGateway
  <2>8. QED
    BY <2>1, <2>2, <2>3, <2>4, <2>5, <2>6, <2>7, InvShutdown DEF Next, Transport
<1>2. QED BY <1>1, InitInv, PTL DEF Spec

\* The bookkeeping of the channel: each stream has one owner, a nonce is in
\* the map exactly while its publish waits, and an ok ACK was carried out.
THEOREM BookkeepingHolds == Spec => []LinkInv
<1>1. Inv => LinkInv
  BY DEF Inv
<1>2. QED BY <1>1, ChannelSound, PTL

\* A publish that was answered ok was carried out: HandleAck looks up the nonce.
THEOREM AnswersAreHonest == Spec => []AnsweredMeansExecuted
  BY ChannelSound, PTL DEF Inv

\* The map names the last stream of each gateway, and none that was closed.
THEOREM WritesGoToTheNewest == Spec => []ConnectedToNewest
  BY ChannelSound, PTL DEF Inv

-----------------------------------------------------------------------------
(***************************************************************************)
(* Rotations.                                                              *)
(***************************************************************************)
LEMMA RotationTypeInit == RotationInit => RotationTypeOK
<1> SUFFICES ASSUME RotationInit PROVE RotationTypeOK
  OBVIOUS
<1>1. (CHOOSE g \in Gateways : TRUE) \in Gateways
  BY GatewayAssumption
<1>2. QED
  BY <1>1 DEF RotationInit, RotationTypeOK, RotationPcs, Secrets

LEMMA RotationTypeStep ==
  ASSUME RotationTypeOK, [RotationNext]_rotationVars
  PROVE  RotationTypeOK'
<1> USE DEF RotationTypeOK
<1>1. CASE UNCHANGED rotationVars
  BY <1>1 DEF rotationVars
<1>2. ASSUME NEW t \in Rotations, Start(t) PROVE RotationTypeOK'
  <2>1. PICK g \in Gateways :
          rotation' = [rotation EXCEPT ![t] =
                         [pc |-> "prepare", gateway |-> g, old |-> secret[g]]]
    BY <1>2 DEF Start
  <2>2. QED BY <1>2, <2>1 DEF Start, keys, RotationPcs
<1>3. ASSUME NEW t \in Rotations, Prepare(t) PROVE RotationTypeOK'
  BY <1>3 DEF Prepare, Goto, keys, RotationPcs
<1>4. ASSUME NEW t \in Rotations, Save(t) PROVE RotationTypeOK'
  BY <1>4 DEF Save, Goto, RotationPcs, Secrets
<1>5. ASSUME NEW t \in Rotations, Abandon(t) PROVE RotationTypeOK'
  BY <1>5 DEF Abandon, Goto, keys, RotationPcs
<1>6. ASSUME NEW t \in Rotations, Commit(t) PROVE RotationTypeOK'
  BY <1>6 DEF Commit, Goto, keys, RotationPcs
<1>7. ASSUME NEW t \in Rotations, ExecutePrepare(t) PROVE RotationTypeOK'
  BY <1>7 DEF ExecutePrepare
<1>8. ASSUME NEW t \in Rotations, ExecuteCommit(t) PROVE RotationTypeOK'
  <2> DEFINE g == owner[wire[<<t, "commit">>]]
  <2>1. /\ prepared[g] # None
        /\ active' = [active EXCEPT ![g] = prepared[g]]
        /\ prepared' = [prepared EXCEPT ![g] = None]
        /\ UNCHANGED <<secret, overlap, rotation>>
    BY <1>8 DEF ExecuteCommit
  <2>2. g \in Gateways => prepared[g] \in Rotations
    BY <2>1
  <2>3. active' \in [Gateways -> Secrets]
    BY <2>1, <2>2 DEF Secrets
  <2>4. QED BY <2>1, <2>3
<1>9. ASSUME NEW p \in Nonces, DeclineCommand(p) PROVE RotationTypeOK'
  BY <1>9 DEF DeclineCommand, keys
<1>10. CASE CleanExpiredRotations
  BY <1>10 DEF CleanExpiredRotations
<1>11. CASE RestartBackend
  BY <1>11 DEF RestartBackend, keys, RotationPcs
<1>12. CASE TransportStep
  BY <1>12 DEF TransportStep, keys
<1>13. QED
  BY <1>1, <1>2, <1>3, <1>4, <1>5, <1>6, <1>7, <1>8, <1>9, <1>10, <1>11, <1>12
  DEF RotationNext

\* Secrets are secrets, and a rotation remembers a gateway and a secret it had.
THEOREM RotationTypeAlwaysOK == RotationSpec => []RotationTypeOK
  BY RotationTypeInit, RotationTypeStep, PTL DEF RotationSpec

(***************************************************************************)
(* A step of a rotation is one of the channel, or leaves it alone.         *)
(***************************************************************************)
LEMMA RotationStepIsChannelStep ==
  ASSUME RotationTypeOK, [RotationNext]_rotationVars
  PROVE  [Next]_vars
<1>1. CASE UNCHANGED rotationVars
  BY <1>1 DEF rotationVars
<1>2. ASSUME NEW t \in Rotations,
             \/ Start(t) \/ Prepare(t) \/ Save(t) \/ Abandon(t) \/ Commit(t)
             \/ ExecutePrepare(t) \/ ExecuteCommit(t)
      PROVE  [Next]_vars
  <2>1. <<t, "prepare">> \in Nonces /\ <<t, "commit">> \in Nonces
    BY RotationAssumption
  <2>2. rotation[t].gateway \in Gateways
    BY DEF RotationTypeOK
  <2>3. CASE Start(t) \/ Save(t) \/ Abandon(t)
    BY <2>3 DEF Start, Save, Abandon
  <2>4. CASE Prepare(t)
    BY <2>1, <2>2, <2>4 DEF Prepare, Next
  <2>5. CASE Commit(t)
    BY <2>1, <2>2, <2>5 DEF Commit, Next
  <2>6. CASE ExecutePrepare(t)
    BY <2>1, <2>6 DEF ExecutePrepare, Next
  <2>7. CASE ExecuteCommit(t)
    BY <2>1, <2>7 DEF ExecuteCommit, Next
  <2>8. QED BY <1>2, <2>3, <2>4, <2>5, <2>6, <2>7
<1>3. ASSUME NEW p \in Nonces, DeclineCommand(p) PROVE Next
  BY <1>3 DEF DeclineCommand, Next
<1>4. CASE CleanExpiredRotations
  BY <1>4 DEF CleanExpiredRotations
<1>5. CASE RestartBackend
  BY <1>5 DEF RestartBackend, Next
<1>6. CASE TransportStep
  BY <1>6 DEF TransportStep, Next
<1>7. QED BY <1>1, <1>2, <1>3, <1>4, <1>5, <1>6 DEF RotationNext

\* rotateSecret uses the channel as it is, and inherits its promises.
THEOREM RotationUsesChannel == RotationSpec => Spec
<1>1. RotationInit => Init
  BY DEF RotationInit
<1>2. QED
  BY <1>1, RotationStepIsChannelStep, RotationTypeAlwaysOK, PTL DEF RotationSpec, Spec

-----------------------------------------------------------------------------
LEMMA SavedStep ==
  ASSUME RotationTypeOK, AnsweredMeansExecuted, SavedOnlyIfPrepared,
         [RotationNext]_rotationVars
  PROVE  SavedOnlyIfPrepared'
<1>1. executed \subseteq executed'
  BY DEF RotationNext, rotationVars, vars, Start, Prepare, Save, Abandon, Commit, Publish,
         ExecutePrepare, ExecuteCommit, DeclineCommand, Execute, Decline, gateway,
         CleanExpiredRotations, RestartBackend, Shutdown, TransportStep, Transport,
         Register, Abort, CloseEvent, HandleAck, AckTimeout
<1>2. CASE UNCHANGED secret
  BY <1>1, <1>2 DEF SavedOnlyIfPrepared
<1>3. ASSUME NEW t \in Rotations, Save(t) PROVE SavedOnlyIfPrepared'
  <2>1. <<t, "prepare">> \in executed
    BY <1>3, RotationAssumption DEF Save, AnsweredMeansExecuted
  <2>2. secret' = [secret EXCEPT ![rotation[t].gateway] = t]
    BY <1>3 DEF Save
  <2>3. QED BY <1>1, <2>1, <2>2 DEF SavedOnlyIfPrepared, RotationTypeOK
<1>4. UNCHANGED secret \/ \E t \in Rotations : Save(t)
  BY DEF RotationNext, rotationVars, Start, Prepare, Abandon, Commit, keys,
         ExecutePrepare, ExecuteCommit, DeclineCommand, CleanExpiredRotations,
         RestartBackend, TransportStep
<1>5. QED BY <1>2, <1>3, <1>4

(***************************************************************************)
(* The invariant the comment of rotateSecret states: the database is never *)
(* updated without the ACK of a prepare the gateway carried out, whatever  *)
(* ACKs are late, lost or of other commands.                               *)
(***************************************************************************)
THEOREM SavedSecretsArePrepared == RotationSpec => []SavedOnlyIfPrepared
<1>1. RotationInit => SavedOnlyIfPrepared
  BY RotationAssumption DEF RotationInit, SavedOnlyIfPrepared
<1>2. QED
  BY <1>1, SavedStep, RotationUsesChannel, AnswersAreHonest, RotationTypeAlwaysOK, PTL
  DEF RotationSpec

-----------------------------------------------------------------------------
(***************************************************************************)
(* One rotation at a time keeps the gateway reachable.                     *)
(*                                                                         *)
(* What is written for a rotation is read by the gateway the rotation is   *)
(* about, and a commit is written only after the gateway executed the      *)
(* prepare.                                                                *)
(***************************************************************************)
CommitSent(t) == rotation[t].pc = "commit" \/ wire[<<t, "commit">>] # None

Phases == {"prepare", "commit"}

WireInv ==
  /\ \A p \in Nonces : /\ wire[p] # None => stream[wire[p]] # "unused"
                       /\ p \in executed => wire[p] # None
  /\ \A t \in Rotations, k \in Phases :
       wire[<<t, k>>] # None => /\ owner[wire[<<t, k>>]] = rotation[t].gateway
                                /\ rotation[t].pc # "idle"
  /\ \A t \in Rotations : CommitSent(t) => <<t, "prepare">> \in executed
  /\ \A g \in Gateways : \A t \in {secret[g], active[g], prepared[g]} \cap Rotations :
       <<t, "prepare">> \in executed
  /\ \A g \in Gateways : secret[g] \in Rotations => rotation[secret[g]].gateway = g

\* At most one rotation reached its gateway.
Alone == \A t, u \in Rotations :
  <<t, "prepare">> \in executed /\ <<u, "prepare">> \in executed => t = u

\* While it is alone, the rotation's secret is at the gateway from its prepare
\* on, and the gateway signs with it only when the backend asks for it.
AloneInv ==
  Alone =>
    /\ \A t \in Rotations :
         /\ <<t, "prepare">> \in executed =>
              t \in {prepared[rotation[t].gateway], active[rotation[t].gateway]}
         /\ CommitSent(t) => secret[rotation[t].gateway] = t
    /\ \A g \in Gateways : active[g] \in Rotations => secret[g] = active[g]

RotationInv == RotationTypeOK /\ Inv /\ WireInv /\ AloneInv

LEMMA PhaseNonces ==
  ASSUME NEW t \in Rotations, NEW k \in Phases
  PROVE  <<t, k>> \in Nonces
  BY RotationAssumption DEF Phases

LEMMA RotationInvInit == RotationInit => WireInv /\ AloneInv
<1> SUFFICES ASSUME RotationInit PROVE WireInv /\ AloneInv
  OBVIOUS
<1>1. WireInv
  BY RotationAssumption, PhaseNonces
  DEF RotationInit, Init, WireInv, CommitSent, Phases, Secrets
<1>2. AloneInv
  BY RotationAssumption, PhaseNonces
  DEF RotationInit, Init, AloneInv, CommitSent, Phases, Secrets
<1>3. QED BY <1>1, <1>2

\* A stream in use stays with its owner, and an execution is not undone.
LEMMA UsedStreamsKeepTheirOwner ==
  ASSUME RotationTypeOK, Inv, [RotationNext]_rotationVars
  PROVE  /\ \A c \in Streams : stream[c] # "unused" =>
              stream'[c] # "unused" /\ owner'[c] = owner[c]
         /\ executed \subseteq executed'
<1>1. [Next]_vars
  BY RotationStepIsChannelStep
<1> USE DEF Inv, LinkInv, TypeOK, link, commands, gateway
<1>2. CASE UNCHANGED vars
  BY <1>2 DEF vars
<1>3. CASE Transport
  BY <1>3 DEF Transport, Register, Abort, CloseEvent, HandleAck, AckTimeout
<1>4. CASE Shutdown
  BY <1>4 DEF Shutdown
<1>5. CASE \E p \in Nonces, g \in Gateways, waits \in BOOLEAN : Publish(p, g, waits)
  BY <1>5 DEF Publish
<1>6. CASE \E p \in Nonces : (Execute(p) \/ Decline(p)) /\ UNCHANGED <<link, commands, restarts>>
  BY <1>6 DEF Execute, Decline
<1>7. QED BY <1>1, <1>2, <1>3, <1>4, <1>5, <1>6 DEF Next

-----------------------------------------------------------------------------
(***************************************************************************)
(* Most steps leave the secrets, the commands and the rotations' targets   *)
(* alone.                                                                  *)
(***************************************************************************)
Quiet ==
  /\ UNCHANGED <<wire, executed, secret, active, prepared>>
  /\ \A t \in Rotations :
       /\ rotation'[t].gateway = rotation[t].gateway
       /\ rotation[t].pc # "idle" => rotation'[t].pc # "idle"
       /\ rotation'[t].pc = "commit" => rotation[t].pc = "commit"

LEMMA QuietSteps ==
  ASSUME RotationTypeOK,
         \/ UNCHANGED rotationVars \/ \E t \in Rotations : Abandon(t)
         \/ \E p \in Nonces : DeclineCommand(p)
         \/ CleanExpiredRotations \/ RestartBackend \/ TransportStep
  PROVE  Quiet
<1> USE DEF RotationTypeOK, Quiet
<1>1. CASE UNCHANGED rotationVars
  BY <1>1 DEF rotationVars, vars
<1>2. CASE \E t \in Rotations : Abandon(t)
  BY <1>2 DEF Abandon, Goto, vars, keys
<1>3. CASE \E p \in Nonces : DeclineCommand(p)
  BY <1>3 DEF DeclineCommand, Decline, commands, keys
<1>4. CASE CleanExpiredRotations
  BY <1>4 DEF CleanExpiredRotations, vars
<1>5. CASE RestartBackend
  BY <1>5 DEF RestartBackend, Shutdown, gateway, keys
<1>6. CASE TransportStep
  BY <1>6 DEF TransportStep, Transport, Register, Abort, CloseEvent, HandleAck, AckTimeout,
              commands, gateway, keys
<1>7. QED BY <1>1, <1>2, <1>3, <1>4, <1>5, <1>6

LEMMA QuietKeeps ==
  ASSUME RotationInv, Quiet, [RotationNext]_rotationVars
  PROVE  WireInv' /\ AloneInv'
<1>1. \A c \in Streams : stream[c] # "unused" =>
        stream'[c] # "unused" /\ owner'[c] = owner[c]
  BY UsedStreamsKeepTheirOwner DEF RotationInv
<1>2. \A p \in Nonces : wire[p] # None => wire[p] \in Streams
  BY DEF RotationInv, Inv, LinkInv, TypeOK
<1>3. \A t \in Rotations : CommitSent(t)' => CommitSent(t)
  BY DEF CommitSent, Quiet
<1>4. WireInv'
  <2>1. \A p \in Nonces : /\ wire'[p] # None => stream'[wire'[p]] # "unused"
                          /\ p \in executed' => wire'[p] # None
    BY <1>1, <1>2 DEF RotationInv, WireInv, Quiet
  <2>2. \A t \in Rotations, k \in Phases :
          wire'[<<t, k>>] # None => /\ owner'[wire'[<<t, k>>]] = rotation'[t].gateway
                                    /\ rotation'[t].pc # "idle"
    BY <1>1, <1>2, PhaseNonces DEF RotationInv, WireInv, Quiet
  <2>3. QED
    BY <1>3, <2>1, <2>2 DEF RotationInv, WireInv, Quiet
<1>5. AloneInv'
  BY <1>3 DEF RotationInv, AloneInv, Alone, Quiet
<1>6. QED BY <1>4, <1>5

-----------------------------------------------------------------------------
(***************************************************************************)
(* The steps of a rotation.                                                *)
(***************************************************************************)
LEMMA StartKeeps ==
  ASSUME RotationInv, NEW t \in Rotations, Start(t)
  PROVE  WireInv' /\ AloneInv'
<1>1. PICK g \in Gateways :
        rotation' = [rotation EXCEPT ![t] =
                       [pc |-> "prepare", gateway |-> g, old |-> secret[g]]]
  BY DEF Start
<1>2. rotation[t].pc = "idle" /\ UNCHANGED <<vars, keys>>
  BY DEF Start
<1>3. /\ rotation'[t].pc = "prepare"
      /\ \A u \in Rotations : u # t => rotation'[u] = rotation[u]
  BY <1>1 DEF RotationInv, RotationTypeOK
<1>4. \A k \in Phases : wire[<<t, k>>] = None
  BY <1>2 DEF RotationInv, WireInv
<1>5. <<t, "prepare">> \notin executed
  BY <1>4, PhaseNonces DEF RotationInv, WireInv, Phases
<1>6. \A u \in Rotations : CommitSent(u)' => u # t /\ CommitSent(u)
  BY <1>2, <1>3, <1>4 DEF CommitSent, Phases, vars
<1>7. UNCHANGED <<wire, stream, owner, executed, secret, active, prepared>>
  BY <1>2 DEF vars, keys
<1>8. WireInv'
  <2>1. \A h \in Gateways : secret[h] # t
    BY <1>5 DEF RotationInv, WireInv
  <2>2. QED
    BY <1>3, <1>4, <1>5, <1>6, <1>7, <2>1 DEF RotationInv, WireInv
<1>9. AloneInv'
  BY <1>3, <1>5, <1>6, <1>7 DEF RotationInv, AloneInv, Alone
<1>10. QED BY <1>8, <1>9

\* What is published for a rotation goes to its gateway's stream.
LEMMA PublishedToItsGateway ==
  ASSUME RotationInv, NEW t \in Rotations, NEW k \in Phases,
         Publish(<<t, k>>, rotation[t].gateway, TRUE),
         wire'[<<t, k>>] # wire[<<t, k>>]
  PROVE  /\ wire'[<<t, k>>] \in Streams /\ stream[wire'[<<t, k>>]] # "unused"
         /\ owner[wire'[<<t, k>>]] = rotation[t].gateway
<1> DEFINE g == rotation[t].gateway
<1>1. g \in Gateways /\ <<t, k>> \in Nonces
  BY PhaseNonces DEF RotationInv, RotationTypeOK
<1>2. connections[g] # None /\ wire'[<<t, k>>] = connections[g]
  BY <1>1 DEF Publish, Connected, RotationInv, Inv, LinkInv, TypeOK
<1>3. connections[g] \in Streams /\ owner[connections[g]] = g
  BY <1>1, <1>2, ConnectedIsOwned DEF RotationInv
<1>4. stream[connections[g]] # "unused"
  BY <1>1, <1>2 DEF RotationInv, Inv, ConnectedToNewest
<1>5. QED BY <1>2, <1>3, <1>4

LEMMA PublishKeeps ==
  ASSUME RotationInv, NEW t \in Rotations, NEW k \in Phases,
         Publish(<<t, k>>, rotation[t].gateway, TRUE),
         k = "prepare" => rotation[t].pc = "prepare",
         k = "commit" => rotation[t].pc = "commit",
         NEW to \in {"save", "done"}, Goto(t, to), UNCHANGED keys
  PROVE  WireInv' /\ AloneInv'
<1>0. <<t, k>> \in Nonces
  BY PhaseNonces
<1>1. /\ UNCHANGED <<stream, owner, executed, secret, active, prepared>>
      /\ \A p \in Nonces : p # <<t, k>> => wire'[p] = wire[p]
  BY <1>0 DEF Publish, link, gateway, keys, RotationInv, Inv, LinkInv, TypeOK
<1>2. /\ \A u \in Rotations : rotation'[u].gateway = rotation[u].gateway
      /\ rotation'[t].pc = to
      /\ \A u \in Rotations : u # t => rotation'[u].pc = rotation[u].pc
  BY DEF Goto, RotationInv, RotationTypeOK
<1>3. rotation[t].pc # "idle" /\ rotation'[t].pc # "idle" /\ rotation'[t].pc # "commit"
  BY <1>2 DEF Phases
<1>4. wire'[<<t, k>>] # wire[<<t, k>>] =>
        stream[wire'[<<t, k>>]] # "unused" /\ owner[wire'[<<t, k>>]] = rotation[t].gateway
  BY PublishedToItsGateway
<1>4a. wire'[<<t, k>>] # wire[<<t, k>>] => wire'[<<t, k>>] # None
  BY PublishedToItsGateway, GatewayAssumption
<1>5. \A u \in Rotations : CommitSent(u)' => CommitSent(u)
  <2> SUFFICES ASSUME NEW u \in Rotations, CommitSent(u)' PROVE CommitSent(u)
    OBVIOUS
  <2>1. CASE u = t /\ k = "commit"
    BY <2>1 DEF CommitSent
  <2>2. CASE ~(u = t /\ k = "commit")
    <3>1. <<u, "commit">> # <<t, k>> /\ <<u, "commit">> \in Nonces
      BY <2>2, PhaseNonces DEF Phases
    <3>2. wire'[<<u, "commit">>] = wire[<<u, "commit">>]
      BY <1>1, <3>1
    <3>3. QED BY <1>2, <1>3, <3>2 DEF CommitSent
  <2>3. QED BY <2>1, <2>2
<1>6. WireInv'
  <2>1. \A p \in Nonces : /\ wire'[p] # None => stream'[wire'[p]] # "unused"
                          /\ p \in executed' => wire'[p] # None
    BY <1>1, <1>4, <1>4a DEF RotationInv, WireInv
  <2>2. \A u \in Rotations, j \in Phases :
          wire'[<<u, j>>] # None => /\ owner'[wire'[<<u, j>>]] = rotation'[u].gateway
                                    /\ rotation'[u].pc # "idle"
    <3> SUFFICES ASSUME NEW u \in Rotations, NEW j \in Phases, wire'[<<u, j>>] # None
                 PROVE  /\ owner'[wire'[<<u, j>>]] = rotation'[u].gateway
                        /\ rotation'[u].pc # "idle"
      OBVIOUS
    <3>1. CASE wire'[<<u, j>>] = wire[<<u, j>>]
      BY <1>1, <1>2, <1>3, <3>1 DEF RotationInv, WireInv
    <3>2. CASE wire'[<<u, j>>] # wire[<<u, j>>]
      <4>1. <<u, j>> = <<t, k>>
        BY <1>1, <3>2, PhaseNonces
      <4>2. u = t /\ j = k
        BY <4>1
      <4>3. QED BY <1>1, <1>2, <1>3, <1>4, <3>2, <4>2
    <3>3. QED BY <3>1, <3>2
  <2>3. QED
    BY <1>1, <1>2, <1>5, <2>1, <2>2 DEF RotationInv, WireInv
<1>7. AloneInv'
  BY <1>1, <1>2, <1>5 DEF RotationInv, AloneInv, Alone
<1>8. QED BY <1>6, <1>7

LEMMA SaveKeeps ==
  ASSUME RotationInv, NEW t \in Rotations, Save(t)
  PROVE  WireInv' /\ AloneInv'
<1> DEFINE g == rotation[t].gateway
<1>0. <<t, "prepare">> \in Nonces
  BY PhaseNonces DEF Phases
<1>1. <<t, "prepare">> \in executed
  BY <1>0 DEF Save, RotationInv, Inv, AnsweredMeansExecuted
<1>2. g \in Gateways
  BY DEF RotationInv, RotationTypeOK
<1>3. /\ UNCHANGED <<wire, stream, owner, executed, active, prepared>>
      /\ secret' = [secret EXCEPT ![g] = t]
  BY DEF Save, vars
<1>4. \A u \in Rotations :
        /\ rotation'[u].gateway = rotation[u].gateway
        /\ rotation'[u].pc = "idle" => rotation[u].pc = "idle"
        /\ u # t => rotation'[u].pc = rotation[u].pc
  BY DEF Save, Goto, RotationInv, RotationTypeOK
<1>5. /\ secret'[g] = t
      /\ \A h \in Gateways : h # g => secret'[h] = secret[h]
  BY <1>2, <1>3 DEF RotationInv, RotationTypeOK
<1>6. \A u \in Rotations : CommitSent(u)' => u = t \/ CommitSent(u)
  BY <1>3, <1>4 DEF CommitSent
<1>7. WireInv'
  BY <1>1, <1>3, <1>4, <1>5, <1>6 DEF RotationInv, WireInv
<1>8. AloneInv'
  <2> SUFFICES ASSUME Alone'
               PROVE  /\ \A u \in Rotations :
                           /\ <<u, "prepare">> \in executed' =>
                                u \in {prepared'[rotation'[u].gateway], active'[rotation'[u].gateway]}
                           /\ CommitSent(u)' => secret'[rotation'[u].gateway] = u
                      /\ \A h \in Gateways : active'[h] \in Rotations => secret'[h] = active'[h]
    BY DEF AloneInv
  <2>1. Alone
    BY <1>3 DEF Alone
  <2>2. \A u \in Rotations : <<u, "prepare">> \in executed => u = t
    BY <1>1, <2>1 DEF Alone
  <2>3. \A u \in Rotations : CommitSent(u)' => u = t
    BY <1>6, <2>2 DEF RotationInv, WireInv
  <2>4. \A h \in Gateways : active[h] \in Rotations => active[h] = t
    BY <2>2 DEF RotationInv, WireInv
  <2>5. \A h \in Gateways : active'[h] \in Rotations => secret'[h] = active'[h]
    BY <1>3, <1>5, <2>1, <2>4 DEF RotationInv, AloneInv
  <2>6. QED
    BY <1>3, <1>4, <1>5, <2>1, <2>3, <2>5 DEF RotationInv, AloneInv
<1>9. QED BY <1>7, <1>8

LEMMA ExecutePrepareKeeps ==
  ASSUME RotationInv, NEW t \in Rotations, ExecutePrepare(t)
  PROVE  WireInv' /\ AloneInv'
<1> DEFINE p == <<t, "prepare">>
           g == rotation[t].gateway
<1>0. p \in Nonces
  BY PhaseNonces DEF Phases
<1>1. wire[p] # None /\ p \notin executed /\ executed' = executed \cup {p}
  BY DEF ExecutePrepare, Execute, Readable
<1>2. owner[wire[p]] = g /\ g \in Gateways
  BY <1>1 DEF RotationInv, WireInv, RotationTypeOK, Phases
<1>3. /\ prepared' = [prepared EXCEPT ![g] = t]
      /\ UNCHANGED <<wire, stream, owner, secret, rotation, active>>
  BY <1>2 DEF ExecutePrepare, link, commands
<1>4. /\ prepared'[g] = t
      /\ \A h \in Gateways : h # g => prepared'[h] = prepared[h]
  BY <1>2, <1>3 DEF RotationInv, RotationTypeOK
<1>5. \A u \in Rotations : CommitSent(u)' <=> CommitSent(u)
  BY <1>3 DEF CommitSent
<1>6. WireInv'
  BY <1>0, <1>1, <1>3, <1>4, <1>5 DEF RotationInv, WireInv
<1>7. AloneInv'
  <2> SUFFICES ASSUME Alone'
               PROVE  /\ \A u \in Rotations :
                           /\ <<u, "prepare">> \in executed' =>
                                u \in {prepared'[rotation'[u].gateway], active'[rotation'[u].gateway]}
                           /\ CommitSent(u)' => secret'[rotation'[u].gateway] = u
                      /\ \A h \in Gateways : active'[h] \in Rotations => secret'[h] = active'[h]
    BY DEF AloneInv
  <2>1. Alone
    BY <1>1 DEF Alone
  <2>2. \A u \in Rotations : <<u, "prepare">> \in executed' => u = t
    BY <1>1 DEF Alone
  <2>3. QED
    BY <1>3, <1>4, <1>5, <2>1, <2>2 DEF RotationInv, AloneInv
<1>8. QED BY <1>6, <1>7

LEMMA ExecuteCommitKeeps ==
  ASSUME RotationInv, NEW t \in Rotations, ExecuteCommit(t)
  PROVE  WireInv' /\ AloneInv'
<1> DEFINE p == <<t, "commit">>
           g == rotation[t].gateway
<1>0. p \in Nonces /\ p \notin Rotations \X {"prepare"}
  BY PhaseNonces DEF Phases
<1>1. wire[p] # None /\ executed' = executed \cup {p}
  BY DEF ExecuteCommit, Execute, Readable
<1>2. owner[wire[p]] = g /\ g \in Gateways
  BY <1>1 DEF RotationInv, WireInv, RotationTypeOK, Phases
<1>3. /\ prepared[g] # None
      /\ active' = [active EXCEPT ![g] = prepared[g]]
      /\ prepared' = [prepared EXCEPT ![g] = None]
      /\ UNCHANGED <<wire, stream, owner, secret, rotation>>
  BY <1>2 DEF ExecuteCommit, link, commands
<1>4. /\ prepared[g] \in Rotations
      /\ active'[g] = prepared[g] /\ prepared'[g] = None /\ None \notin Rotations
      /\ \A h \in Gateways : h # g => active'[h] = active[h] /\ prepared'[h] = prepared[h]
  BY <1>2, <1>3, RotationAssumption DEF RotationInv, RotationTypeOK, Secrets
<1>5. \A u \in Rotations : CommitSent(u)' <=> CommitSent(u)
  BY <1>3 DEF CommitSent
<1>6. \A u \in Rotations : <<u, "prepare">> \in executed' <=> <<u, "prepare">> \in executed
  BY <1>1
<1>7. WireInv'
  <2>1. \A h \in Gateways :
          \A u \in {secret'[h], active'[h], prepared'[h]} \cap Rotations :
            u \in {secret[h], active[h], prepared[h]} \cap Rotations
    BY <1>3, <1>4
  <2>2. \A h \in Gateways :
          \A u \in {secret'[h], active'[h], prepared'[h]} \cap Rotations :
            <<u, "prepare">> \in executed'
    BY <1>6, <2>1 DEF RotationInv, WireInv
  <2>3. QED
    BY <1>0, <1>1, <1>3, <1>5, <1>6, <2>2 DEF RotationInv, WireInv
<1>8. AloneInv'
  <2> SUFFICES ASSUME Alone'
               PROVE  /\ \A u \in Rotations :
                           /\ <<u, "prepare">> \in executed' =>
                                u \in {prepared'[rotation'[u].gateway], active'[rotation'[u].gateway]}
                           /\ CommitSent(u)' => secret'[rotation'[u].gateway] = u
                      /\ \A h \in Gateways : active'[h] \in Rotations => secret'[h] = active'[h]
    BY DEF AloneInv
  <2>1. Alone
    BY <1>6 DEF Alone
  <2>2. CommitSent(t) /\ <<t, "prepare">> \in executed
    BY <1>1 DEF CommitSent, RotationInv, WireInv
  <2>3. prepared[g] = t
    BY <1>2, <1>4, <2>1, <2>2 DEF Alone, RotationInv, WireInv
  <2>4. secret[g] = t
    BY <2>1, <2>2 DEF RotationInv, AloneInv
  <2>5. \A u \in Rotations : <<u, "prepare">> \in executed => u = t
    BY <2>1, <2>2 DEF Alone
  <2>6. QED
    BY <1>3, <1>4, <1>5, <1>6, <2>1, <2>3, <2>4, <2>5 DEF RotationInv, AloneInv
<1>9. QED BY <1>7, <1>8

-----------------------------------------------------------------------------
LEMMA RotationInvStep ==
  ASSUME RotationInv, [RotationNext]_rotationVars
  PROVE  WireInv' /\ AloneInv'
<1>1. ASSUME NEW t \in Rotations, Start(t) PROVE WireInv' /\ AloneInv'
  BY <1>1, StartKeeps
<1>2. ASSUME NEW t \in Rotations, Prepare(t) PROVE WireInv' /\ AloneInv'
  <2>1. "prepare" \in Phases /\ "prepare" # "commit"
    BY DEF Phases
  <2>2. /\ rotation[t].pc = "prepare" /\ Goto(t, "save") /\ UNCHANGED keys
        /\ Publish(<<t, "prepare">>, rotation[t].gateway, TRUE)
    BY <1>2 DEF Prepare
  <2>3. QED BY <2>1, <2>2, PublishKeeps
<1>3. ASSUME NEW t \in Rotations, Save(t) PROVE WireInv' /\ AloneInv'
  BY <1>3, SaveKeeps
<1>4. ASSUME NEW t \in Rotations, Commit(t) PROVE WireInv' /\ AloneInv'
  <2>1. "commit" \in Phases /\ "prepare" # "commit"
    BY DEF Phases
  <2>2. /\ rotation[t].pc = "commit" /\ Goto(t, "done") /\ UNCHANGED keys
        /\ Publish(<<t, "commit">>, rotation[t].gateway, TRUE)
    BY <1>4 DEF Commit
  <2>3. QED BY <2>1, <2>2, PublishKeeps
<1>5. ASSUME NEW t \in Rotations, ExecutePrepare(t) PROVE WireInv' /\ AloneInv'
  BY <1>5, ExecutePrepareKeeps
<1>6. ASSUME NEW t \in Rotations, ExecuteCommit(t) PROVE WireInv' /\ AloneInv'
  BY <1>6, ExecuteCommitKeeps
<1>7. CASE \/ UNCHANGED rotationVars \/ \E t \in Rotations : Abandon(t)
           \/ \E p \in Nonces : DeclineCommand(p)
           \/ CleanExpiredRotations \/ RestartBackend \/ TransportStep
  BY <1>7, QuietSteps, QuietKeeps DEF RotationInv
<1>8. QED
  BY <1>1, <1>2, <1>3, <1>4, <1>5, <1>6, <1>7 DEF RotationNext

(***************************************************************************)
(* As long as one rotation reached its gateway, the secret the backend     *)
(* asks for is one the gateway can sign with: no lost ACK, timeout, broken *)
(* stream or restart between the prepare, the save and the commit of       *)
(* rotateSecret takes the gateway's access away.                           *)
(***************************************************************************)
THEOREM OneRotationIsSafe == RotationSpec => []OneRotationKeepsAccess
<1>1. WireInv /\ AloneInv /\ RotationTypeOK => OneRotationKeepsAccess
  <2> SUFFICES ASSUME WireInv, AloneInv, RotationTypeOK, NEW g \in Gateways, Alone
               PROVE  secret[g] \in {active[g], prepared[g]}
    BY DEF OneRotationKeepsAccess, Alone
  <2>1. ASSUME NEW t \in Rotations, secret[g] = t
        PROVE  secret[g] \in {active[g], prepared[g]}
    <3>1. <<t, "prepare">> \in executed /\ rotation[t].gateway = g
      BY <2>1 DEF WireInv
    <3>2. t \in {prepared[g], active[g]}
      BY <3>1 DEF AloneInv
    <3>3. QED BY <2>1, <3>2
  <2>2. CASE secret[g] \notin Rotations
    <3>1. active[g] \notin Rotations
      BY <2>2 DEF AloneInv
    <3>2. secret[g] = Original /\ active[g] = Original
      BY <2>2, <3>1 DEF RotationTypeOK, Secrets
    <3>3. QED BY <3>2
  <2>3. QED BY <2>1, <2>2
<1>2. RotationSpec => [](RotationTypeOK /\ Inv)
  BY RotationUsesChannel, ChannelSound, RotationTypeAlwaysOK, PTL
<1>3. RotationTypeOK /\ Inv /\ WireInv /\ AloneInv /\ [RotationNext]_rotationVars
        => (WireInv /\ AloneInv)'
  BY RotationInvStep DEF RotationInv
<1>4. RotationSpec => [](WireInv /\ AloneInv)
  BY <1>2, <1>3, RotationInvInit, PTL DEF RotationSpec
<1>5. QED BY <1>1, <1>2, <1>4, PTL

=============================================================================
