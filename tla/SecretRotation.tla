--------------------------- MODULE SecretRotation ---------------------------
(***************************************************************************)
(* GatewaysService.rotateSecret on top of GatewayCommands: a new secret is *)
(* prepared at the gateway, saved in the database once that was answered,  *)
(* then committed at the gateway.  A rotation is a request that awaits the *)
(* database and two ACKs; nothing keeps two of them apart.                 *)
(*                                                                         *)
(* A rotation makes one secret, and names it.  The gateway's side is       *)
(* external: "prepare" writes GATEWAY_SECRET_PENDING, "commit" promotes it.*)
(***************************************************************************)
EXTENDS GatewayCommands

CONSTANTS
  Rotations,     \* the calls of rotateSecret
  Original       \* the secret a gateway was set up with

Secrets == Rotations \cup {Original}

ASSUME RotationAssumption ==
  /\ Nonces = Rotations \X {"prepare", "commit"}
  /\ Original \notin Rotations
  /\ None \notin Secrets

VARIABLES
  secret,        \* Gateway.secretRaw, the key exchange() checks against
  overlap,       \* Gateway.secretHashPending: the secret before, or None
  rotation,      \* the calls of rotateSecret
  active,        \* external: the secret a gateway signs with
  prepared       \* external: the secret it would be promoted to, or None

keys == <<secret, overlap, active, prepared>>
rotationVars == <<vars, secret, overlap, rotation, active, prepared>>

RotationInit ==
  /\ Init
  /\ secret = [g \in Gateways |-> Original]
  /\ overlap = [g \in Gateways |-> None]
  /\ active = [g \in Gateways |-> Original]
  /\ prepared = [g \in Gateways |-> None]
  /\ rotation = [t \in Rotations |->
                   [pc |-> "idle", gateway |-> CHOOSE g \in Gateways : TRUE, old |-> Original]]

-----------------------------------------------------------------------------
Goto(t, pc) == rotation' = [rotation EXCEPT ![t].pc = pc]

\* Mutated form of Start: the secret of the last overlap is taken for the old one.
StartFromOverlap(t) ==
  /\ rotation[t].pc = "idle"
  /\ \E g \in Gateways :
       /\ Connected(g)
       /\ rotation' = [rotation EXCEPT ![t] =
                         [pc |-> "prepare", gateway |-> g, old |-> overlap[g]]]
  /\ UNCHANGED <<vars, keys>>

\* The gateway's row is read and the gateway is connected; then the new
\* secret is hashed.
Start(t) ==
  /\ rotation[t].pc = "idle"
  /\ \E g \in Gateways :
       /\ Connected(g)
       /\ rotation' = [rotation EXCEPT ![t] =
                         [pc |-> "prepare", gateway |-> g, old |-> secret[g]]]
  /\ UNCHANGED <<vars, keys>>

\* Phase 1: publish rotate_secret_prepare, and wait.
Prepare(t) ==
  /\ rotation[t].pc = "prepare"
  /\ Publish(<<t, "prepare">>, rotation[t].gateway, TRUE)
  /\ Goto(t, "save")
  /\ UNCHANGED keys

\* Mutated form of Save: a prepare that was not answered in time is good enough.
SaveUnlessRefused(t) ==
  /\ rotation[t].pc = "save"
  /\ outcome[<<t, "prepare">>] \in {"ok", "timeout"}
  /\ secret' = [secret EXCEPT ![rotation[t].gateway] = t]
  /\ overlap' = [overlap EXCEPT ![rotation[t].gateway] = rotation[t].old]
  /\ Goto(t, "commit")
  /\ UNCHANGED <<vars, active, prepared>>

\* Phase 2: the UPDATE, after the ACK of the prepare.
Save(t) ==
  /\ rotation[t].pc = "save"
  /\ outcome[<<t, "prepare">>] = "ok"
  /\ secret' = [secret EXCEPT ![rotation[t].gateway] = t]
  /\ overlap' = [overlap EXCEPT ![rotation[t].gateway] = rotation[t].old]
  /\ Goto(t, "commit")
  /\ UNCHANGED <<vars, active, prepared>>

\* publish rejected: the request fails, and nothing is undone.
Abandon(t) ==
  /\ rotation[t].pc = "save"
  /\ outcome[<<t, "prepare">>] \in {"nack", "timeout", "refused"}
  /\ Goto(t, "done")
  /\ UNCHANGED <<vars, keys>>

\* Mutated form of Commit: the database is put back unless the commit is
\* answered, though the gateway may have carried it out.
CommitRollsBack(t) ==
  /\ rotation[t].pc = "commit"
  /\ IF outcome[<<t, "commit">>] = "none"
     THEN Publish(<<t, "commit">>, rotation[t].gateway, TRUE) /\ UNCHANGED <<rotation, keys>>
     ELSE /\ outcome[<<t, "commit">>] # "waiting"
          /\ secret' = IF outcome[<<t, "commit">>] = "ok" THEN secret
                       ELSE [secret EXCEPT ![rotation[t].gateway] = rotation[t].old]
          /\ Goto(t, "done")
          /\ UNCHANGED <<vars, overlap, active, prepared>>

\* rotate_secret_commit; whatever becomes of it, the rotation is done, and
\* the verification that follows only logs.
Commit(t) ==
  /\ rotation[t].pc = "commit"
  /\ Publish(<<t, "commit">>, rotation[t].gateway, TRUE)
  /\ Goto(t, "done")
  /\ UNCHANGED keys

\* cleanExpiredRotations, 15 minutes later.
CleanExpiredRotations ==
  /\ \E g \in Gateways : overlap[g] # None
  /\ \E expired \in SUBSET {g \in Gateways : overlap[g] # None} :
       overlap' = [g \in Gateways |-> IF g \in expired THEN None ELSE overlap[g]]
  /\ UNCHANGED <<vars, secret, rotation, active, prepared>>

\* A restart of the backend ends the rotations under way where they are.
RestartBackend ==
  /\ Shutdown
  /\ rotation' = [t \in Rotations |-> [rotation[t] EXCEPT !.pc =
                                         IF @ = "idle" THEN "idle" ELSE "done"]]
  /\ UNCHANGED keys

-----------------------------------------------------------------------------
ExecutePrepare(t) ==
  /\ Execute(<<t, "prepare">>)
  /\ prepared' = [prepared EXCEPT ![owner[wire[<<t, "prepare">>]]] = t]
  /\ UNCHANGED <<link, commands, restarts, secret, overlap, rotation, active>>

ExecuteCommit(t) ==
  /\ Execute(<<t, "commit">>)
  /\ LET g == owner[wire[<<t, "commit">>]]
     IN /\ prepared[g] # None
        /\ active' = [active EXCEPT ![g] = prepared[g]]
        /\ prepared' = [prepared EXCEPT ![g] = None]
  /\ UNCHANGED <<link, commands, restarts, secret, overlap, rotation>>

DeclineCommand(p) ==
  /\ Decline(p)
  /\ UNCHANGED <<link, commands, restarts, keys, rotation>>

\* What a rotation does not take part in: streams, ACKs, timeouts.
TransportStep ==
  /\ Transport
  /\ UNCHANGED <<keys, rotation>>

RotationNext ==
  \/ \E t \in Rotations : \/ Start(t) \/ Prepare(t) \/ Save(t) \/ Abandon(t) \/ Commit(t)
                          \/ ExecutePrepare(t) \/ ExecuteCommit(t)
  \/ \E p \in Nonces : DeclineCommand(p)
  \/ CleanExpiredRotations
  \/ RestartBackend
  \/ TransportStep

RotationSpec == RotationInit /\ [][RotationNext]_rotationVars

-----------------------------------------------------------------------------
RotationPcs == {"idle", "prepare", "save", "commit", "done"}

RotationTypeOK ==
  /\ secret \in [Gateways -> Secrets]
  /\ overlap \in [Gateways -> Secrets \cup {None}]
  /\ active \in [Gateways -> Secrets]
  /\ prepared \in [Gateways -> Rotations \cup {None}]
  /\ rotation \in [Rotations -> [pc : RotationPcs, gateway : Gateways, old : Secrets]]

(***************************************************************************)
(* rotateSecret's own invariant: the database holds only secrets that the  *)
(* gateway was sent and wrote down, whatever ACKs were late or lost.       *)
(***************************************************************************)
SavedOnlyIfPrepared ==
  \A g \in Gateways : secret[g] \in Rotations => <<secret[g], "prepare">> \in executed

(***************************************************************************)
(* One rotation never locks a gateway out: the secret the backend asks for *)
(* is the one the gateway signs with, or the one it has prepared, with any *)
(* of the commit, its ACK and the backend lost halfway.  (A second         *)
(* rotation overwrites the prepared secret: see the README.)               *)
(***************************************************************************)
OneRotationKeepsAccess ==
  \A g \in Gateways :
    (\A t, u \in Rotations : <<t, "prepare">> \in executed /\ <<u, "prepare">> \in executed
                               => t = u)
    => secret[g] \in {active[g], prepared[g]}
=============================================================================
