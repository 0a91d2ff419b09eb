-------------------------- MODULE GatewayCommands --------------------------
(***************************************************************************)
(* The channel from the backend to the gateways: the SSE streams the       *)
(* gateways open, the commands published on them with a nonce, and the     *)
(* ACKs the gateways POST back.  GatewayCommandsService keeps a map of the *)
(* active streams and a map of the commands that wait for an ACK.          *)
(*                                                                         *)
(* The handlers of the service run without an await: each is one action.   *)
(* The gateway and the network are external: a stream may break at any     *)
(* time, and a POST may be lost, repeated or late.                         *)
(***************************************************************************)
EXTENDS FiniteSets, Integers

CONSTANTS
  Gateways,
  Streams,       \* SSE requests (bounds the reconnects)
  Nonces,        \* one for each publish
  None,          \* no stream
  MaxRestarts    \* bound on the restarts of the backend

ASSUME GatewayAssumption ==
  /\ Gateways # {}
  /\ None \notin Streams
  /\ MaxRestarts \in Nat

VARIABLES
  connections,   \* gatewayId -> its active stream
  stream,        \* the state of each stream
  owner,         \* the gateway that opened it
  newest,        \* history: the last stream a gateway opened
  pending,       \* nonces that wait for their ACK
  outcome,       \* what became of the promise of each publish
  wire,          \* the stream a nonce was written to
  executed,      \* external: commands their gateway carried out
  acks,          \* external: ACKs a gateway sent; never removed
  restarts

link == <<connections, stream, owner, newest>>
commands == <<pending, outcome, wire>>
gateway == <<executed, acks>>
vars == <<connections, stream, owner, newest, pending, outcome, wire, executed, acks,
          restarts>>

\* "ended": the backend called end(); "aborted": the peer went away; "closed":
\* the request's close event was handled.
StreamStates == {"unused", "open", "ended", "aborted", "closed"}

Outcomes == {"none", "waiting", "ok", "nack", "timeout", "refused", "sent", "shutdown"}

Ack == [nonce : Nonces, ok : BOOLEAN]

Init ==
  /\ connections = [g \in Gateways |-> None]
  /\ stream = [c \in Streams |-> "unused"]
  /\ owner = [c \in Streams |-> CHOOSE g \in Gateways : TRUE]
  /\ newest = [g \in Gateways |-> None]
  /\ pending = {}
  /\ outcome = [p \in Nonces |-> "none"]
  /\ wire = [p \in Nonces |-> None]
  /\ executed = {}
  /\ acks = {}
  /\ restarts = 0

-----------------------------------------------------------------------------
(***************************************************************************)
(* Streams.                                                                *)
(***************************************************************************)

\* writableEnded is TRUE only of a stream the backend itself ended.
Connected(g) == connections[g] # None /\ stream[connections[g]] # "ended"

\* Mutated form of Register: a gateway that is connected keeps its old stream.
RegisterKeepsOld(g, c) ==
  /\ stream[c] = "unused"
  /\ stream' = [stream EXCEPT ![c] = "open"]
  /\ owner' = [owner EXCEPT ![c] = g]
  /\ newest' = [newest EXCEPT ![g] = c]
  /\ connections' = IF Connected(g) THEN connections ELSE [connections EXCEPT ![g] = c]
  /\ UNCHANGED <<commands, gateway, restarts>>

\* registerConnection ends the stream it replaces.
Register(g, c) ==
  /\ stream[c] = "unused"
  /\ stream' = [x \in Streams |-> IF x = c THEN "open"
                                  ELSE IF Connected(g) /\ x = connections[g] THEN "ended"
                                  ELSE stream[x]]
  /\ owner' = [owner EXCEPT ![c] = g]
  /\ newest' = [newest EXCEPT ![g] = c]
  /\ connections' = [connections EXCEPT ![g] = c]
  /\ UNCHANGED <<commands, gateway, restarts>>

\* The peer or the network breaks the stream; the backend does not know yet.
Abort(c) ==
  /\ stream[c] = "open"
  /\ stream' = [stream EXCEPT ![c] = "aborted"]
  /\ UNCHANGED <<connections, owner, newest, commands, gateway, restarts>>

\* The request's close event: removeConnection takes the gateway's entry out,
\* whichever stream it names by then.
CloseEvent(c) ==
  /\ stream[c] \in {"ended", "aborted"}
  /\ stream' = [stream EXCEPT ![c] = "closed"]
  /\ connections' = [connections EXCEPT ![owner[c]] = None]
  /\ UNCHANGED <<owner, newest, commands, gateway, restarts>>

-----------------------------------------------------------------------------
(***************************************************************************)
(* Commands.                                                               *)
(***************************************************************************)

\* publish: with a timeout it waits for the ACK, without one it returns.
Publish(p, g, waits) ==
  /\ outcome[p] = "none"
  /\ IF Connected(g)
     THEN /\ wire' = [wire EXCEPT ![p] = connections[g]]
          /\ outcome' = [outcome EXCEPT ![p] = IF waits THEN "waiting" ELSE "sent"]
          /\ pending' = IF waits THEN pending \cup {p} ELSE pending
     ELSE /\ outcome' = [outcome EXCEPT ![p] = "refused"]
          /\ UNCHANGED <<wire, pending>>
  /\ UNCHANGED <<link, gateway, restarts>>

\* Mutated form of HandleAck: any ACK answers whoever waits.
HandleAckAnyNonce(a) ==
  \E p \in pending :
    /\ pending' = pending \ {p}
    /\ outcome' = [outcome EXCEPT ![p] = IF a.ok THEN "ok" ELSE "nack"]
    /\ UNCHANGED <<wire, link, gateway, restarts>>

\* Mutated form of HandleAck: the entry stays in the map until its timeout.
HandleAckKeepsPending(a) ==
  /\ a.nonce \in pending
  /\ outcome' = [outcome EXCEPT ![a.nonce] = IF a.ok THEN "ok" ELSE "nack"]
  /\ UNCHANGED <<pending, wire, link, gateway, restarts>>

\* handleAck; an ACK whose nonce nobody waits for changes nothing.
HandleAck(a) ==
  /\ a.nonce \in pending
  /\ pending' = pending \ {a.nonce}
  /\ outcome' = [outcome EXCEPT ![a.nonce] = IF a.ok THEN "ok" ELSE "nack"]
  /\ UNCHANGED <<wire, link, gateway, restarts>>

AckTimeout(p) ==
  /\ p \in pending
  /\ pending' = pending \ {p}
  /\ outcome' = [outcome EXCEPT ![p] = "timeout"]
  /\ UNCHANGED <<wire, link, gateway, restarts>>

\* Mutated form of Shutdown: the commands that wait are cleared, not rejected.
ShutdownForgets ==
  /\ restarts < MaxRestarts
  /\ restarts' = restarts + 1
  /\ connections' = [g \in Gateways |-> None]
  /\ stream' = [c \in Streams |-> IF stream[c] = "unused" THEN "unused" ELSE "closed"]
  /\ pending' = {}
  /\ UNCHANGED <<owner, newest, outcome, wire, gateway>>

\* onModuleDestroy ends the streams and rejects the promises; then the process
\* exits, and a stream that was not in the map breaks.
Shutdown ==
  /\ restarts < MaxRestarts
  /\ restarts' = restarts + 1
  /\ connections' = [g \in Gateways |-> None]
  /\ stream' = [c \in Streams |-> IF stream[c] = "unused" THEN "unused" ELSE "closed"]
  /\ outcome' = [p \in Nonces |-> IF p \in pending THEN "shutdown" ELSE outcome[p]]
  /\ pending' = {}
  /\ UNCHANGED <<owner, newest, wire, gateway>>

-----------------------------------------------------------------------------
(***************************************************************************)
(* The gateway: it reads a command off its stream (what was written before *)
(* end() still arrives), carries it out or not, and says so.               *)
(***************************************************************************)
Readable(p) == wire[p] # None /\ stream[wire[p]] \in {"open", "ended"}

Execute(p) ==
  /\ Readable(p)
  /\ p \notin executed
  /\ executed' = executed \cup {p}
  /\ acks' = acks \cup {[nonce |-> p, ok |-> TRUE]}

Decline(p) ==
  /\ Readable(p)
  /\ p \notin executed
  /\ acks' = acks \cup {[nonce |-> p, ok |-> FALSE]}
  /\ UNCHANGED executed

Transport ==
  \/ \E g \in Gateways, c \in Streams : Register(g, c)
  \/ \E c \in Streams : Abort(c) \/ CloseEvent(c)
  \/ \E a \in acks : HandleAck(a)
  \/ \E p \in Nonces : AckTimeout(p)

Next ==
  \/ Transport
  \/ Shutdown
  \/ \E p \in Nonces, g \in Gateways, waits \in BOOLEAN : Publish(p, g, waits)
  \/ \E p \in Nonces : (Execute(p) \/ Decline(p)) /\ UNCHANGED <<link, commands, restarts>>

Spec == Init /\ [][Next]_vars

\* The timers of the process fire.
Fairness == \A p \in Nonces : WF_vars(AckTimeout(p))

FairSpec == Spec /\ Fairness

-----------------------------------------------------------------------------
TypeOK ==
  /\ connections \in [Gateways -> Streams \cup {None}]
  /\ stream \in [Streams -> StreamStates]
  /\ owner \in [Streams -> Gateways]
  /\ newest \in [Gateways -> Streams \cup {None}]
  /\ pending \in SUBSET Nonces
  /\ outcome \in [Nonces -> Outcomes]
  /\ wire \in [Nonces -> Streams \cup {None}]
  /\ executed \in SUBSET Nonces
  /\ acks \in SUBSET Ack
  /\ restarts \in Nat

(***************************************************************************)
(* A publish that was answered ok was carried out, whatever ACKs of other  *)
(* commands were late, repeated or reordered.                              *)
(***************************************************************************)
AnsweredMeansExecuted == \A p \in Nonces : outcome[p] = "ok" => p \in executed

(***************************************************************************)
(* The backend writes only to the stream its gateway opened last, and not  *)
(* to one whose close it has handled.                                      *)
(***************************************************************************)
ConnectedToNewest ==
  \A g \in Gateways : connections[g] # None =>
    connections[g] = newest[g] /\ stream[connections[g]] \in {"open", "aborted"}

\* No publish waits for good: it is answered, times out, or is rejected.
PublishSettles == \A p \in Nonces : outcome[p] = "waiting" ~> outcome[p] # "waiting"

(***************************************************************************)
(* What the service says of its map ("gatewayId -> active SSE Response"):  *)
(* the stream a gateway listens on, its last one, is in the map.           *)
(***************************************************************************)
ActiveStreamIsMapped ==
  \A g \in Gateways : newest[g] # None /\ stream[newest[g]] = "open" =>
    connections[g] = newest[g]

(***************************************************************************)
(* What the properties above rest on.                                      *)
(***************************************************************************)
LinkInv ==
  /\ TypeOK
  /\ \A g \in Gateways : newest[g] # None => /\ stream[newest[g]] # "unused"
                                             /\ owner[newest[g]] = g
  /\ \A p \in Nonces : p \in pending <=> outcome[p] = "waiting"
  /\ \A a \in acks : a.ok => a.nonce \in executed
=============================================================================
