----------------------------- MODULE SetupTokens -----------------------------
(***************************************************************************)
(* The tokens with which an installer creates the gateway of a location:   *)
(* redeemToken reads the token, creates the gateway and only then marks    *)
(* the token used.                                                         *)
(***************************************************************************)
EXTENDS ServiceRequests

CONSTANT TokenIds

TokenRow == [used : BOOLEAN, expired : BOOLEAN]
ASSUME TokenAssumption == Nil \notin TokenRow

VARIABLES
  tokens,    \* GatewaySetupToken rows of one location
  made,      \* Gateway rows created with each token
  cut        \* tokens of redemptions that overlapped or were interrupted

setup == <<tokens, made, cut>>

SetupInit ==
  /\ ControlInit
  /\ tokens = [k \in TokenIds |-> Nil] /\ made = [k \in TokenIds |-> 0] /\ cut = {}

Redeemers(k) == {t \in Threads : job[t].pc \in {"createGateway", "markUsed"} /\ job[t].token = k}

\* createToken: the unused tokens expire, then a new one is created.
ExpireOld(t) ==
  /\ Arrive(t, [pc |-> "createToken"])
  /\ tokens' = [k \in TokenIds |-> IF tokens[k] # Nil /\ ~tokens[k].used
                                   THEN [tokens[k] EXCEPT !.expired = TRUE] ELSE tokens[k]]
  /\ UNCHANGED <<made, cut>>
CreateToken(t) ==
  /\ At(t, "createToken")
  /\ \E k \in TokenIds :
       /\ tokens[k] = Nil
       /\ tokens' = [tokens EXCEPT ![k] = [used |-> FALSE, expired |-> FALSE]]
  /\ Finish(t)
  /\ UNCHANGED <<made, cut>>

\* revokeToken, of a token in any state; and the day that a token lasts.
ExpireToken(k) ==
  /\ tokens[k] # Nil /\ Serve
  /\ tokens' = [tokens EXCEPT ![k].expired = TRUE]
  /\ UNCHANGED <<made, cut>>

\* Variant that looks at the expiry only.
RedeemReadExpiry(t, k) ==
  /\ tokens[k] # Nil /\ ~tokens[k].expired
  /\ Arrive(t, [pc |-> "createGateway", token |-> k])
  /\ cut' = IF Redeemers(k) = {} THEN cut ELSE cut \cup {k}
  /\ UNCHANGED <<tokens, made>>

\* redeemToken.
RedeemRead(t, k) ==
  /\ tokens[k] # Nil /\ ~tokens[k].used /\ ~tokens[k].expired
  /\ Arrive(t, [pc |-> "createGateway", token |-> k])
  /\ cut' = IF Redeemers(k) = {} THEN cut ELSE cut \cup {k}
  /\ UNCHANGED <<tokens, made>>
RedeemCreate(t) ==
  /\ At(t, "createGateway")
  /\ made' = [made EXCEPT ![job[t].token] = @ + 1]
  /\ GoTo(t, [job[t] EXCEPT !.pc = "markUsed"])
  /\ UNCHANGED <<tokens, cut>>
RedeemMark(t) ==
  /\ At(t, "markUsed")
  /\ tokens' = [tokens EXCEPT ![job[t].token].used = TRUE]
  /\ Finish(t)
  /\ UNCHANGED <<made, cut>>

\* The backend restarts: what was under way is lost.
SetupRestart ==
  /\ ~Quiet
  /\ job' = [t \in Threads |-> Idle]
  /\ cut' = cut \cup {k \in TokenIds : Redeemers(k) # {}}
  /\ UNCHANGED <<tokens, made, now, requests>>

SetupNext ==
  \/ \E t \in Threads :
       \/ ExpireOld(t) \/ CreateToken(t) \/ RedeemCreate(t) \/ RedeemMark(t)
       \/ \E k \in TokenIds : RedeemRead(t, k)
  \/ \E k \in TokenIds : ExpireToken(k)
  \/ SetupRestart
SetupSpec == SetupInit /\ [][SetupNext]_<<setup, control>>

----------------------------------------------------------------------------
SetupTypeOK ==
  /\ tokens \in [TokenIds -> TokenRow \cup {Nil}]
  /\ made \in [TokenIds -> Nat] /\ cut \subseteq TokenIds

\* A token creates one gateway, however it expires, is revoked or replaced in
\* between, unless its redemptions overlapped or one was interrupted.
TokenMakesOneGateway == \A k \in TokenIds \ cut : made[k] <= 1
=============================================================================
