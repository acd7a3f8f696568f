----------------------------- MODULE SignData -----------------------------
(***************************************************************************)
(* One run of signing by a storeman group: the contexts that               *)
(* mpc_sign_data.go builds, in which every step waits for a threshold of   *)
(* messages at most and a timer ends a step without an error, so that the  *)
(* nodes may compute with different sets of messages.                      *)
(*                                                                         *)
(* Values are abstracted to where they come from.  A share of the nonce is *)
(* the set of nodes whose polynomials are summed in it.  What Lagrange     *)
(* computes from the shares of a set of nodes does not depend on the set   *)
(* when the shares lie on one polynomial, and is a value of its own        *)
(* otherwise; different origins give different values.  A node that        *)
(* crashes is a node that takes no further step.                           *)
(***************************************************************************)
EXTENDS Integers, FiniteSets

CONSTANTS
  Nodes,    \* the peers of the keystore of the group key
  Leader,   \* the node whose API got signData
  Thr,      \* MpcSchnrThr
  NoVal,    \* a value not computed yet
  Faults,   \* a subset of {"timeout", "late", "refuse"}
  MaxFired  \* with "timeout", how many timers fire at most

\* The default is 26 of 50.  New in storeman.go takes both numbers from the
\* configuration and checks Thr <= N.
ASSUME SignAssumption ==
  /\ IsFiniteSet(Nodes)
  /\ Leader \in Nodes
  /\ Thr \in 1..Cardinality(Nodes)

\* The steps in the order of generateTxSignMpc.
Steps == 0..5
Req   == 0
Ready == 1
Share == 2
RStep == 3
SStep == 4
AckRS == 5

VARIABLES
  ctx,      \* the context: "none" yet, "active", "done", or "refused"
  at,       \* the step whose FinishStep mainMPCProcess is in
  share,    \* RMpcPrivateShare: the set of nodes whose polynomial is in it
  rpk,      \* RPublicKeyResult
  sig,      \* MpcS
  result,   \* what mainMPCProcess returned: "none" yet, "ok" or "err"
  requests, \* the nodes to which a RequestMPC is on its way
  errors,   \* the nodes to which an MPCError is on its way
  lost,     \* messages thrown away because there was no context
  fired,    \* with "timeout", how many timers have fired
  timers    \* <<m, n>>: m has set the timer of FinishStep before n
values == <<share, rpk, sig>>
vars == <<ctx, at, share, rpk, sig, result, requests, errors, lost, fired, timers>>

\* SetWaiting: how many messages a step of a node waits for.
Waiting(n, s) ==
  CASE s = Req   -> IF n = Leader THEN Thr ELSE 0
    [] s = Ready -> IF n = Leader THEN 0 ELSE 1
    [] s = Share -> Cardinality(Nodes)
    [] OTHER     -> Thr

\* Whose messages the step may get.
Senders(n, s) ==
  CASE s = Req   -> IF n = Leader THEN Nodes \ {Leader} ELSE {}
    [] s = Ready -> IF n = Leader THEN {} ELSE {Leader}
    [] OTHER     -> Nodes

\* A step's messages are sent as soon as the step before it is over.
Sent(m, s) == ctx[m] \in {"active", "done"} /\ at[m] >= s

\* The messages of step s that may be in the map of node n.
Arriving(n, s) == {m \in Senders(n, s) : Sent(m, s) /\ <<m, n, s>> \notin lost}

\* The leader's context has sent its requests.
Init ==
  /\ ctx = [n \in Nodes |-> IF n = Leader THEN "active" ELSE "none"]
  /\ at = [n \in Nodes |-> Req]
  /\ share = [n \in Nodes |-> {}]
  /\ rpk = [n \in Nodes |-> NoVal]
  /\ sig = [n \in Nodes |-> NoVal]
  /\ result = [n \in Nodes |-> "none"]
  /\ requests = Nodes \ {Leader}
  /\ errors = {}
  /\ lost = {}
  /\ fired = 0
  /\ timers = {}

-----------------------------------------------------------------------------
(* The main goroutine of a node's context.                                 *)

\* The timers without the one of n.
Stopped(n) == {p \in timers : n \notin {p[1], p[2]}}

\* n sets its timer after all others; the order is of no interest when timers
\* fire any time.
SetTimer(n) ==
  timers' = IF "timeout" \in Faults THEN timers
            ELSE Stopped(n) \cup ({m \in Nodes \ {n} : ctx[m] = "active"} \X {n})

\* mainMPCProcess ends: with an error, it tells every other node; then quit and
\* removeMpcContext.
Return(n, res) ==
  /\ result' = [result EXCEPT ![n] = res]
  /\ ctx' = [ctx EXCEPT ![n] = "done"]
  /\ errors' = IF res = "ok" THEN errors ELSE errors \cup (Nodes \ {n})
  /\ timers' = Stopped(n)
  /\ UNCHANGED <<at, values, requests, lost>>

\* The map of the step has all it waits for; no message is accepted after that.
Complete(n, s, D) == Cardinality(D) = Waiting(n, s)

\* Nothing moves in the whole group before a timer fires.
Quiet ==
  /\ requests = {}
  /\ \A n \in Nodes : ctx[n] = "active" =>
       n \notin errors /\ Cardinality(Arriving(n, at[n])) < Waiting(n, at[n])

\* The timer of FinishStep fires when D is in the map.  All timers are set to
\* MPCTimeOut: when the group is quick they fire in the order in which they were
\* set, and after all messages; when it may be slow, any time.  The node's own
\* message does not travel.
TimeOut(n, s, D) ==
  /\ Cardinality(D) < Waiting(n, s)
  /\ n \in Senders(n, s) => n \in D
  /\ IF "timeout" \in Faults
     THEN fired < MaxFired /\ fired' = fired + 1
     ELSE /\ Quiet /\ D = Arriving(n, s)
          /\ \A m \in Nodes : <<m, n>> \notin timers
          /\ UNCHANGED fired

\* A form of StepOver without the timer: a step is over only when all have come.
StepOverNoTimer(n, s, D) ==
  /\ ctx[n] = "active" /\ at[n] = s
  /\ D \subseteq Arriving(n, s)
  /\ Complete(n, s, D) /\ UNCHANGED fired

\* BaseStep.FinishStep returns nil: by finish, or by its timer, which is no error
\* as SetWaitAll(false) has been called.
StepOver(n, s, D) ==
  /\ ctx[n] = "active" /\ at[n] = s
  /\ D \subseteq Arriving(n, s)
  /\ \/ Complete(n, s, D) /\ UNCHANGED fired
     \/ TimeOut(n, s, D)

\* InitStep, CreateMessage and the sends of the next step follow at once.
NextStep(n) ==
  /\ at' = [at EXCEPT ![n] = @ + 1]
  /\ SetTimer(n)
  /\ UNCHANGED <<ctx, result, requests, errors, lost>>

\* RequestMpcStep, AckMpcStep, MpcReadyStep and GetMpcReadyStep: nothing else.
\* Without "late" all contexts exist before the leader goes on.
FinishStart(n, D) ==
  /\ StepOver(n, Req, D) \/ StepOver(n, Ready, D)
  /\ n = Leader /\ at[n] = Req => "late" \in Faults \/ requests = {}
  /\ NextStep(n)
  /\ UNCHANGED values

\* A form of FinishShare that needs all shares, as SetWaitAll(true) would.
FinishShareAll(n, D) ==
  /\ StepOver(n, Share, D)
  /\ IF D = Nodes
     THEN /\ share' = [share EXCEPT ![n] = D]
          /\ NextStep(n)
          /\ UNCHANGED <<rpk, sig>>
     ELSE Return(n, "err")

\* MpcRSKShare_Step: the share is the sum over the received map.
FinishShare(n, D) ==
  /\ StepOver(n, Share, D)
  /\ share' = [share EXCEPT ![n] = D]
  /\ NextStep(n)
  /\ UNCHANGED <<rpk, sig>>

\* What Lagrange interpolation makes of the values v[n] of the nodes in D.
Lagrange(v, D) ==
  IF \A m, k \in D : v[m] = v[k]
  THEN [n \in Nodes |-> v[CHOOSE m \in D : TRUE]]
  ELSE [n \in D |-> v[n]]

\* MpcRStep: the map holds Thr shares at most, all of which are used.
FinishR(n, D) ==
  /\ StepOver(n, RStep, D) /\ Cardinality(D) = Thr
  /\ rpk' = [rpk EXCEPT ![n] = Lagrange(share, D)]
  /\ NextStep(n)
  /\ UNCHANGED <<share, sig>>

\* mpcSGenerator: a signature share is made of the node's share of the nonce and
\* of the hash of the message and the R the node has.
SValue(D) == [nonce |-> Lagrange(share, D), hash |-> Lagrange(rpk, D)]

\* A form of FinishS that takes the R of the round again, from the nodes whose
\* signature shares it uses.
FinishSNewR(n, D) ==
  /\ StepOver(n, SStep, D) /\ Cardinality(D) = Thr
  /\ sig' = [sig EXCEPT ![n] = SValue(D)]
  /\ rpk' = [rpk EXCEPT ![n] = Lagrange(share, D)]
  /\ NextStep(n)
  /\ UNCHANGED share

\* MpcSStep.
FinishS(n, D) ==
  /\ StepOver(n, SStep, D) /\ Cardinality(D) = Thr
  /\ sig' = [sig EXCEPT ![n] = SValue(D)]
  /\ NextStep(n)
  /\ UNCHANGED <<share, rpk>>

\* ErrTooLessDataCollected of either.
FinishTooLess(n, D) ==
  /\ StepOver(n, RStep, D) \/ StepOver(n, SStep, D)
  /\ Cardinality(D) < Thr
  /\ Return(n, "err")

\* s*G = R + m*gpk: the nonce behind s is the one behind R, and all signature
\* shares in s have hashed this R.
Verified(n) ==
  sig[n] = [nonce |-> rpk[n], hash |-> [m \in Nodes |-> rpk[n]]]

\* Forms of FinishAckRS: only the R and s of the others are compared; the step is
\* not the last one.
FinishAckRSNotVerified(n, D) ==
  /\ StepOver(n, AckRS, D)
  /\ IF \A m \in D : rpk[m] = rpk[n] /\ sig[m] = sig[n]
     THEN Return(n, "ok")
     ELSE Return(n, "err")
FinishAckRSGoesOn(n, D) ==
  /\ StepOver(n, AckRS, D)
  /\ NextStep(n)
  /\ UNCHANGED values

\* MpcAckRSStep with verifyRS.
FinishAckRS(n, D) ==
  /\ StepOver(n, AckRS, D)
  /\ IF /\ \A m \in D : rpk[m] = rpk[n] /\ sig[m] = sig[n]
        /\ Verified(n)
     THEN Return(n, "ok")
     ELSE Return(n, "err")

\* An MPCError arrives, QuitMpcContext quits all steps, and FinishStep of a step
\* that still waits for somebody returns the error.
QuitMpcContext(n) ==
  /\ ctx[n] = "active" /\ n \in errors
  /\ Waiting(n, at[n]) > 0
  /\ Return(n, "err")
  /\ UNCHANGED fired

-----------------------------------------------------------------------------
(* The distributor.                                                        *)

\* createMpcCtx for a RequestMPC: the data is approved, the context is in mpcMap
\* before its main goroutine acknowledges.  Of the messages sent so far,
\* getMpcMessage has thrown away those that came before; when delays are
\* arbitrary, these are messages that never arrive.  The same holds for an
\* MPCError.
CreateMpcCtx(n) ==
  /\ n \in requests
  /\ requests' = requests \ {n}
  /\ ctx' = [ctx EXCEPT ![n] = "active"]
  /\ IF "timeout" \in Faults THEN UNCHANGED lost
     ELSE \E L \in SUBSET {x \in Nodes \X {n} \X Steps :
                            x[1] \in Arriving(n, x[3])} : lost' = lost \cup L
  /\ SetTimer(n)
  /\ errors' \in {errors, errors \ {n}}
  /\ UNCHANGED <<at, values, result, fired>>

\* The data is not approved in time: the node tells only itself.
RefuseMpcCtx(n) ==
  /\ "refuse" \in Faults
  /\ n \in requests
  /\ requests' = requests \ {n}
  /\ ctx' = [ctx EXCEPT ![n] = "refused"]
  /\ UNCHANGED <<at, values, result, errors, lost, fired, timers>>

-----------------------------------------------------------------------------
Main(n) ==
  \/ \E D \in SUBSET Nodes :
       \/ FinishStart(n, D) \/ FinishShare(n, D) \/ FinishR(n, D) \/ FinishS(n, D)
       \/ FinishTooLess(n, D) \/ FinishAckRS(n, D)
  \/ QuitMpcContext(n)

\* No context is left, or the bound lets no timer fire any more.
Terminated ==
  /\ fired = MaxFired \/ \A n \in Nodes : ctx[n] # "active"
  /\ UNCHANGED vars

Next ==
  \/ \E n \in Nodes : Main(n) \/ CreateMpcCtx(n) \/ RefuseMpcCtx(n)
  \/ Terminated

Spec == Init /\ [][Next]_vars

\* Every main goroutine is scheduled and its timer fires; every request is
\* answered, as the wait for the approval ends after MPCTimeOut.
FairSpec ==
  /\ Spec
  /\ \A n \in Nodes :
       WF_vars(Main(n)) /\ WF_vars(CreateMpcCtx(n) \/ RefuseMpcCtx(n))

-----------------------------------------------------------------------------
(* Properties.                                                             *)

Points == UNION {[D -> SUBSET Nodes] : D \in SUBSET Nodes}

\* No context runs past its last step (mainMPCProcess), and R and S are what
\* interpolation makes of shares.
TypeOK ==
  /\ ctx \in [Nodes -> {"none", "active", "done", "refused"}]
  /\ at \in [Nodes -> Steps]
  /\ share \in [Nodes -> SUBSET Nodes]
  /\ rpk \in [Nodes -> Points \cup {NoVal}]
  /\ sig = [n \in Nodes |-> sig[n]]
  /\ \A n \in Nodes : sig[n] # NoVal =>
       /\ DOMAIN sig[n] = {"nonce", "hash"}
       /\ sig[n].nonce \in Points
       /\ \E D \in SUBSET Nodes : sig[n].hash \in [D -> Points]
  /\ result \in [Nodes -> {"none", "ok", "err"}]
  /\ requests \in SUBSET Nodes
  /\ errors \in SUBSET Nodes
  /\ lost \in SUBSET (Nodes \X Nodes \X Steps)
  /\ fired \in Nat
  /\ timers \in SUBSET (Nodes \X Nodes)

\* A signature is reported only when Thr nodes have put their share of the key
\* to the very R of it, whatever timers, late nodes and crashes did to the maps.
SignedByThreshold ==
  \A n \in Nodes : result[n] = "ok" =>
    \E E \in SUBSET Nodes :
      /\ Cardinality(E) = Thr
      /\ \A m \in E : Sent(m, SStep) /\ rpk[m] = rpk[n]

\* Nodes that report a signature report the same one.
OneSignature ==
  \A n, m \in Nodes :
    result[n] = "ok" /\ result[m] = "ok" => rpk[n] = rpk[m] /\ sig[n] = sig[m]

\* Every node sums the same polynomials: "so each node can get the same poly
\* value" (mpc_sign_data.go).
SamePolyValue ==
  \A n, m \in Nodes : at[n] > Share /\ at[m] > Share => share[n] = share[m]

\* When timers fire only when nothing else moves and no message came before the
\* context of its receiver, everybody who takes part ends with a signature as
\* long as the nodes that refuse leave Thr others.
SignedDespiteRefusals ==
  lost = {} /\ Cardinality({n \in Nodes : ctx[n] = "refused"}) + Thr <= Cardinality(Nodes)
  => \A n \in Nodes : result[n] # "err"

\* To its caller the run is Signing: mpcSGenerator puts the share of the key to
\* the R the node has when MpcRStep is over, and MpcAckRSStep reports that R; a
\* node never puts its share to a second R and never takes a report back.
SG == INSTANCE Signing WITH
  Quorums <- {E \in SUBSET Nodes : Cardinality(E) = Thr},
  put <- [n \in Nodes |-> IF Sent(n, SStep) THEN {rpk[n]} ELSE {}],
  reported <- [n \in Nodes |-> IF result[n] = "ok" THEN {rpk[n]} ELSE {}]
ImplementsSigning == SG!Spec

\* However many nodes refuse or come late, and whatever messages they miss, no
\* context waits for ever: the API call that waits for it returns.
EveryContextEnds == \A n \in Nodes : ctx[n] = "active" ~> ctx[n] = "done"
=============================================================================
