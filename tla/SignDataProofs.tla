-------------------------- MODULE SignDataProofs --------------------------
(***************************************************************************)
(* Proofs about SignData for every group, every threshold and all          *)
(* faults: what is reported as a signature is one.                         *)
(***************************************************************************)
EXTENDS SignData, FiniteSetTheorems, TLAPS

\* Time limits for every step below.
USE SMTT(60), ZenonT(60)

\* A node past MpcRStep has an R.
RInv == \A n \in Nodes : at[n] > RStep => rpk[n] \in Points

\* A node past MpcSStep has an s of Thr nodes that are past MpcRStep.
SInv ==
  \A n \in Nodes : at[n] > SStep =>
    \E D \in SUBSET Nodes :
      /\ Cardinality(D) = Thr
      /\ \A m \in D : Sent(m, SStep)
      /\ sig[n] = SValue(D)

\* A node that reports a signature has verified it.
OkInv == \A n \in Nodes : result[n] = "ok" => at[n] = AckRS /\ Verified(n)

\* A request is answered once.
RequestInv == \A n \in requests : ctx[n] = "none" /\ at[n] = Req

\* The leader has a context, a node without one has its request still to come, and
\* a context is gone when mainMPCProcess has returned.
CtxInv ==
  /\ ctx[Leader] \in {"active", "done"}
  /\ \A n \in Nodes :
       /\ ctx[n] = "none" => n \in requests
       /\ ctx[n] = "done" <=> result[n] # "none"

IInv == TypeOK /\ RequestInv /\ CtxInv /\ RInv /\ SInv /\ OkInv

-----------------------------------------------------------------------------
\* A threshold of nodes is not empty.
LEMMA ThrNotEmpty ==
  ASSUME NEW D, Cardinality(D) = Thr
  PROVE  D # {}
BY SignAssumption, FS_EmptySet DEF SignAssumption

\* Interpolation looks only at the values of the nodes in D.
LEMMA LagrangeLocal ==
  ASSUME NEW D, D # {}, NEW v, NEW w, \A m \in D : v[m] = w[m]
  PROVE  Lagrange(v, D) = Lagrange(w, D)
<1>1. (CHOOSE m \in D : TRUE) \in D
  OBVIOUS
<1>2. (\A m, k \in D : v[m] = v[k]) <=> (\A m, k \in D : w[m] = w[k])
  OBVIOUS
<1>3. [n \in D |-> v[n]] = [n \in D |-> w[n]]
  OBVIOUS
<1> QED
  BY <1>1, <1>2, <1>3 DEF Lagrange

\* When interpolation gives the value of one polynomial, all nodes in D have a
\* value of that polynomial.
LEMMA LagrangeOne ==
  ASSUME NEW D \in SUBSET Nodes, D # {}, NEW v, NEW c,
         Lagrange(v, D) = [n \in Nodes |-> c]
  PROVE  \A m \in D : v[m] = c
<1>1. CASE \A m, k \in D : v[m] = v[k]
  <2>1. (CHOOSE m \in D : TRUE) \in D
    OBVIOUS
  <2>2. [n \in Nodes |-> v[CHOOSE m \in D : TRUE]] = [n \in Nodes |-> c]
    BY <1>1 DEF Lagrange
  <2>3. v[CHOOSE m \in D : TRUE] = c
    BY <2>1, <2>2
  <2> QED
    BY <1>1, <2>1, <2>3
<1>2. CASE ~ \A m, k \in D : v[m] = v[k]
  <2>1. [n \in D |-> v[n]] = [n \in Nodes |-> c]
    BY <1>2 DEF Lagrange
  <2> QED
    BY <2>1
<1> QED
  BY <1>1, <1>2

\* Interpolation of values in S gives a function into S.
LEMMA LagrangeType ==
  ASSUME NEW D \in SUBSET Nodes, D # {}, NEW S, NEW v, \A m \in D : v[m] \in S
  PROVE  \E E \in SUBSET Nodes : Lagrange(v, D) \in [E -> S]
<1>1. (CHOOSE m \in D : TRUE) \in D
  OBVIOUS
<1>2. CASE \A m, k \in D : v[m] = v[k]
  <2>1. Lagrange(v, D) \in [Nodes -> S]
    BY <1>1, <1>2 DEF Lagrange
  <2> QED
    BY <2>1
<1>3. CASE ~ \A m, k \in D : v[m] = v[k]
  <2>1. Lagrange(v, D) \in [D -> S]
    BY <1>3 DEF Lagrange
  <2> QED
    BY <2>1
<1> QED
  BY <1>2, <1>3

\* Interpolation of shares gives a point.
LEMMA LagrangePoint ==
  ASSUME NEW D \in SUBSET Nodes, D # {}, NEW v, \A m \in D : v[m] \in SUBSET Nodes
  PROVE  Lagrange(v, D) \in Points
<1>1. PICK E \in SUBSET Nodes : Lagrange(v, D) \in [E -> SUBSET Nodes]
  BY ZenonT(60), LagrangeType
<1> QED
  BY <1>1 DEF Points

-----------------------------------------------------------------------------
\* The parts of TypeOK that the arguments about control use.
Control ==
  /\ ctx \in [Nodes -> {"none", "active", "done", "refused"}]
  /\ at \in [Nodes -> 0..5]
  /\ share \in [Nodes -> SUBSET Nodes]
  /\ rpk \in [Nodes -> Points \cup {NoVal}]
  /\ sig = [n \in Nodes |-> sig[n]]
  /\ result \in [Nodes -> {"none", "ok", "err"}]
  /\ requests \in SUBSET Nodes
  /\ errors \in SUBSET Nodes

\* The types of the control state follow from TypeOK.
LEMMA TypeControl == TypeOK => Control
BY DEF TypeOK, Control, Steps

\* What a node has made and sent stays as it is once the node is past the step.
Settled(m) ==
  /\ at'[m] >= at[m]
  /\ ctx[m] \in {"active", "done"} => ctx'[m] \in {"active", "done"}
  /\ at[m] > Share => share'[m] = share[m]
  /\ at[m] > RStep => rpk'[m] = rpk[m]
  /\ at[m] > SStep => sig'[m] = sig[m]

\* No step of a node changes what a node has made in a step it is past.
LEMMA StepSettles ==
  ASSUME Control, RequestInv, [Next]_vars
  PROVE  \A m \in Nodes : Settled(m)
<1> USE DEF Control, Settled, Share, RStep, SStep
<1>1. ASSUME NEW n \in Nodes, NEW D \in SUBSET Nodes, FinishStart(n, D)
      PROVE  \A m \in Nodes : Settled(m)
  BY <1>1 DEF FinishStart, NextStep, values
<1>2. ASSUME NEW n \in Nodes, NEW D \in SUBSET Nodes, FinishShare(n, D)
      PROVE  \A m \in Nodes : Settled(m)
  BY <1>2 DEF FinishShare, StepOver, NextStep
<1>3. ASSUME NEW n \in Nodes, NEW D \in SUBSET Nodes, FinishR(n, D)
      PROVE  \A m \in Nodes : Settled(m)
  BY <1>3 DEF FinishR, StepOver, NextStep
<1>4. ASSUME NEW n \in Nodes, NEW D \in SUBSET Nodes, FinishS(n, D)
      PROVE  \A m \in Nodes : Settled(m)
  BY <1>4 DEF FinishS, StepOver, NextStep
<1>5. ASSUME NEW n \in Nodes, NEW r, Return(n, r)
      PROVE  \A m \in Nodes : Settled(m)
  BY <1>5 DEF Return, values
<1>6. ASSUME NEW n \in Nodes, CreateMpcCtx(n) \/ RefuseMpcCtx(n)
      PROVE  \A m \in Nodes : Settled(m)
  BY <1>6 DEF CreateMpcCtx, RefuseMpcCtx, RequestInv, values
<1>7. CASE UNCHANGED vars
  BY <1>7 DEF vars
<1> QED
  BY ZenonT(60), <1>1, <1>2, <1>3, <1>4, <1>5, <1>6, <1>7
     DEF Next, Main, FinishTooLess, FinishAckRS, QuitMpcContext, Terminated

\* The signature of a threshold of nodes that have sent their share of it does
\* not change any more.
LEMMA SValueKept ==
  ASSUME Control, Control', \A m \in Nodes : Settled(m), NEW D \in SUBSET Nodes, D # {},
         \A m \in D : Sent(m, SStep)
  PROVE  SValue(D)' = SValue(D) /\ \A m \in D : Sent(m, SStep)'
<1>1. \A m \in D : at[m] > RStep /\ at[m] > Share
  BY DEF Sent, Control, SStep, RStep, Share
<1>2. \A m \in D : share'[m] = share[m] /\ rpk'[m] = rpk[m]
  BY <1>1 DEF Settled
<1>3. Lagrange(share', D) = Lagrange(share, D) /\ Lagrange(rpk', D) = Lagrange(rpk, D)
  BY <1>2, LagrangeLocal
<1>4. SValue(D)' = [nonce |-> Lagrange(share', D), hash |-> Lagrange(rpk', D)]
  BY DEF SValue, Lagrange
<1>5. SValue(D)' = SValue(D)
  BY <1>3, <1>4 DEF SValue
<1>6. \A m \in D : Sent(m, SStep)'
  <2> SUFFICES ASSUME NEW m \in D PROVE ctx'[m] \in {"active", "done"} /\ at'[m] >= SStep
    BY DEF Sent
  <2>1. ctx[m] \in {"active", "done"} /\ at[m] >= SStep /\ Settled(m)
    BY DEF Sent
  <2>2. at[m] \in 0..5 /\ at'[m] \in 0..5
    BY DEF Control
  <2> QED
    BY <2>1, <2>2 DEF Settled, SStep
<1> QED
  BY <1>5, <1>6

-----------------------------------------------------------------------------
\* The values that may stand in sig.
SigType(x) ==
  x # NoVal =>
    /\ DOMAIN x = {"nonce", "hash"}
    /\ x.nonce \in Points
    /\ \E E \in SUBSET Nodes : x.hash \in [E -> Points]

\* mpcSGenerator gives a value of that kind.
LEMMA SValueType ==
  ASSUME NEW D \in SUBSET Nodes, D # {}, Control, RInv,
         \A m \in D : Sent(m, SStep)
  PROVE  SigType(SValue(D))
<1>1. \A m \in D : rpk[m] \in Points /\ share[m] \in SUBSET Nodes
  BY DEF Sent, RInv, Control, SStep, RStep
<1>2. Lagrange(share, D) \in Points
  BY <1>1, LagrangePoint
<1>3. \E E \in SUBSET Nodes : Lagrange(rpk, D) \in [E -> Points]
  BY ZenonT(60), <1>1, LagrangeType
<1> QED
  BY <1>2, <1>3 DEF SigType, SValue

\* A map of Thr messages of MpcSStep.
LEMMA SMap ==
  ASSUME NEW n \in Nodes, NEW D \in SUBSET Nodes, FinishS(n, D)
  PROVE  D # {} /\ \A m \in D : Sent(m, SStep)
<1>1. D # {}
  BY ThrNotEmpty DEF FinishS
<1>2. D \subseteq Arriving(n, SStep)
  BY DEF FinishS, StepOver
<1> QED
  BY ZenonT(60), <1>1, <1>2 DEF Arriving

\* Every step preserves the types.
LEMMA TypeStep ==
  ASSUME TypeOK, RInv, [Next]_vars
  PROVE  TypeOK'
<1> USE TypeControl DEF Req, Ready, Share, RStep, SStep, AckRS
<1>t. TypeOK <=>
        /\ Control /\ fired \in Nat
        /\ \A n \in Nodes : SigType(sig[n])
        /\ lost \in SUBSET (Nodes \X Nodes \X Steps)
        /\ timers \in SUBSET (Nodes \X Nodes)
  BY ZenonT(60) DEF TypeOK, Control, SigType, Steps
<1>u. TypeOK' <=>
        /\ Control' /\ fired' \in Nat
        /\ \A n \in Nodes : SigType(sig'[n])
        /\ lost' \in SUBSET (Nodes \X Nodes \X Steps)
        /\ timers' \in SUBSET (Nodes \X Nodes)
  BY ZenonT(60) DEF TypeOK, Control, SigType, Steps
<1>v. ASSUME NEW n \in Nodes, SetTimer(n) \/ timers' = Stopped(n)
      PROVE  timers' \in SUBSET (Nodes \X Nodes)
  <2>1. Stopped(n) \in SUBSET (Nodes \X Nodes)
    BY <1>t DEF Stopped
  <2> QED
    BY <1>v, <2>1, <1>t DEF SetTimer
<1>w. ASSUME NEW n \in Nodes, NEW s, NEW D, StepOver(n, s, D) PROVE fired' \in Nat
  BY <1>w, <1>t DEF StepOver, TimeOut
<1>1. ASSUME NEW n \in Nodes, NEW D \in SUBSET Nodes, FinishStart(n, D)
      PROVE  TypeOK'
  <2>1. fired' \in Nat /\ timers' \in SUBSET (Nodes \X Nodes) /\ at[n] < 2
    BY <1>1, <1>v, <1>w DEF FinishStart, NextStep, StepOver
  <2> QED
    BY <1>1, <1>t, <1>u, <2>1 DEF FinishStart, NextStep, Control, values
<1>2. ASSUME NEW n \in Nodes, NEW D \in SUBSET Nodes, FinishShare(n, D)
      PROVE  TypeOK'
  <2>1. fired' \in Nat /\ timers' \in SUBSET (Nodes \X Nodes) /\ at[n] = 2
    BY <1>2, <1>v, <1>w DEF FinishShare, NextStep, StepOver
  <2> QED
    BY <1>2, <1>t, <1>u, <2>1 DEF FinishShare, NextStep, Control
<1>3. ASSUME NEW n \in Nodes, NEW D \in SUBSET Nodes, FinishR(n, D)
      PROVE  TypeOK'
  <2>1. fired' \in Nat /\ timers' \in SUBSET (Nodes \X Nodes) /\ at[n] = 3
    BY <1>3, <1>v, <1>w DEF FinishR, NextStep, StepOver
  <2>2. D # {}
    BY <1>3, ThrNotEmpty DEF FinishR
  <2>3. Lagrange(share, D) \in Points
    BY <2>2, <1>t, LagrangePoint DEF Control
  <2> QED
    BY <1>3, <1>t, <1>u, <2>1, <2>3 DEF FinishR, NextStep, Control
<1>4. ASSUME NEW n \in Nodes, NEW D \in SUBSET Nodes, FinishS(n, D)
      PROVE  TypeOK'
  <2>1. fired' \in Nat /\ timers' \in SUBSET (Nodes \X Nodes) /\ at[n] = 4
    BY <1>4, <1>v, <1>w DEF FinishS, NextStep, StepOver
  <2>2. SigType(SValue(D))
    BY <1>4, <1>t, SMap, SValueType
  <2>3. sig' = [sig EXCEPT ![n] = SValue(D)]
    BY <1>4 DEF FinishS
  <2>4. /\ \A m \in Nodes : SigType(sig'[m])
        /\ sig' = [m \in Nodes |-> sig'[m]]
    BY ZenonT(60), <2>2, <2>3, <1>t DEF Control
  <2> QED
    BY <1>4, <1>t, <1>u, <2>1, <2>4 DEF FinishS, NextStep, Control
<1>5. ASSUME NEW n \in Nodes, NEW r \in {"ok", "err"}, Return(n, r), fired' \in Nat
      PROVE  TypeOK'
  <2>1. timers' \in SUBSET (Nodes \X Nodes)
    BY <1>5, <1>v DEF Return
  <2> QED
    BY <1>5, <1>t, <1>u, <2>1 DEF Return, Control, values
<1>6. ASSUME NEW n \in Nodes, CreateMpcCtx(n)
      PROVE  TypeOK'
  <2>1. timers' \in SUBSET (Nodes \X Nodes)
    BY <1>6, <1>v DEF CreateMpcCtx
  <2>2. lost' \in SUBSET (Nodes \X Nodes \X Steps)
    <3>1. \/ lost' = lost
          \/ \E L \in SUBSET (Nodes \X {n} \X Steps) : lost' = lost \cup L
      BY <1>6 DEF CreateMpcCtx
    <3> QED
      BY <3>1, <1>t
  <2> QED
    BY <1>6, <1>t, <1>u, <2>1, <2>2 DEF CreateMpcCtx, Control, values
<1>7. ASSUME NEW n \in Nodes, RefuseMpcCtx(n)
      PROVE  TypeOK'
  BY <1>7, <1>t, <1>u DEF RefuseMpcCtx, Control, values
<1>8. CASE UNCHANGED vars
  BY <1>8, <1>t, <1>u DEF vars, Control
<1>9. ASSUME NEW n \in Nodes, NEW D \in SUBSET Nodes, FinishTooLess(n, D) PROVE TypeOK'
  BY <1>9, <1>5, <1>w DEF FinishTooLess
<1>10. ASSUME NEW n \in Nodes, NEW D \in SUBSET Nodes, FinishAckRS(n, D) PROVE TypeOK'
  BY <1>10, <1>5, <1>w DEF FinishAckRS
<1>11. ASSUME NEW n \in Nodes, QuitMpcContext(n) PROVE TypeOK'
  BY <1>11, <1>5, <1>t DEF QuitMpcContext
<1> QED
  BY <1>1, <1>2, <1>3, <1>4, <1>6, <1>7, <1>8, <1>9, <1>10, <1>11
     DEF Next, Main, Terminated

\* Who is in requests has no context, and keeps its place until it has one.
LEMMA RequestStep ==
  ASSUME Control, RequestInv, [Next]_vars
  PROVE  RequestInv'
<1> USE DEF RequestInv, Control
<1>1. ASSUME NEW n \in Nodes, ctx[n] = "active", requests' = requests,
             \A m \in Nodes \ {n} : ctx'[m] = ctx[m] /\ at'[m] = at[m]
      PROVE  RequestInv'
  BY <1>1
<1>2. ASSUME NEW n \in Nodes, NEW D \in SUBSET Nodes,
             \/ FinishStart(n, D) \/ FinishShare(n, D) \/ FinishR(n, D)
             \/ FinishS(n, D) \/ FinishTooLess(n, D) \/ FinishAckRS(n, D)
             \/ QuitMpcContext(n)
      PROVE  RequestInv'
  BY ZenonT(60), <1>1, <1>2 DEF FinishStart, FinishShare, FinishR, FinishS, FinishTooLess,
     FinishAckRS, QuitMpcContext, StepOver, NextStep, Return
<1>3. ASSUME NEW n \in Nodes, CreateMpcCtx(n) \/ RefuseMpcCtx(n)
      PROVE  RequestInv'
  BY <1>3 DEF CreateMpcCtx, RefuseMpcCtx
<1>4. CASE UNCHANGED vars
  BY <1>4 DEF vars
<1> QED
  BY <1>2, <1>3, <1>4 DEF Next, Main, Terminated

\* Contexts are made from requests and end with a result.
LEMMA CtxStep ==
  ASSUME Control, RequestInv, CtxInv, [Next]_vars
  PROVE  CtxInv'
<1> USE SignAssumption DEF SignAssumption, RequestInv, CtxInv, Control
<1>1. ASSUME NEW n \in Nodes, NextStep(n)
      PROVE  CtxInv'
  BY <1>1 DEF NextStep
<1>2. ASSUME NEW n \in Nodes, ctx[n] = "active", NEW r \in {"ok", "err"}, Return(n, r)
      PROVE  CtxInv'
  BY <1>2 DEF Return
<1>3. ASSUME NEW n \in Nodes, CreateMpcCtx(n) \/ RefuseMpcCtx(n)
      PROVE  CtxInv'
  BY <1>3 DEF CreateMpcCtx, RefuseMpcCtx
<1>4. CASE UNCHANGED vars
  BY <1>4 DEF vars
<1>5. ASSUME NEW n \in Nodes, Main(n)
      PROVE  CtxInv'
  BY ZenonT(60), <1>1, <1>2, <1>5 DEF Main, FinishStart, FinishShare, FinishR, FinishS,
     FinishTooLess, FinishAckRS, QuitMpcContext, StepOver
<1> QED
  BY <1>3, <1>4, <1>5 DEF Next, Terminated

\* How a node gets past MpcRStep, past MpcSStep and to a result.
LEMMA Progress ==
  ASSUME Control, [Next]_vars, NEW n \in Nodes
  PROVE  /\ at'[n] > RStep => at[n] > RStep \/ \E D \in SUBSET Nodes : FinishR(n, D)
         /\ at'[n] > SStep => at[n] > SStep \/ \E D \in SUBSET Nodes : FinishS(n, D)
         /\ result'[n] = "ok" => \/ result[n] = "ok"
                                 \/ \E D \in SUBSET Nodes : FinishAckRS(n, D) /\ Verified(n)
<1> DEFINE Goal == 
      /\ at'[n] > RStep => at[n] > RStep \/ \E D \in SUBSET Nodes : FinishR(n, D)
      /\ at'[n] > SStep => at[n] > SStep \/ \E D \in SUBSET Nodes : FinishS(n, D)
      /\ result'[n] = "ok" => \/ result[n] = "ok"
                              \/ \E D \in SUBSET Nodes : FinishAckRS(n, D) /\ Verified(n)
<1>1. ASSUME NEW m \in Nodes, NEW D \in SUBSET Nodes,
             FinishStart(m, D) \/ FinishShare(m, D)
      PROVE  Goal
  <2>1. at[m] < 3 /\ at' = [at EXCEPT ![m] = at[m] + 1] /\ result' = result
    BY <1>1 DEF FinishStart, FinishShare, StepOver, NextStep, Control, Req, Ready, Share
  <2> QED
    BY <2>1 DEF Control, RStep, SStep
<1>2. ASSUME NEW m \in Nodes, NEW D \in SUBSET Nodes, FinishR(m, D)
      PROVE  Goal
  <2>1. at[m] = 3 /\ at' = [at EXCEPT ![m] = at[m] + 1] /\ result' = result
    BY <1>2 DEF FinishR, StepOver, NextStep, RStep
  <2> QED
    BY <1>2, <2>1 DEF Control, RStep, SStep
<1>3. ASSUME NEW m \in Nodes, NEW D \in SUBSET Nodes, FinishS(m, D)
      PROVE  Goal
  <2>1. at[m] = 4 /\ at' = [at EXCEPT ![m] = at[m] + 1] /\ result' = result
    BY <1>3 DEF FinishS, StepOver, NextStep, SStep
  <2> QED
    BY <1>3, <2>1 DEF Control, RStep, SStep
<1>4. ASSUME NEW m \in Nodes, NEW D \in SUBSET Nodes, FinishAckRS(m, D)
      PROVE  Goal
  <2>1. at' = at
    BY <1>4 DEF FinishAckRS, Return
  <2>2. \/ result' = [result EXCEPT ![m] = "err"]
        \/ result' = [result EXCEPT ![m] = "ok"] /\ Verified(m)
    BY <1>4 DEF FinishAckRS, Return
  <2> QED
    BY <1>4, <2>1, <2>2 DEF Control
<1>5. ASSUME at' = at,
             result' = result \/ \E m \in Nodes : result' = [result EXCEPT ![m] = "err"]
      PROVE  Goal
  BY <1>5 DEF Control
<1> QED
  BY ZenonT(60), <1>1, <1>2, <1>3, <1>4, <1>5
     DEF Next, Main, FinishTooLess, QuitMpcContext, Return, CreateMpcCtx,
         RefuseMpcCtx, Terminated, vars

\* The invariant holds initially.
LEMMA InitInv == Init => IInv
<1> SUFFICES ASSUME Init PROVE IInv
  OBVIOUS
<1> USE SignAssumption DEF SignAssumption, Init, Req, Ready, Share, RStep, SStep, AckRS
<1>1. TypeOK
  BY DEF TypeOK, Steps
<1>2. RequestInv /\ CtxInv
  BY DEF RequestInv, CtxInv
<1>3. RInv /\ SInv /\ OkInv
  BY DEF RInv, SInv, OkInv
<1> QED
  BY <1>1, <1>2, <1>3 DEF IInv

\* Every step preserves it.
LEMMA NextInv == IInv /\ [Next]_vars => IInv'
<1> SUFFICES ASSUME IInv, [Next]_vars PROVE IInv'
  OBVIOUS
<1>1. TypeOK' /\ Control /\ Control' /\ RequestInv
  <2>1. TypeOK'
    BY TypeStep DEF IInv
  <2>2. TypeOK' => Control'
    BY DEF TypeOK, Control, Steps
  <2> QED
    BY <2>1, <2>2, TypeControl DEF IInv
<1>2. \A m \in Nodes : Settled(m)
  BY <1>1, StepSettles
<1>3. RInv'
  <2> SUFFICES ASSUME NEW n \in Nodes, at'[n] > RStep PROVE rpk'[n] \in Points
    BY DEF RInv
  <2>1. CASE at[n] > RStep
    BY <2>1, <1>2 DEF Settled, IInv, RInv
  <2>2. ASSUME NEW D \in SUBSET Nodes, FinishR(n, D) PROVE rpk'[n] \in Points
    <3>1. D # {}
      BY <2>2, ThrNotEmpty DEF FinishR
    <3>2. Lagrange(share, D) \in Points
      BY <3>1, <1>1, LagrangePoint DEF Control
    <3> QED
      BY <2>2, <3>2, <1>1 DEF FinishR, Control
  <2> QED
    BY <2>1, <2>2, <1>1, Progress
<1>4. SInv'
  <2> SUFFICES ASSUME NEW n \in Nodes, at'[n] > SStep
               PROVE  \E D \in SUBSET Nodes : /\ Cardinality(D) = Thr
                                              /\ \A m \in D : Sent(m, SStep)'
                                              /\ sig'[n] = SValue(D)'
    BY DEF SInv
  <2>1. PICK D \in SUBSET Nodes : /\ Cardinality(D) = Thr
                                  /\ \A m \in D : Sent(m, SStep)
                                  /\ sig'[n] = SValue(D)
    <3>1. CASE at[n] > SStep
      BY <3>1, <1>2 DEF Settled, IInv, SInv
    <3>2. ASSUME NEW D \in SUBSET Nodes, FinishS(n, D)
          PROVE  /\ Cardinality(D) = Thr
                 /\ \A m \in D : Sent(m, SStep)
                 /\ sig'[n] = SValue(D)
      BY <3>2, <1>1, SMap DEF FinishS, Control
    <3> QED
      BY <3>1, <3>2, <1>1, Progress
  <2>2. SValue(D)' = SValue(D) /\ \A m \in D : Sent(m, SStep)'
    BY <2>1, <1>1, <1>2, ThrNotEmpty, SValueKept
  <2> QED
    BY <2>1, <2>2
<1>5. OkInv'
  <2> SUFFICES ASSUME NEW n \in Nodes, result'[n] = "ok"
               PROVE  at'[n] = AckRS /\ Verified(n)'
    BY DEF OkInv
  <2>1. at[n] = AckRS /\ Verified(n)
    <3>1. ASSUME NEW D \in SUBSET Nodes, FinishAckRS(n, D) PROVE at[n] = AckRS
      BY <3>1 DEF FinishAckRS, StepOver
    <3> QED
      BY <3>1, <1>1, Progress DEF IInv, OkInv
  <2>2. /\ at'[n] >= 5 /\ at'[n] \in 0..5
        /\ rpk'[n] = rpk[n] /\ sig'[n] = sig[n]
    BY <2>1, <1>1, <1>2 DEF Settled, AckRS, RStep, SStep, Control
  <2> QED
    BY <2>1, <2>2 DEF Verified, AckRS
<1> QED
  BY <1>1, <1>3, <1>4, <1>5, RequestStep, CtxStep DEF IInv

\* The inductive invariant.
THEOREM Invariance == Spec => []IInv
BY InitInv, NextInv, PTL DEF Spec

\* The types are invariant.
THEOREM TypeCorrect == Spec => []TypeOK
<1>1. IInv => TypeOK
  BY DEF IInv
<1> QED
  BY Invariance, <1>1, PTL

\* A verified s comes from a threshold of nodes, all of whom have the R of it.
LEMMA VerifiedQuorum ==
  ASSUME IInv, NEW n \in Nodes, result[n] = "ok"
  PROVE  /\ sig[n] = [nonce |-> rpk[n], hash |-> [m \in Nodes |-> rpk[n]]]
         /\ \E D \in SUBSET Nodes :
              /\ Cardinality(D) = Thr
              /\ \A m \in D : Sent(m, SStep) /\ rpk[m] = rpk[n]
<1>1. at[n] > SStep /\ Verified(n)
  BY DEF IInv, OkInv, AckRS, SStep
<1>2. PICK D \in SUBSET Nodes : /\ Cardinality(D) = Thr
                                /\ \A m \in D : Sent(m, SStep)
                                /\ sig[n] = SValue(D)
  BY <1>1 DEF IInv, SInv
<1>3. Lagrange(rpk, D) = [m \in Nodes |-> rpk[n]]
  <2>1. SValue(D).hash = Lagrange(rpk, D)
    BY DEF SValue
  <2> QED
    BY <1>1, <1>2, <2>1 DEF Verified
<1>4. \A m \in D : rpk[m] = rpk[n]
  BY ZenonT(60), <1>2, <1>3, ThrNotEmpty, LagrangeOne
<1> QED
  BY <1>1, <1>2, <1>4 DEF Verified

\* So the invariant gives what MpcAckRSStep promises.
LEMMA QuorumOf == IInv => SignedByThreshold
BY ZenonT(60), VerifiedQuorum DEF SignedByThreshold

\* What MpcAckRSStep reports as a signature was made by a threshold of nodes that
\* put their share of the key to the R of it.
THEOREM ThresholdSigned == Spec => []SignedByThreshold
BY Invariance, QuorumOf, PTL

\* All nodes that report a signature report the same: two thresholds have a node
\* in common, which put its share of the key to one R only.  Nothing in storeman.go
\* makes the configured threshold a majority, so the theorem asks for one.
THEOREM UniqueSignature ==
  ASSUME 2 * Thr > Cardinality(Nodes)
  PROVE  Spec => []OneSignature
<1>1. IInv => OneSignature
  <2> SUFFICES ASSUME IInv, NEW n \in Nodes, NEW m \in Nodes,
                      result[n] = "ok", result[m] = "ok"
               PROVE  rpk[n] = rpk[m] /\ sig[n] = sig[m]
    BY DEF OneSignature
  <2>1. PICK D \in SUBSET Nodes :
          Cardinality(D) = Thr /\ \A k \in D : rpk[k] = rpk[n]
    BY ZenonT(60), VerifiedQuorum
  <2>2. PICK E \in SUBSET Nodes :
          Cardinality(E) = Thr /\ \A k \in E : rpk[k] = rpk[m]
    BY ZenonT(60), VerifiedQuorum
  <2>3. IsFiniteSet(Nodes) /\ Cardinality(D) + Cardinality(E) > Cardinality(Nodes)
    <3>1. Cardinality(Nodes) \in Nat
      BY SignAssumption, FS_CardinalityType DEF SignAssumption
    <3> QED
      BY <2>1, <2>2, <3>1, SignAssumption DEF SignAssumption
  <2>4. D \cap E # {}
    BY <2>3, FS_MajoritiesIntersect
  <2>5. rpk[n] = rpk[m]
    BY <2>1, <2>2, <2>4
  <2>6. /\ sig[n] = [nonce |-> rpk[n], hash |-> [k \in Nodes |-> rpk[n]]]
        /\ sig[m] = [nonce |-> rpk[m], hash |-> [k \in Nodes |-> rpk[m]]]
    BY VerifiedQuorum
  <2> QED
    BY <2>5, <2>6, ZenonT(60)
<1> QED
  BY Invariance, <1>1, PTL
-----------------------------------------------------------------------------
(* SignData implements Signing.                                            *)

\* The refinement mapping, node by node.
Put(n) == IF Sent(n, SStep) THEN {rpk[n]} ELSE {}
Reported(n) == IF result[n] = "ok" THEN {rpk[n]} ELSE {}

\* A step that changes neither for any node is no step of Signing.
LEMMA SigningStutters ==
  ASSUME \A m \in Nodes : Put(m)' = Put(m) /\ Reported(m)' = Reported(m)
  PROVE  UNCHANGED SG!vars
<1>1. [n \in Nodes |-> Put(n)'] = [n \in Nodes |-> Put(n)]
  OBVIOUS
<1>2. [n \in Nodes |-> Reported(n)'] = [n \in Nodes |-> Reported(n)]
  OBVIOUS
<1> QED
  BY <1>1, <1>2 DEF SG!vars, Put, Reported

\* MpcRStep ends: mpcSGenerator of the next step puts the share of the key to the
\* new R.
LEMMA SigningPuts ==
  ASSUME Control, OkInv, NEW n \in Nodes, NEW D \in SUBSET Nodes, FinishR(n, D)
  PROVE  SG!PutShare(n)
<1>1. /\ ctx[n] = "active" /\ at[n] = 3 /\ ctx' = ctx /\ result' = result
      /\ at' = [at EXCEPT ![n] = 4]
      /\ rpk' = [rpk EXCEPT ![n] = Lagrange(share, D)]
  BY DEF FinishR, StepOver, NextStep, RStep
<1>2. Put(n) = {} /\ Put(n)' = {Lagrange(share, D)}
  BY <1>1 DEF Put, Sent, SStep, Control
<1>3. \A m \in Nodes \ {n} : Put(m)' = Put(m)
  BY <1>1 DEF Put, Sent, SStep, Control
<1>4. \A m \in Nodes : Reported(m)' = Reported(m)
  <2>1. result[n] # "ok"
    BY <1>1 DEF OkInv, AckRS
  <2>2. result' = result /\ \A m \in Nodes \ {n} : rpk'[m] = rpk[m]
    BY <1>1 DEF Control
  <2> QED
    BY <2>1, <2>2, ZenonT(60) DEF Reported
<1>5. [m \in Nodes |-> Put(m)'] =
        [[m \in Nodes |-> Put(m)] EXCEPT ![n] = {Lagrange(share, D)}]
  BY <1>2, <1>3, ZenonT(60)
<1>6. [m \in Nodes |-> Reported(m)'] = [m \in Nodes |-> Reported(m)]
  BY <1>4
<1> QED
  BY <1>2, <1>5, <1>6, ZenonT(60) DEF SG!PutShare, Put, Reported

\* MpcAckRSStep ends without an error: the node reports an R to which Thr nodes
\* have put their shares.
LEMMA SigningReports ==
  ASSUME IInv, SignedByThreshold', NEW n \in Nodes, ctx[n] = "active", Return(n, "ok")
  PROVE  SG!Report(n)
<1> USE DEF IInv, Control
<1>c. Control
  BY TypeControl
<1>1. /\ result[n] = "none" /\ rpk' = rpk /\ at' = at
      /\ ctx' = [ctx EXCEPT ![n] = "done"] /\ result' = [result EXCEPT ![n] = "ok"]
  BY <1>c DEF CtxInv, Return, values
<1>2. \A m \in Nodes : Sent(m, SStep)' <=> Sent(m, SStep)
  BY <1>1, <1>c DEF Sent
<1>3. \A m \in Nodes : Put(m)' = Put(m)
  BY <1>1, <1>2 DEF Put
<1>4. Reported(n) = {} /\ Reported(n)' = {rpk[n]}
  BY <1>1, <1>c DEF Reported
<1>5. \A m \in Nodes \ {n} : Reported(m)' = Reported(m)
  BY <1>1, <1>c DEF Reported
<1>6. PICK E \in SUBSET Nodes :
        Cardinality(E) = Thr /\ \A m \in E : Put(m) = {rpk[n]}
  <2>1. result'[n] = "ok"
    BY <1>1, <1>c
  <2>2. PICK E \in SUBSET Nodes :
          Cardinality(E) = Thr /\ \A m \in E : Sent(m, SStep)' /\ rpk'[m] = rpk'[n]
    BY <2>1 DEF SignedByThreshold
  <2> QED
    BY <2>2, <1>1, <1>2 DEF Put
<1>7. [m \in Nodes |-> Put(m)'] = [m \in Nodes |-> Put(m)]
  BY <1>3
<1>8. [m \in Nodes |-> Reported(m)'] =
        [[m \in Nodes |-> Reported(m)] EXCEPT ![n] = {rpk[n]}]
  BY ZenonT(60), <1>4, <1>5
<1>9. \E r \in Reported(n)' :
        /\ [m \in Nodes |-> Reported(m)'] =
             [[m \in Nodes |-> Reported(m)] EXCEPT ![n] = {r}]
        /\ \E F \in {F \in SUBSET Nodes : Cardinality(F) = Thr} :
             \A m \in F : [k \in Nodes |-> Put(k)][m] = {r}
  <2>1. \A m \in E : [k \in Nodes |-> Put(k)][m] = {rpk[n]}
    BY <1>6
  <2> QED
    BY <1>4, <1>6, <1>8, <2>1
<1>10. [m \in Nodes |-> Reported(m)][n] = {} /\ [m \in Nodes |-> Reported(m)'][n] = Reported(n)'
  BY <1>4
<1> QED
  BY ZenonT(60), <1>7, <1>9, <1>10 DEF SG!Report, Put, Reported

\* Every step of a context or of the distributor is a step of Signing or none.
LEMMA SigningStep == IInv /\ SignedByThreshold' /\ [Next]_vars => [SG!Next]_SG!vars
<1> SUFFICES ASSUME IInv, SignedByThreshold', [Next]_vars PROVE [SG!Next]_SG!vars
  OBVIOUS
<1> DEFINE Same == \A m \in Nodes : Put(m)' = Put(m) /\ Reported(m)' = Reported(m)
<1>c. Control /\ RequestInv /\ CtxInv /\ OkInv
  BY TypeControl DEF IInv
<1> USE DEF Control, SStep
<1>1. ASSUME NEW n \in Nodes, NEW D \in SUBSET Nodes, FinishStart(n, D) \/ FinishShare(n, D)
      PROVE  Same
  <2>1. at[n] < 3 /\ at' = [at EXCEPT ![n] = at[n] + 1]
        /\ result' = result /\ ctx' = ctx /\ rpk' = rpk
    BY <1>1 DEF FinishStart, FinishShare, StepOver, NextStep, values, Req, Ready, Share
  <2> QED
    BY <1>c, <2>1 DEF Put, Reported, Sent
<1>2. ASSUME NEW n \in Nodes, NEW D \in SUBSET Nodes, FinishS(n, D)
      PROVE  Same
  <2>1. at[n] = 4 /\ at' = [at EXCEPT ![n] = at[n] + 1]
        /\ result' = result /\ ctx' = ctx /\ rpk' = rpk
    BY <1>2 DEF FinishS, StepOver, NextStep
  <2> QED
    BY <1>c, <2>1 DEF Put, Reported, Sent
<1>3. ASSUME NEW n \in Nodes, ctx[n] = "active", Return(n, "err")
      PROVE  Same
  <2>1. result[n] = "none" /\ at' = at /\ rpk' = rpk
        /\ ctx' = [ctx EXCEPT ![n] = "done"] /\ result' = [result EXCEPT ![n] = "err"]
    BY <1>3, <1>c DEF Return, values, CtxInv
  <2> QED
    BY <1>3, <1>c, <2>1 DEF Put, Reported, Sent
<1>4. ASSUME NEW n \in Nodes, CreateMpcCtx(n) \/ RefuseMpcCtx(n)
      PROVE  Same
  <2>1. at[n] = 0 /\ at' = at /\ rpk' = rpk /\ result' = result
        /\ \A m \in Nodes \ {n} : ctx'[m] = ctx[m]
    BY <1>4, <1>c DEF CreateMpcCtx, RefuseMpcCtx, RequestInv, values, Req
  <2> QED
    BY <1>c, <2>1 DEF Put, Reported, Sent
<1>5. CASE UNCHANGED vars
  <2>1. Same
    BY <1>5 DEF vars, Put, Reported, Sent
  <2> QED
    BY <2>1, SigningStutters
<1>6. ASSUME NEW n \in Nodes, Main(n)
      PROVE  SG!PutShare(n) \/ SG!Report(n) \/ Same
  BY ZenonT(60), <1>1, <1>2, <1>3, <1>6, <1>c, SigningPuts, SigningReports
     DEF Main, FinishTooLess, FinishAckRS, QuitMpcContext, StepOver
<1>7. ASSUME NEW n \in Nodes, Main(n) \/ CreateMpcCtx(n) \/ RefuseMpcCtx(n)
      PROVE  [SG!Next]_SG!vars
  BY ZenonT(60), <1>4, <1>6, <1>7, SigningStutters DEF SG!Next
<1> QED
  BY <1>5, <1>7 DEF Next, Terminated

\* To its caller a run of signing is Signing, whatever timers, late nodes and
\* crashes do: every behaviour of the contexts of mpc_sign_data.go is one of it.
THEOREM SigningImplemented == Spec => ImplementsSigning
<1>1. Init => SG!Init
  BY DEF Init, SG!Init, Sent, Req, SStep
<1> QED
  BY Invariance, ThresholdSigned, <1>1, SigningStep, PTL DEF Spec, ImplementsSigning, SG!Spec
-----------------------------------------------------------------------------
(* Why nobody fails when the group is quick.                               *)

\* Who takes part.
Part == {m \in Nodes : ctx[m] \in {"active", "done"}}

\* What interpolation gives when all shares lie on one polynomial.
Same(v) == [k \in Nodes |-> v]

\* No message is lost, and those who refuse leave a threshold.
Calm ==
  /\ lost = {}
  /\ Cardinality({n \in Nodes : ctx[n] = "refused"}) + Thr <= Cardinality(Nodes)

\* Then nobody fails.
NoErr == errors = {} /\ \A n \in Nodes : result[n] # "err"

\* The leader is the first: nobody gives up GetMpcReadyStep before it is ready.
ReadyInv ==
  /\ \A n \in Nodes : at[n] >= Share => at[Leader] >= Ready
  /\ \A n \in Nodes \ {Leader} :
       ctx[n] = "active" /\ ctx[Leader] = "active" /\ at[Leader] = Req
       => <<Leader, n>> \in timers

\* Nobody leaves MpcRSKShare_Step before all who take part are in it, so all sum
\* the same polynomials; and who is still in it has the earlier timer.
ShareInv ==
  /\ \A n \in Nodes : at[n] > Share =>
       requests = {} /\ share[n] = Part /\ \A m \in Part : at[m] >= Share
  /\ \A n, m \in Nodes :
       ctx[n] = "active" /\ ctx[m] = "active" /\ at[n] > Share /\ at[m] = Share
       => <<m, n>> \in timers

\* So R and s are those of one polynomial.
ValueInv ==
  /\ \A n \in Nodes : at[n] > RStep =>
       /\ rpk[n] = Same(Part)
       /\ \E D \in SUBSET Nodes : Cardinality(D) = Thr /\ \A m \in D : Sent(m, RStep)
  /\ \A n \in Nodes : at[n] > SStep =>
       sig[n] = [nonce |-> Same(Part), hash |-> Same(Same(Part))]

CalmInv == Calm => NoErr /\ ReadyInv /\ ShareInv /\ ValueInv

\* Interpolation of values that are all the same.
LEMMA LagrangeSame ==
  ASSUME NEW D, D # {}, NEW v, NEW c, \A m \in D : v[m] = c
  PROVE  Lagrange(v, D) = Same(c)
<1>1. (CHOOSE m \in D : TRUE) \in D
  OBVIOUS
<1>2. \A m, k \in D : v[m] = v[k]
  OBVIOUS
<1> QED
  BY <1>1, <1>2 DEF Lagrange, Same

\* A message once lost stays lost, and a node that has refused takes no part.
LEMMA CalmBefore ==
  ASSUME Control, RequestInv, [Next]_vars, Calm'
  PROVE  Calm
<1> DEFINE Refused == {n \in Nodes : ctx[n] = "refused"}
<1>1. lost \subseteq lost' /\ \A n \in Nodes : ctx[n] = "refused" => ctx'[n] = "refused"
  <2>1. ASSUME NEW n \in Nodes, Main(n)
        PROVE  lost' = lost /\ \A m \in Nodes : ctx[m] = "refused" => ctx'[m] = "refused"
    <3>1. ctx[n] = "active" /\ lost' = lost /\ \A m \in Nodes \ {n} : ctx'[m] = ctx[m]
      BY ZenonT(60), <2>1 DEF Main, FinishStart, FinishShare, FinishR, FinishS, FinishTooLess,
         FinishAckRS, QuitMpcContext, StepOver, NextStep, Return, Control
    <3> QED
      BY <3>1
  <2>2. ASSUME NEW n \in Nodes, CreateMpcCtx(n) \/ RefuseMpcCtx(n)
        PROVE  lost \subseteq lost'
               /\ \A m \in Nodes : ctx[m] = "refused" => ctx'[m] = "refused"
    <3>1. lost \subseteq lost'
      BY <2>2 DEF CreateMpcCtx, RefuseMpcCtx
    <3>2. ctx[n] = "none" /\ \A m \in Nodes \ {n} : ctx'[m] = ctx[m]
      BY <2>2 DEF CreateMpcCtx, RefuseMpcCtx, RequestInv, Control
    <3> QED
      BY <3>1, <3>2
  <2> QED
    BY <2>1, <2>2 DEF Next, Terminated, vars
<1>2. /\ IsFiniteSet(Refused') /\ Cardinality(Refused) <= Cardinality(Refused')
      /\ Cardinality(Refused) \in Nat /\ Cardinality(Refused') \in Nat
  <2>1. Refused \in SUBSET Refused' /\ Refused' \in SUBSET Nodes
    BY <1>1
  <2>2. IsFiniteSet(Refused')
    BY <2>1, SignAssumption, FS_Subset DEF SignAssumption
  <2> QED
    BY <2>1, <2>2, FS_Subset, FS_CardinalityType
<1>3. lost' = {} /\ Cardinality(Refused') + Thr <= Cardinality(Nodes)
  BY DEF Calm
<1>4. Thr \in Nat /\ Cardinality(Nodes) \in Nat
  BY SignAssumption, FS_CardinalityType DEF SignAssumption
<1>5. Cardinality(Refused) + Thr <= Cardinality(Nodes)
  BY <1>2, <1>3, <1>4
<1> QED
  BY <1>1, <1>3, <1>5 DEF Calm

\* What the timers' order keeps: a timer is set after those of all others.
LEMMA TimersKept ==
  ASSUME NEW n \in Nodes, "timeout" \notin Faults, SetTimer(n) \/ timers' = Stopped(n)
  PROVE  /\ \A a, b \in Nodes \ {n} : <<a, b>> \in timers => <<a, b>> \in timers'
         /\ SetTimer(n) =>
              \A a \in Nodes \ {n} : ctx[a] = "active" => <<a, n>> \in timers'
BY DEF SetTimer, Stopped

-----------------------------------------------------------------------------
(* How the steps end in that case.                                         *)

\* The numbers of SetWaiting, step by step.
LEMMA StepNumbers ==
  ASSUME NEW n \in Nodes
  PROVE  /\ Waiting(n, Req) = IF n = Leader THEN Thr ELSE 0
         /\ Waiting(n, Ready) = IF n = Leader THEN 0 ELSE 1
         /\ Waiting(n, Share) = Cardinality(Nodes)
         /\ Waiting(n, RStep) = Thr /\ Waiting(n, SStep) = Thr /\ Waiting(n, AckRS) = Thr
         /\ n # Leader => Senders(n, Ready) = {Leader}
         /\ \A s \in {Share, RStep, SStep, AckRS} : Senders(n, s) = Nodes
BY DEF Waiting, Senders, Req, Ready, Share, RStep, SStep, AckRS

\* All that was sent arrives.
LEMMA AllArrive ==
  ASSUME Calm, NEW n \in Nodes, NEW s
  PROVE  Arriving(n, s) = {m \in Senders(n, s) : Sent(m, s)}
BY DEF Calm, Arriving

\* GetMpcReadyStep ends when the leader is ready: as long as it is not, it has the
\* earlier timer.
LEMMA EndOfReady ==
  ASSUME IInv, NoErr, ReadyInv, "timeout" \notin Faults,
         NEW n \in Nodes \ {Leader}, NEW D, StepOver(n, Ready, D)
  PROVE  at[Leader] >= Ready
<1> USE SignAssumption DEF SignAssumption
<1>c. Control /\ CtxInv
  BY TypeControl DEF IInv
<1>1. Senders(n, Ready) = {Leader} /\ Waiting(n, Ready) = 1
  BY StepNumbers
<1>2. CASE Complete(n, Ready, D)
  <2>1. D # {}
    BY <1>1, <1>2, FS_EmptySet DEF Complete
  <2> QED
    BY <1>1, <2>1, ZenonT(60) DEF StepOver, Arriving, Sent
<1>3. CASE TimeOut(n, Ready, D)
  <2>1. <<Leader, n>> \notin timers
    BY <1>3 DEF TimeOut
  <2>2. ~(ctx[Leader] = "active" /\ at[Leader] = Req)
    BY <2>1 DEF ReadyInv, StepOver
  <2>3. ctx[Leader] = "done" => at[Leader] = AckRS
    BY <1>c DEF CtxInv, NoErr, IInv, OkInv, Control
  <2> QED
    BY <2>2, <2>3, <1>c DEF CtxInv, Control, Req, Ready, AckRS
<1> QED
  BY <1>2, <1>3 DEF StepOver

\* A node that has ended has ended in MpcAckRSStep.
LEMMA EndedInAck ==
  ASSUME IInv, NoErr, NEW m \in Nodes, ctx[m] = "done"
  PROVE  at[m] = AckRS
<1>1. Control /\ CtxInv /\ OkInv
  BY TypeControl DEF IInv
<1> QED
  BY <1>1 DEF Control, CtxInv, OkInv, NoErr

\* When a timer ends MpcRSKShare_Step, all who take part are in this step or past
\* it: nothing else moves, and nobody waits in RequestMpcStep or MpcReadyStep.
LEMMA QuietInShare ==
  ASSUME IInv, Calm, NoErr, ReadyInv, Quiet, NEW n \in Nodes, at[n] = Share,
         NEW m \in Part
  PROVE  at[m] >= Share
<1>c. Control
  BY TypeControl DEF IInv
<1>1. m \in Nodes /\ at[Leader] >= Ready /\ at[m] \in 0..5
  BY <1>c DEF ReadyInv, Part, Share, Control
<1>2. CASE ctx[m] = "done"
  BY <1>1, <1>2, EndedInAck DEF AckRS, Share
<1>3. CASE ctx[m] = "active"
  <2>1. Cardinality(Arriving(m, at[m])) < Waiting(m, at[m])
    BY <1>1, <1>3 DEF Quiet
  <2>2. Cardinality(Arriving(m, at[m])) \in Nat
    <3>1. Arriving(m, at[m]) \in SUBSET Nodes
      BY SignAssumption DEF SignAssumption, Arriving, Senders
    <3> QED
      BY <3>1, SignAssumption, FS_Subset, FS_CardinalityType DEF SignAssumption
  <2>3. ASSUME at[m] = Req PROVE FALSE
    <3>1. m # Leader
      BY <2>3, <1>1 DEF Req, Ready
    <3> QED
      BY <1>1, <2>1, <2>2, <2>3, <3>1, StepNumbers
  <2>4. ASSUME at[m] = Ready PROVE FALSE
    <3>1. CASE m = Leader
      BY <1>1, <2>1, <2>2, <2>4, <3>1, StepNumbers
    <3>2. CASE m # Leader
      <4>1. Senders(m, Ready) = {Leader} /\ Waiting(m, Ready) = 1
        BY <1>1, <3>2, StepNumbers
      <4>2. Sent(Leader, Ready)
        BY <1>1 DEF Sent, IInv, CtxInv
      <4>3. Arriving(m, Ready) = {Leader}
        BY <1>1, <4>1, <4>2, AllArrive
      <4> QED
        BY <2>1, <2>4, <4>1, <4>3, FS_Singleton
    <3> QED
      BY <3>1, <3>2
  <2> QED
    BY <1>1, <2>3, <2>4 DEF Req, Ready, Share
<1> QED
  BY <1>2, <1>3 DEF Part

\* MpcRSKShare_Step ends with the polynomials of all who take part.
LEMMA EndOfShare ==
  ASSUME IInv, Calm, NoErr, ReadyInv, "timeout" \notin Faults,
         NEW n \in Nodes, NEW D, StepOver(n, Share, D)
  PROVE  requests = {} /\ D = Part /\ \A m \in Part : at[m] >= Share
<1>1. Arriving(n, Share) = {m \in Nodes : Sent(m, Share)}
  BY AllArrive, StepNumbers
<1>2. at[n] = Share /\ D \subseteq Arriving(n, Share)
  BY DEF StepOver
<1>3. CASE Complete(n, Share, D)
  <2>1. D \in SUBSET Nodes /\ Cardinality(D) = Cardinality(Nodes)
    BY <1>1, <1>2, <1>3, StepNumbers DEF Complete
  <2>2. D = Nodes
    BY <2>1, SignAssumption, FS_Subset DEF SignAssumption
  <2>3. \A m \in Nodes : ctx[m] \in {"active", "done"} /\ at[m] >= Share
    BY <1>1, <1>2, <2>2 DEF Sent
  <2>4. requests = {}
    BY <2>3, TypeControl DEF IInv, RequestInv, Control
  <2> QED
    BY <2>2, <2>3, <2>4 DEF Part
<1>4. CASE TimeOut(n, Share, D)
  <2>1. Quiet /\ D = Arriving(n, Share)
    BY <1>4 DEF TimeOut
  <2>2. \A m \in Part : at[m] >= Share
    BY <1>2, <2>1, QuietInShare
  <2>3. D = Part
    BY <1>1, <2>1, <2>2 DEF Part, Sent
  <2> QED
    BY <2>1, <2>2, <2>3 DEF Quiet
<1> QED
  BY <1>3, <1>4 DEF StepOver

\* Once all requests are answered, a threshold takes part.
LEMMA EnoughTakePart ==
  ASSUME IInv, Calm, requests = {}
  PROVE  /\ Part \in SUBSET Nodes /\ IsFiniteSet(Part)
         /\ Cardinality(Part) \in Nat /\ Thr \in Nat /\ Cardinality(Part) >= Thr
<1> DEFINE Refused == {n \in Nodes : ctx[n] = "refused"}
<1> USE SignAssumption DEF SignAssumption
<1>1. Part = Nodes \ Refused /\ Nodes \cap Refused = Refused
  <2>1. \A n \in Nodes : ctx[n] \in {"none", "active", "done", "refused"} /\ ctx[n] # "none"
    BY TypeControl DEF IInv, Control, CtxInv
  <2> QED
    BY ZenonT(60), <2>1 DEF Part
<1>2. IsFiniteSet(Part) /\ Cardinality(Part) = Cardinality(Nodes) - Cardinality(Refused)
  <2> HIDE DEF Refused
  <2>1. /\ IsFiniteSet(Nodes \ Refused)
        /\ Cardinality(Nodes \ Refused) = Cardinality(Nodes) - Cardinality(Nodes \cap Refused)
    BY ZenonT(60), FS_Difference
  <2> QED
    BY ZenonT(60), <1>1, <2>1
<1>3. Cardinality(Part) \in Nat /\ Cardinality(Nodes) \in Nat /\ Cardinality(Refused) \in Nat
  BY <1>2, FS_Subset, FS_CardinalityType
<1>4. Cardinality(Refused) + Thr <= Cardinality(Nodes)
  BY DEF Calm
<1> QED
  BY <1>1, <1>2, <1>3, <1>4

\* A node that waits in vain in a later step has its timer after that of a node
\* that is not yet so far: ErrTooLessDataCollected does not happen.
LEMMA EndOfRS ==
  ASSUME IInv, Calm, NoErr, ShareInv, ValueInv, "timeout" \notin Faults,
         NEW n \in Nodes, NEW s \in {RStep, SStep}, NEW D, StepOver(n, s, D)
  PROVE  Cardinality(D) = Thr
<1> USE SignAssumption DEF SignAssumption
<1>c. Control
  BY TypeControl DEF IInv
<1>1. CASE Complete(n, s, D)
  BY <1>1, StepNumbers DEF Complete
<1>2. ASSUME TimeOut(n, s, D) PROVE FALSE
  <2>1. /\ Quiet /\ D = Arriving(n, s) /\ Cardinality(D) < Thr
        /\ \A m \in Nodes : <<m, n>> \notin timers
    BY <1>2, StepNumbers DEF TimeOut
  <2>2. ctx[n] = "active" /\ at[n] = s /\ at[n] > Share
    BY DEF StepOver, RStep, SStep, Share
  <2>3. D = {m \in Nodes : Sent(m, s)}
    BY <2>1, AllArrive, StepNumbers
  <2>4. requests = {} /\ \A m \in Part : at[m] >= Share
    BY <2>2 DEF ShareInv
  <2>5. PICK m \in Part : ~Sent(m, s)
    <3>1. SUFFICES ASSUME Part \subseteq D PROVE FALSE
      BY <2>3 DEF Part
    <3>2. IsFiniteSet(D) /\ Cardinality(D) \in Nat
      BY <2>3, FS_Subset, FS_CardinalityType
    <3>3. Cardinality(Part) <= Cardinality(D)
      BY <3>1, <3>2, FS_Subset
    <3> QED
      BY <2>1, <2>4, <3>2, <3>3, EnoughTakePart
  <2>6. m \in Nodes /\ at[m] >= Share /\ at[m] < s /\ at[m] \in 0..5
    BY <1>c, <2>4, <2>5 DEF Part, Sent, Control, RStep, SStep
  <2>7. ctx[m] = "active"
    <3>1. ctx[m] # "done"
      BY <2>6, EndedInAck DEF AckRS, RStep, SStep
    <3> QED
      BY <3>1 DEF Part
  <2>8. at[m] # Share
    BY <2>1, <2>2, <2>6, <2>7, ZenonT(60) DEF ShareInv
  <2>9. at[m] = RStep /\ at[n] > RStep
    BY <2>2, <2>6, <2>8 DEF Share, RStep, SStep
  <2>10. PICK E \in SUBSET Nodes : Cardinality(E) = Thr /\ \A k \in E : Sent(k, RStep)
    BY <2>9 DEF ValueInv
  <2>11. E \in SUBSET Arriving(m, RStep) /\ Arriving(m, RStep) \in SUBSET Nodes
    BY <2>6, <2>10, AllArrive, StepNumbers
  <2>12. /\ Thr <= Cardinality(Arriving(m, RStep))
         /\ Cardinality(Arriving(m, RStep)) \in Nat
    BY <2>10, <2>11, FS_Subset, FS_CardinalityType
  <2>13. Cardinality(Arriving(m, RStep)) < Thr
    BY <2>1, <2>6, <2>7, <2>9, StepNumbers DEF Quiet
  <2> QED
    BY <2>12, <2>13
<1> QED
  BY <1>1, <1>2 DEF StepOver

-----------------------------------------------------------------------------
(* Every step preserves it.                                                *)

Strong == NoErr /\ ReadyInv /\ ShareInv /\ ValueInv

\* The end of its step gives n what the others have.
Gives(n) ==
  /\ at[n] = Ready /\ n # Leader => at[Leader] >= Ready
  /\ at[n] = Share => requests = {} /\ share'[n] = Part /\ \A m \in Part : at[m] >= Share
  /\ at[n] = RStep =>
       /\ rpk'[n] = Same(Part)
       /\ \E D \in SUBSET Nodes : Cardinality(D) = Thr /\ \A m \in D : Sent(m, RStep)
  /\ at[n] = SStep => sig'[n] = [nonce |-> Same(Part), hash |-> Same(Same(Part))]

\* A step of mainMPCProcess that leads to the next one keeps the invariant.
LEMMA CalmNextStep ==
  ASSUME IInv, Strong, "timeout" \notin Faults, \A m \in Nodes : Settled(m),
         NEW n \in Nodes, ctx[n] = "active", NextStep(n), Gives(n), at'[n] \in 0..5
  PROVE  Strong'
<1>l. Leader \in Nodes
  BY SignAssumption DEF SignAssumption
<1>c. Control
  BY TypeControl DEF IInv
<1>1. /\ ctx' = ctx /\ at' = [at EXCEPT ![n] = at[n] + 1] /\ SetTimer(n)
      /\ requests' = requests /\ errors' = errors /\ result' = result
  BY DEF NextStep
<1>2. Part' = Part /\ Same(Part)' = Same(Part) /\ Same(Same(Part))' = Same(Same(Part))
  BY <1>1 DEF Part, Same
<1>4. \A m \in Nodes : at'[m] = IF m = n THEN at[m] + 1 ELSE at[m]
  BY <1>c, <1>1 DEF Control
<1>3. \A m \in Nodes : at[m] \in 0..5 /\ at'[m] \in 0..5 /\ at'[m] >= at[m]
  BY <1>c, <1>4 DEF Control
<1>5. /\ \A a, b \in Nodes \ {n} : <<a, b>> \in timers => <<a, b>> \in timers'
      /\ \A a \in Nodes \ {n} : ctx[a] = "active" => <<a, n>> \in timers'
  BY <1>1, TimersKept
<1>6. NoErr'
  BY <1>1 DEF Strong, NoErr
<1>7. ReadyInv'
  <2>1. \A k \in Nodes : at'[k] >= Share => at'[Leader] >= Ready
    BY <1>l, <1>3, <1>4 DEF Strong, ReadyInv, Gives, Share, Ready
  <2>2. \A k \in Nodes \ {Leader} :
          ctx'[k] = "active" /\ ctx'[Leader] = "active" /\ at'[Leader] = Req
          => <<Leader, k>> \in timers'
    <3> SUFFICES ASSUME NEW k \in Nodes \ {Leader}, ctx'[k] = "active",
                        ctx'[Leader] = "active", at'[Leader] = Req
                 PROVE  <<Leader, k>> \in timers'
      OBVIOUS
    <3>1. Leader # n /\ at[Leader] = Req
      BY <1>l, <1>3, <1>4 DEF Req
    <3> QED
      BY <1>l, <1>1, <1>5, <3>1 DEF Strong, ReadyInv
  <2> QED
    BY <2>1, <2>2 DEF ReadyInv
<1>8. ShareInv'
  <2>1. \A k \in Nodes : at'[k] > Share =>
          requests' = {} /\ share'[k] = Part /\ \A m \in Part : at'[m] >= Share
    <3> SUFFICES ASSUME NEW k \in Nodes, at'[k] > Share
                 PROVE  requests' = {} /\ share'[k] = Part /\ \A m \in Part : at'[m] >= Share
      OBVIOUS
    <3>1. requests = {} /\ share'[k] = Part /\ \A m \in Part : at[m] >= Share
      <4>1. CASE at[k] > Share
        BY <4>1 DEF Strong, ShareInv, Settled
      <4>2. CASE ~(at[k] > Share)
        <5>1. k = n /\ at[n] = Share
          BY <4>2, <1>3, <1>4 DEF Share
        <5> QED
          BY <5>1 DEF Gives
      <4> QED
        BY <4>1, <4>2
    <3> QED
      BY <3>1, <1>1, <1>3 DEF Part, Share
  <2>2. \A k, m \in Nodes :
          ctx'[k] = "active" /\ ctx'[m] = "active" /\ at'[k] > Share /\ at'[m] = Share
          => <<m, k>> \in timers'
    <3> SUFFICES ASSUME NEW k \in Nodes, NEW m \in Nodes, ctx'[k] = "active",
                        ctx'[m] = "active", at'[k] > Share, at'[m] = Share
                 PROVE  <<m, k>> \in timers'
      OBVIOUS
    <3>1. CASE k = n
      BY <3>1, <1>1, <1>5 DEF Share
    <3>2. CASE k # n
      <4>1. at[k] > Share /\ m \in Part
        BY <3>2, <1>1, <1>4 DEF Part
      <4>2. at[m] >= Share
        BY <4>1 DEF Strong, ShareInv
      <4>3. m # n /\ at[m] = Share
        BY <4>2, <1>3, <1>4 DEF Share
      <4> QED
        BY <3>2, <4>1, <4>3, <1>1, <1>5 DEF Strong, ShareInv
    <3> QED
      BY <3>1, <3>2
  <2> QED
    BY <2>1, <2>2, <1>2 DEF ShareInv
<1>9. ValueInv'
  <2>1. ASSUME NEW k \in Nodes, at'[k] > RStep
        PROVE  /\ rpk'[k] = Same(Part)
               /\ \E D \in SUBSET Nodes : Cardinality(D) = Thr /\ \A m \in D : Sent(m, RStep)'
    <3>1. /\ rpk'[k] = Same(Part)
          /\ \E D \in SUBSET Nodes : Cardinality(D) = Thr /\ \A m \in D : Sent(m, RStep)
      <4>1. CASE at[k] > RStep
        BY <4>1 DEF Strong, ValueInv, Settled
      <4>2. CASE ~(at[k] > RStep)
        <5>1. k = n /\ at[n] = RStep
          BY <4>2, <2>1, <1>3, <1>4 DEF RStep
        <5> QED
          BY <5>1 DEF Gives
      <4> QED
        BY <4>1, <4>2
    <3>2. \A m \in Nodes : Sent(m, RStep) => Sent(m, RStep)'
      BY <1>1, <1>3 DEF Sent, RStep
    <3> QED
      BY <3>1, <3>2
  <2>2. ASSUME NEW k \in Nodes, at'[k] > SStep
        PROVE  sig'[k] = [nonce |-> Same(Part), hash |-> Same(Same(Part))]
    <3>1. CASE at[k] > SStep
      BY <3>1 DEF Strong, ValueInv, Settled
    <3>2. CASE ~(at[k] > SStep)
      <4>1. k = n /\ at[n] = SStep
        BY <3>2, <2>2, <1>3, <1>4 DEF SStep
      <4> QED
        BY <4>1 DEF Gives
    <3> QED
      BY <3>1, <3>2
  <2> QED
    BY <2>1, <2>2, <1>2, ZenonT(60) DEF ValueInv
<1> QED
  BY <1>6, <1>7, <1>8, <1>9 DEF Strong

\* The four kinds of steps that lead to the next one.
LEMMA CalmMain ==
  ASSUME IInv, Calm, Strong, "timeout" \notin Faults, \A m \in Nodes : Settled(m), Control',
         NEW n \in Nodes, NEW D \in SUBSET Nodes,
         FinishStart(n, D) \/ FinishShare(n, D) \/ FinishR(n, D) \/ FinishS(n, D)
  PROVE  Strong'
<1>c. Control
  BY TypeControl DEF IInv
<1>n. at'[n] \in 0..5
  BY DEF Control
<1> USE <1>c DEF Control
<1>1. CASE FinishStart(n, D)
  <2>1. ctx[n] = "active" /\ at[n] \in {Req, Ready} /\ NextStep(n)
        /\ share' = share /\ rpk' = rpk /\ sig' = sig
    BY <1>1 DEF FinishStart, StepOver, values
  <2>2. at[n] = Ready /\ n # Leader => at[Leader] >= Ready
    <3>1. at[n] = Ready => StepOver(n, Ready, D)
      BY <1>1 DEF FinishStart, StepOver, Req, Ready
    <3> QED
      BY <3>1, EndOfReady DEF Strong
  <2>3. at[n] # Share /\ at[n] # RStep /\ at[n] # SStep
    BY <2>1 DEF Req, Ready, Share, RStep, SStep
  <2>g. Gives(n)
    BY <2>2, <2>3 DEF Gives
  <2> QED
    BY <1>n, <2>1, <2>g, CalmNextStep
<1>2. CASE FinishShare(n, D)
  <2>1. StepOver(n, Share, D) /\ NextStep(n) /\ ctx[n] = "active" /\ at[n] = Share
        /\ share' = [share EXCEPT ![n] = D] /\ rpk' = rpk /\ sig' = sig
    BY <1>2 DEF FinishShare, StepOver
  <2>2. requests = {} /\ share'[n] = Part /\ \A m \in Part : at[m] >= Share
    BY <2>1, EndOfShare DEF Strong
  <2>3. at[n] # Ready /\ at[n] # RStep /\ at[n] # SStep
    BY <2>1 DEF Req, Ready, Share, RStep, SStep
  <2>g. Gives(n)
    BY <2>2, <2>3 DEF Gives
  <2> QED
    BY <1>n, <2>1, <2>g, CalmNextStep
<1>3. CASE FinishR(n, D)
  <2>1. /\ StepOver(n, RStep, D) /\ NextStep(n) /\ ctx[n] = "active" /\ at[n] = RStep
        /\ share' = share /\ sig' = sig /\ Cardinality(D) = Thr
        /\ rpk' = [rpk EXCEPT ![n] = Lagrange(share, D)]
    BY <1>3 DEF FinishR, StepOver
  <2>2. \A m \in D : Sent(m, RStep)
    BY ZenonT(60), <2>1 DEF StepOver, Arriving
  <2>3. \A m \in D : share[m] = Part
    BY <2>2 DEF Sent, Strong, ShareInv, RStep, Share
  <2>4. rpk'[n] = Same(Part)
    BY <2>1, <2>3, ThrNotEmpty, LagrangeSame
  <2>5. at[n] # Ready /\ at[n] # Share /\ at[n] # SStep
    BY <2>1 DEF Req, Ready, Share, RStep, SStep
  <2>g. Gives(n)
    BY <2>1, <2>2, <2>4, <2>5 DEF Gives
  <2> QED
    BY <1>n, <2>1, <2>g, CalmNextStep
<1>4. CASE FinishS(n, D)
  <2>1. /\ StepOver(n, SStep, D) /\ NextStep(n) /\ ctx[n] = "active" /\ at[n] = SStep
        /\ share' = share /\ rpk' = rpk /\ sig' = [sig EXCEPT ![n] = SValue(D)]
    BY <1>4 DEF FinishS, StepOver
  <2>2. D # {} /\ \A m \in D : share[m] = Part /\ rpk[m] = Same(Part)
    BY <1>4, SMap DEF Sent, Strong, ShareInv, ValueInv, SStep, RStep, Share
  <2>3. Lagrange(share, D) = Same(Part) /\ Lagrange(rpk, D) = Same(Same(Part))
    BY <2>2, LagrangeSame
  <2>4. sig'[n] = [nonce |-> Same(Part), hash |-> Same(Same(Part))]
    BY <2>1, <2>3 DEF SValue
  <2>5. at[n] # Ready /\ at[n] # Share /\ at[n] # RStep
    BY <2>1 DEF Req, Ready, Share, RStep, SStep
  <2>g. Gives(n)
    BY <2>4, <2>5 DEF Gives
  <2> QED
    BY <1>n, <2>1, <2>g, CalmNextStep
<1> QED
  BY <1>1, <1>2, <1>3, <1>4

\* What all steps that make nothing and end no context with an error have in common.
Kept == /\ at' = at /\ share' = share /\ rpk' = rpk /\ sig' = sig
        /\ errors' = {} /\ requests' \subseteq requests
        /\ \A m \in Nodes : result'[m] # "err"
TimersStay(n, c) ==
  /\ \A a, b \in Nodes \ {n} : <<a, b>> \in timers => <<a, b>> \in timers'
  /\ c = "active" => \A a \in Nodes \ {n} : ctx[a] = "active" => <<a, n>> \in timers'

\* Such a step, in which the context of n begins, is refused or ends, keeps the
\* invariant.
LEMMA CalmKept ==
  ASSUME IInv, Strong, NEW n \in Nodes, NEW c \in {"active", "done", "refused"},
         ctx' = [ctx EXCEPT ![n] = c], Kept, TimersStay(n, c),
         (ctx[n] = "active" /\ c = "done") \/ n \in requests
  PROVE  Strong'
<1>l. Leader \in Nodes
  BY SignAssumption DEF SignAssumption
<1>c. Control /\ RequestInv /\ CtxInv
  BY TypeControl DEF IInv
<1>k. at' = at /\ share' = share /\ rpk' = rpk /\ sig' = sig /\ requests' \subseteq requests
  BY DEF Kept
<1>1. \A m \in Nodes \ {n} : ctx'[m] = ctx[m]
  BY <1>c DEF Control
<1>2. ctx'[n] = c
  BY <1>c DEF Control
<1>3. NoErr'
  BY DEF NoErr, Kept
<1>4. ReadyInv'
  BY <1>l, <1>k, <1>1, <1>2, <1>c DEF Strong, ReadyInv, CtxInv, RequestInv, TimersStay
<1>5. CASE n \in requests
  <2>1. \A k \in Nodes : ~(at[k] > Share) /\ ~(at[k] > RStep) /\ ~(at[k] > SStep)
    BY <1>5, <1>c DEF Strong, ShareInv, Control, Share, RStep, SStep
  <2>2. ShareInv' /\ ValueInv'
    BY <1>k, <2>1 DEF ShareInv, ValueInv
  <2> QED
    BY <1>3, <1>4, <2>2 DEF Strong
<1>6. CASE ctx[n] = "active" /\ c = "done"
  <2>1. Part' = Part /\ Same(Part)' = Same(Part) /\ Same(Same(Part))' = Same(Same(Part))
    <3>1. Part' = Part
      BY <1>1, <1>2, <1>6 DEF Part
    <3> QED
      BY <3>1 DEF Same
  <2>2. \A m \in Nodes : Sent(m, RStep)' <=> Sent(m, RStep)
    BY <1>k, <1>1, <1>2, <1>6 DEF Sent
  <2>3. ShareInv'
    <3>1. \A k \in Nodes : at'[k] > Share =>
            requests' = {} /\ share'[k] = Part /\ \A m \in Part : at'[m] >= Share
      BY <1>k DEF Strong, ShareInv
    <3>2. \A k, m \in Nodes :
            ctx'[k] = "active" /\ ctx'[m] = "active" /\ at'[k] > Share /\ at'[m] = Share
            => <<m, k>> \in timers'
      BY <1>k, <1>1, <1>2, <1>6 DEF Strong, ShareInv, TimersStay
    <3> QED
      BY <2>1, <3>1, <3>2 DEF ShareInv
  <2>4. ValueInv'
    <3>1. \A k \in Nodes : at'[k] > RStep =>
            /\ rpk'[k] = Same(Part)
            /\ \E D \in SUBSET Nodes : Cardinality(D) = Thr /\ \A m \in D : Sent(m, RStep)'
      BY <1>k, <2>2 DEF Strong, ValueInv
    <3>2. \A k \in Nodes : at'[k] > SStep =>
            sig'[k] = [nonce |-> Same(Part), hash |-> Same(Same(Part))]
      BY <1>k DEF Strong, ValueInv
    <3> QED
      BY <2>1, <3>1, <3>2, ZenonT(60) DEF ValueInv
  <2> QED
    BY <1>3, <1>4, <2>3, <2>4 DEF Strong
<1> QED
  BY <1>5, <1>6

\* MpcAckRSStep finds no other R and s than its own, and they verify.
LEMMA CalmAck ==
  ASSUME IInv, Strong, NEW n \in Nodes, NEW D \in SUBSET Nodes, FinishAckRS(n, D)
  PROVE  ctx[n] = "active" /\ Return(n, "ok")
<1>1. ctx[n] = "active" /\ at[n] = AckRS /\ D \subseteq Arriving(n, AckRS)
  BY DEF FinishAckRS, StepOver
<1>2. \A m \in D \cup {n} : at[m] >= AckRS /\ at[m] \in 0..5
  <2>1. \A m \in D : at[m] >= AckRS
    BY ZenonT(60), <1>1 DEF Arriving, Sent
  <2>2. \A m \in Nodes : at[m] \in 0..5
    BY TypeControl DEF IInv, Control
  <2> QED
    BY <1>1, <2>1, <2>2 DEF AckRS
<1>3. \A m \in D \cup {n} :
        rpk[m] = Same(Part) /\ sig[m] = [nonce |-> Same(Part), hash |-> Same(Same(Part))]
  BY <1>2 DEF Strong, ValueInv, AckRS, RStep, SStep
<1>4. Verified(n)
  BY <1>3 DEF Verified, Same
<1>5. \A m \in D : rpk[m] = rpk[n] /\ sig[m] = sig[n]
  BY ZenonT(60), <1>3
<1> QED
  BY <1>1, <1>4, <1>5 DEF FinishAckRS

\* Every step preserves the invariant of the calm case.
LEMMA CalmStep ==
  ASSUME "timeout" \notin Faults, IInv, Control', CalmInv, [Next]_vars
  PROVE  CalmInv'
<1> SUFFICES ASSUME Calm' PROVE Strong'
  BY DEF CalmInv, Strong
<1>c. Control /\ RequestInv /\ CtxInv
  BY TypeControl DEF IInv
<1>1. Calm /\ Strong
  BY <1>c, CalmBefore DEF CalmInv, Strong
<1>2. \A m \in Nodes : Settled(m)
  BY <1>c, StepSettles
<1>3. ASSUME NEW n \in Nodes, NEW D \in SUBSET Nodes,
             FinishStart(n, D) \/ FinishShare(n, D) \/ FinishR(n, D) \/ FinishS(n, D)
      PROVE  Strong'
  BY <1>1, <1>2, <1>3, CalmMain
<1>4. ASSUME NEW n \in Nodes, NEW D \in SUBSET Nodes, FinishTooLess(n, D) PROVE FALSE
  <2>1. \E s \in {RStep, SStep} : StepOver(n, s, D)
    BY <1>4 DEF FinishTooLess
  <2>2. Cardinality(D) = Thr
    BY <1>1, <2>1, EndOfRS DEF Strong
  <2> QED
    BY <1>4, <2>2, SignAssumption DEF FinishTooLess, SignAssumption
<1>5. ASSUME NEW n \in Nodes, NEW D \in SUBSET Nodes, FinishAckRS(n, D) PROVE Strong'
  <2>1. ctx[n] = "active" /\ Return(n, "ok")
    BY <1>1, <1>5, CalmAck
  <2>2. /\ ctx' = [ctx EXCEPT ![n] = "done"] /\ result' = [result EXCEPT ![n] = "ok"]
        /\ errors' = {} /\ at' = at /\ share' = share /\ rpk' = rpk /\ sig' = sig
        /\ requests' = requests /\ timers' = Stopped(n)
    BY <1>1, <2>1 DEF Return, values, Strong, NoErr
  <2>3. \A m \in Nodes : result'[m] # "err"
    BY <1>1, <1>c, <2>2 DEF Strong, NoErr, Control
  <2>4. \A a, b \in Nodes \ {n} : <<a, b>> \in timers => <<a, b>> \in timers'
    BY <2>2, TimersKept
  <2>5. Kept /\ TimersStay(n, "done")
    BY <2>2, <2>3, <2>4 DEF Kept, TimersStay
  <2> QED
    BY <1>1, <2>1, <2>2, <2>5, CalmKept, ZenonT(60)
<1>6. ASSUME NEW n \in Nodes, QuitMpcContext(n) PROVE FALSE
  BY <1>1, <1>6 DEF QuitMpcContext, Strong, NoErr
<1>7. ASSUME NEW n \in Nodes, CreateMpcCtx(n) PROVE Strong'
  <2>1. /\ n \in requests /\ ctx' = [ctx EXCEPT ![n] = "active"] /\ result' = result
        /\ errors' = {} /\ at' = at /\ share' = share /\ rpk' = rpk /\ sig' = sig
        /\ requests' \subseteq requests /\ SetTimer(n)
    BY <1>1, <1>7 DEF CreateMpcCtx, values, Strong, NoErr
  <2>2. /\ \A a, b \in Nodes \ {n} : <<a, b>> \in timers => <<a, b>> \in timers'
        /\ \A a \in Nodes \ {n} : ctx[a] = "active" => <<a, n>> \in timers'
    BY <2>1, TimersKept
  <2>3. \A m \in Nodes : result'[m] # "err"
    BY <1>1, <2>1 DEF Strong, NoErr
  <2>4. Kept /\ TimersStay(n, "active")
    BY <2>1, <2>2, <2>3 DEF Kept, TimersStay
  <2> QED
    BY <1>1, <2>1, <2>4, CalmKept, ZenonT(60)
<1>8. ASSUME NEW n \in Nodes, RefuseMpcCtx(n) PROVE Strong'
  <2>1. /\ n \in requests /\ ctx' = [ctx EXCEPT ![n] = "refused"] /\ result' = result
        /\ errors' = {} /\ at' = at /\ share' = share /\ rpk' = rpk /\ sig' = sig
        /\ requests' \subseteq requests /\ timers' = timers
    BY <1>1, <1>8 DEF RefuseMpcCtx, values, Strong, NoErr
  <2>2. \A m \in Nodes : result'[m] # "err"
    BY <1>1, <2>1 DEF Strong, NoErr
  <2>3. Kept /\ TimersStay(n, "refused")
    BY <2>1, <2>2 DEF Kept, TimersStay
  <2> QED
    BY <1>1, <2>1, <2>3, CalmKept, ZenonT(60)
<1>9. CASE UNCHANGED vars
  <2>1. NoErr' /\ ReadyInv'
    BY <1>1, <1>9 DEF vars, Strong, NoErr, ReadyInv
  <2>2. ShareInv'
    BY ZenonT(60), <1>1, <1>9 DEF vars, Strong, ShareInv, Part
  <2>3. ValueInv'
    <3>1. at' = at /\ rpk' = rpk /\ sig' = sig /\ ctx' = ctx
      BY <1>9 DEF vars
    <3>2. Same(Part)' = Same(Part) /\ Same(Same(Part))' = Same(Same(Part))
      BY <3>1 DEF Same, Part
    <3>3. \A m \in Nodes : Sent(m, RStep)' <=> Sent(m, RStep)
      BY <3>1 DEF Sent
    <3>4. ValueInv
      BY <1>1 DEF Strong
    <3> QED
      BY ZenonT(60), <3>1, <3>2, <3>3, <3>4 DEF ValueInv
  <2> QED
    BY <2>1, <2>2, <2>3 DEF Strong
<1> QED
  BY ZenonT(60), <1>3, <1>4, <1>5, <1>6, <1>7, <1>8, <1>9 DEF Next, Main, Terminated

\* When timers fire in the order in which they were set and nobody gets a message
\* before it has a context, signing fails for nobody as long as the nodes that
\* refuse leave Thr others: all who take part sum the same polynomials.
THEOREM RefusalsDoNoHarm ==
  ASSUME "timeout" \notin Faults
  PROVE  Spec => []SignedDespiteRefusals
<1>1. Init => CalmInv
  <2> SUFFICES ASSUME Init PROVE Strong
    BY DEF CalmInv, Strong
  <2> USE SignAssumption DEF SignAssumption, Init, Req, Ready, Share, RStep, SStep
  <2>1. NoErr /\ ReadyInv
    BY DEF NoErr, ReadyInv
  <2>2. ShareInv /\ ValueInv
    BY DEF ShareInv, ValueInv
  <2> QED
    BY <2>1, <2>2 DEF Strong
<1>2. IInv /\ TypeOK' /\ CalmInv /\ [Next]_vars => CalmInv'
  <2>1. TypeOK' => Control'
    BY DEF TypeOK, Control, Steps
  <2> QED
    BY <2>1, CalmStep
<1>3. CalmInv => SignedDespiteRefusals
  BY DEF CalmInv, Calm, NoErr, SignedDespiteRefusals
<1> QED
  BY Invariance, TypeCorrect, <1>1, <1>2, <1>3, PTL DEF Spec
=============================================================================
