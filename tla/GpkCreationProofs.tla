------------------------- MODULE GpkCreationProofs -------------------------
(***************************************************************************)
(* Proofs about GpkCreation for a group of any size, any threshold and any *)
(* mix of faults.                                                          *)
(***************************************************************************)
EXTENDS GpkCreation, FiniteSetTheorems, TLAPS

\* Time limits for every step below.
USE SMTT(60), ZenonT(60)

\* A message is collected only after it was sent, and only where it is needed.
GotInv ==
  \A n \in Nodes, s \in Steps :
    /\ got[n][s] \subseteq Needs(n, s)
    /\ \A m \in got[n][s] : Sent(m, s)

\* A step is over without an error only when it has everything it needs, which
\* is the case of every step a node has left.
FinishInv ==
  \A n \in Nodes, s \in Steps :
    finish[n][s] = "nil" \/ at[n] > s => got[n][s] = Needs(n, s)

\* A node without a context has sent nothing; the leader starts with one.
CtxInv ==
  /\ ctx[Leader] # "none"
  /\ \A n \in Nodes : ctx[n] = "none" => at[n] = Req /\ pc[n] = "init"

\* What a node knows after the steps that produce it.
KeyInv ==
  \A n \in Nodes :
    /\ at[n] > SkShare => share[n] = Nodes
    /\ at[n] > Gpk => store[n] = [m \in Nodes |-> Nodes]
    /\ at[n] <= Gpk => store[n] = NoKey

ResultInv ==
  \A n \in Nodes :
    /\ result[n] # "none" => ctx[n] = "done"
    /\ result[n] = "ok" => got[n][AckGpk] = Nodes

IInv == TypeOK /\ GotInv /\ FinishInv /\ CtxInv /\ KeyInv /\ ResultInv
        /\ NoEarlyDrop

-----------------------------------------------------------------------------
\* Updates of one entry of a table indexed by node and step.
LEMMA UpdateType ==
  ASSUME NEW A, NEW B, NEW S, NEW f \in [A -> [B -> S]],
         NEW a \in A, NEW b \in B, NEW e \in S
  PROVE  [f EXCEPT ![a][b] = e] \in [A -> [B -> S]]
OBVIOUS

\* Storing a message of a peer keeps the message map and the channel of the step typed.
LEMMA CollectType ==
  ASSUME TypeOK, NEW n \in Nodes, NEW s \in Steps, NEW m \in Nodes,
         Collect(n, s, m)
  PROVE  /\ got' \in [Nodes -> [Steps -> SUBSET Nodes]]
         /\ finish' \in [Nodes -> [Steps -> {"none", "nil", "err"}]]
<1>1. got[n][s] \cup {m} \in SUBSET Nodes
  BY DEF TypeOK
<1>2. got' = [got EXCEPT ![n][s] = got[n][s] \cup {m}]
  BY DEF Collect
<1>3. PICK e \in {"none", "nil", "err"} : finish' = [finish EXCEPT ![n][s] = e]
  <2>1. finish[n][s] \in {"none", "nil", "err"}
    BY DEF TypeOK
  <2> QED
    BY ZenonT(60), <2>1 DEF Collect
<1>4. /\ got \in [Nodes -> [Steps -> SUBSET Nodes]]
      /\ finish \in [Nodes -> [Steps -> {"none", "nil", "err"}]]
  BY DEF TypeOK
<1>5. got' \in [Nodes -> [Steps -> SUBSET Nodes]]
  BY <1>1, <1>2, <1>4, UpdateType
<1> QED
  BY <1>3, <1>4, <1>5, UpdateType

\* The variables keep their types.
LEMMA TypeStep == TypeOK /\ [Next]_vars => TypeOK'
<1> SUFFICES ASSUME TypeOK, [Next]_vars PROVE TypeOK'
  OBVIOUS
<1> USE DEF Req, Ready, SkShare, Gpk, AckGpk
<1>a. Leader \in Nodes
  BY GpkAssumption DEF GpkAssumption
<1>1. ASSUME NEW n \in Nodes, InitStep(n) PROVE TypeOK'
  <2>1. requests' \in SUBSET Nodes
    BY <1>1 DEF InitStep, TypeOK
  <2>2. at[n] \in Steps
    BY DEF TypeOK
  <2>3. /\ got' \in [Nodes -> [Steps -> SUBSET Nodes]]
        /\ finish' \in [Nodes -> [Steps -> {"none", "nil", "err"}]]
    BY <1>1, <2>2, CollectType DEF InitStep, TypeOK
  <2> QED
    BY ZenonT(60), <1>1, <2>1, <2>3 DEF InitStep, TypeOK
<1>2. ASSUME NEW n \in Nodes, Return(n, "err") PROVE
        /\ ctx' \in [Nodes -> {"none", "active", "done", "down"}]
        /\ result' \in [Nodes -> {"none", "ok", "err"}]
        /\ errors' \in [Nodes -> SUBSET Nodes]
  BY <1>2 DEF Return, TypeOK
<1>3. ASSUME NEW n \in Nodes,
             InitStepFails(n) \/ FinishGpkFails(n) \/ FinishError(n)
      PROVE  TypeOK'
  BY <1>3, <1>2 DEF InitStepFails, FinishGpkFails, FinishError, TypeOK
<1>4. ASSUME NEW n \in Nodes, FinishStart(n) PROVE TypeOK'
  <2>1. at[n] \in Steps /\ at[n] <= 1 /\ at[n] + 1 \in Steps
    BY <1>4 DEF FinishStart, StepOver, TypeOK, Steps
  <2> QED
    BY <1>4, <2>1 DEF FinishStart, NextStep, TypeOK
<1>5. ASSUME NEW n \in Nodes, FinishSkShare(n) PROVE TypeOK'
  <2>1. at[n] + 1 \in Steps /\ SkShare \in Steps
    BY <1>5 DEF FinishSkShare, StepOver, TypeOK, Steps
  <2>2. share' \in [Nodes -> SUBSET Nodes]
    BY <1>5, <2>1 DEF FinishSkShare, TypeOK
  <2> QED
    BY <1>5, <2>1, <2>2 DEF FinishSkShare, NextStep, TypeOK
<1>6. ASSUME NEW n \in Nodes, FinishGpk(n) PROVE TypeOK'
  <2>1. at[n] + 1 \in Steps /\ Gpk \in Steps
    BY <1>6 DEF FinishGpk, StepOver, TypeOK, Steps
  <2>2. PICK D \in SUBSET got[n][Gpk] :
          /\ gpk' = [gpk EXCEPT ![n] = LagrangeECC(D)]
          /\ store' = [store EXCEPT ![n] = LagrangeECC(D)]
    BY ZenonT(60), <1>6 DEF FinishGpk
  <2>3. D \in SUBSET Nodes
    BY <2>1, <2>2 DEF TypeOK
  <2>4. LagrangeECC(D) \in Keys
    BY <2>3 DEF LagrangeECC, Keys, TypeOK
  <2> QED
    BY <1>6, <2>1, <2>2, <2>4 DEF FinishGpk, NextStep, TypeOK
<1>7. ASSUME NEW n \in Nodes, FinishAckGpk(n) PROVE TypeOK'
  <2>1. CASE Return(n, "ok")
    BY <1>7, <2>1 DEF FinishAckGpk, Return, TypeOK
  <2>2. CASE Return(n, "err")
    BY <1>7, <2>2, <1>2 DEF FinishAckGpk, TypeOK
  <2> QED
    BY <1>7, <2>1, <2>2 DEF FinishAckGpk
<1>8. ASSUME NEW n \in Nodes, CreateMpcCtx(n) PROVE TypeOK'
  BY <1>8 DEF CreateMpcCtx, TypeOK
<1>9. ASSUME NEW n \in Nodes, NEW m \in Nodes, NEW s \in Steps,
             GetMpcMessage(m, n, s)
      PROVE  TypeOK'
  <2>1. /\ got' \in [Nodes -> [Steps -> SUBSET Nodes]]
        /\ finish' \in [Nodes -> [Steps -> {"none", "nil", "err"}]]
    BY <1>9, CollectType DEF GetMpcMessage, TypeOK
  <2>2. lost' \in [Nodes -> [Steps -> SUBSET Nodes]]
    <3>1. lost[n][s] \cup {m} \in SUBSET Nodes
      BY DEF TypeOK
    <3>2. lost' = lost \/ lost' = [lost EXCEPT ![n][s] = lost[n][s] \cup {m}]
      BY <1>9 DEF GetMpcMessage
    <3>3. lost \in [Nodes -> [Steps -> SUBSET Nodes]]
      BY DEF TypeOK
    <3>4. [lost EXCEPT ![n][s] = lost[n][s] \cup {m}]
            \in [Nodes -> [Steps -> SUBSET Nodes]]
      BY <3>1, <3>3, UpdateType
    <3> QED
      BY <3>2, <3>3, <3>4, ZenonT(60)
  <2> QED
    BY <1>9, <2>1, <2>2 DEF GetMpcMessage, TypeOK
<1>10. ASSUME NEW n \in Nodes, NEW m \in Nodes, QuitMpcContext(m, n)
       PROVE  TypeOK'
  <2>1. finish' \in [Nodes -> [Steps -> {"none", "nil", "err"}]]
    BY <1>10 DEF QuitMpcContext, TypeOK
  <2> QED
    BY <1>10, <2>1 DEF QuitMpcContext, TypeOK
<1>11. ASSUME NEW n \in Nodes, Crash(n) PROVE TypeOK'
  BY <1>11 DEF Crash, TypeOK
<1>12. CASE UNCHANGED vars
  BY <1>12 DEF vars, TypeOK
<1> QED
  BY <1>1, <1>3, <1>4, <1>5, <1>6, <1>7, <1>8, <1>9, <1>10, <1>11, <1>12
  DEF Next, Main, Receive, Terminated

-----------------------------------------------------------------------------
\* The two ways a node moves: it sends the messages of its step, or it leaves a
\* step whose finish channel holds nil.
LEMMA MoveEffect ==
  ASSUME [Next]_vars
  PROVE  \/ UNCHANGED <<at, pc>>
         \/ \E n \in Nodes : /\ ctx[n] = "active" /\ pc[n] = "init"
                             /\ pc' = [pc EXCEPT ![n] = "finish"]
                             /\ at' = at
         \/ \E n \in Nodes : /\ ctx[n] = "active" /\ pc[n] = "finish"
                             /\ finish[n][at[n]] = "nil" /\ at[n] # AckGpk
                             /\ NextStep(n)
<1>1. ASSUME NEW n \in Nodes, InitStep(n)
      PROVE  /\ ctx[n] = "active" /\ pc[n] = "init"
             /\ pc' = [pc EXCEPT ![n] = "finish"]
             /\ at' = at
  BY <1>1 DEF InitStep
<1>2. ASSUME NEW n \in Nodes, FinishStart(n) \/ FinishSkShare(n) \/ FinishGpk(n)
      PROVE  /\ ctx[n] = "active" /\ pc[n] = "finish"
             /\ finish[n][at[n]] = "nil" /\ at[n] # AckGpk
             /\ NextStep(n)
  BY <1>2 DEF FinishStart, FinishSkShare, FinishGpk, StepOver, Req, Ready,
     SkShare, Gpk, AckGpk
<1> QED
  BY ZenonT(60), <1>1, <1>2 DEF Next, Main, Receive, Terminated, vars,
     InitStepFails, FinishGpkFails, FinishAckGpk, FinishError, CreateMpcCtx,
     GetMpcMessage, QuitMpcContext, Crash

\* What was sent stays sent.
LEMMA SentStays ==
  ASSUME TypeOK, [Next]_vars, NEW m \in Nodes, NEW s \in Steps, Sent(m, s)
  PROVE  Sent(m, s)'
<1>1. /\ at \in [Nodes -> 0..4] /\ pc \in [Nodes -> {"init", "finish"}]
      /\ s \in 0..4
  BY DEF TypeOK, Steps
<1> QED
  BY <1>1, MoveEffect DEF Sent, NextStep

\* The message maps and the finish channels only change when a message that is
\* needed and was sent is collected, or when quit puts errors on finish.
LEMMA CollectEffect ==
  ASSUME TypeOK, [Next]_vars
  PROVE  \/ UNCHANGED <<got, finish>>
         \/ \E n \in Nodes, s \in Steps, m \in Nodes :
              Collect(n, s, m) /\ m \in Needs(n, s) /\ Sent(m, s)'
         \/ got' = got /\ \E n \in Nodes : finish' =
              [finish EXCEPT ![n] =
                 [s \in Steps |-> IF @[s] = "none" THEN "err" ELSE @[s]]]
<1>1. ASSUME NEW n \in Nodes, InitStep(n)
      PROVE  \/ UNCHANGED <<got, finish>>
             \/ \E s \in Steps : /\ Collect(n, s, n) /\ n \in Needs(n, s)
                                 /\ Sent(n, s)'
  <2>1. at[n] \in Steps /\ pc'[n] = "finish" /\ at'[n] = at[n]
    BY <1>1 DEF InitStep, TypeOK
  <2>2. Sent(n, at[n])'
    BY <2>1 DEF Sent
  <2> QED
    BY <1>1, <2>1, <2>2 DEF InitStep
<1>2. ASSUME NEW n \in Nodes, NEW m \in Nodes, NEW s \in Steps,
             GetMpcMessage(m, n, s)
      PROVE  \/ UNCHANGED <<got, finish>>
             \/ Collect(n, s, m) /\ m \in Needs(n, s) /\ Sent(m, s)'
  <2>1. Sent(m, s)'
    BY <1>2 DEF GetMpcMessage, Sent
  <2> QED
    BY <1>2, <2>1 DEF GetMpcMessage
<1> QED
  BY ZenonT(60), <1>1, <1>2 DEF Next, Main, Receive, Terminated, vars, InitStepFails,
     FinishStart, FinishSkShare, FinishGpk, FinishGpkFails, FinishAckGpk,
     FinishError, CreateMpcCtx, QuitMpcContext, Crash

\* What a step has collected was sent to it and is needed by it.
LEMMA GotStep == TypeOK /\ GotInv /\ [Next]_vars => GotInv'
<1> SUFFICES ASSUME TypeOK, GotInv, [Next]_vars, NEW n \in Nodes, NEW s \in Steps
             PROVE  /\ got'[n][s] \subseteq Needs(n, s)
                    /\ \A m \in got'[n][s] : Sent(m, s)'
  BY DEF GotInv, Needs
<1>1. /\ got[n][s] \subseteq Nodes /\ got[n][s] \subseteq Needs(n, s)
      /\ \A m \in got[n][s] : Sent(m, s)'
  BY SentStays DEF GotInv, TypeOK
<1>2. CASE UNCHANGED got
  BY <1>1, <1>2
<1>3. ASSUME NEW k \in Nodes, NEW r \in Steps, NEW m \in Nodes,
             Collect(k, r, m), m \in Needs(k, r), Sent(m, r)'
      PROVE  /\ got'[n][s] \subseteq Needs(n, s)
             /\ \A j \in got'[n][s] : Sent(j, s)'
  <2>1. \/ got'[n][s] = got[n][s]
        \/ k = n /\ r = s /\ got'[n][s] = got[n][s] \cup {m}
    BY <1>3 DEF Collect, TypeOK
  <2> QED
    BY <1>1, <1>3, <2>1
<1> QED
  BY <1>2, <1>3, CollectEffect

\* A step of a wait-for-all context ends without an error only when complete.
LEMMA FinishInvStep ==
  TypeOK /\ GotInv /\ GotInv' /\ FinishInv /\ [Next]_vars => FinishInv'
<1> SUFFICES ASSUME TypeOK, GotInv, GotInv', FinishInv, [Next]_vars,
                    NEW n \in Nodes, NEW s \in Steps,
                    finish'[n][s] = "nil" \/ at'[n] > s
             PROVE  got'[n][s] = Needs(n, s)
  BY ZenonT(60) DEF FinishInv, Needs
<1>1. got'[n][s] \subseteq Needs(n, s)
  BY DEF GotInv, Needs
<1>2. got[n][s] \subseteq got'[n][s]
  <2>1. ASSUME NEW k \in Nodes, NEW r \in Steps, NEW m \in Nodes,
               Collect(k, r, m)
        PROVE  got[n][s] \subseteq got'[n][s]
    BY <2>1 DEF Collect, TypeOK
  <2> QED
    BY <2>1, CollectEffect
<1>3. CASE finish[n][s] = "nil" \/ at[n] > s
  BY ZenonT(60), <1>1, <1>2, <1>3 DEF FinishInv
<1>4. CASE finish[n][s] # "nil" /\ finish'[n][s] = "nil"
  <2>1. ASSUME NEW k \in Nodes, NEW r \in Steps, NEW m \in Nodes,
               Collect(k, r, m)
        PROVE  got'[n][s] = Needs(n, s)
    BY <1>4, <2>1 DEF Collect, TypeOK
  <2>2. ASSUME NEW k \in Nodes,
               finish' = [finish EXCEPT ![k] =
                 [j \in Steps |-> IF @[j] = "none" THEN "err" ELSE @[j]]]
        PROVE  FALSE
    BY <1>4, <2>2 DEF TypeOK
  <2> QED
    BY <1>4, <2>1, <2>2, CollectEffect
<1>5. CASE ~(at[n] > s) /\ at'[n] > s
  <2>1. at \in [Nodes -> 0..4] /\ s \in 0..4
    BY DEF TypeOK, Steps
  <2>2. finish[n][s] = "nil"
    BY <1>5, <2>1, MoveEffect DEF NextStep
  <2> QED
    BY <1>3, <2>2
<1> QED
  BY <1>3, <1>4, <1>5

\* The main goroutine and the distributor never send for a node without a context.
LEMMA CtxStep == TypeOK /\ CtxInv /\ [Next]_vars => CtxInv'
<1> SUFFICES ASSUME TypeOK, CtxInv, [Next]_vars PROVE CtxInv'
  OBVIOUS
<1>a. Leader \in Nodes /\ ctx \in [Nodes -> {"none", "active", "done", "down"}]
  BY GpkAssumption DEF GpkAssumption, TypeOK
<1>1. \A n \in Nodes : ctx'[n] = "none" => ctx[n] = "none"
  BY ZenonT(60), <1>a DEF Next, Main, Receive, Terminated, vars, InitStep, InitStepFails,
     FinishStart, FinishSkShare, FinishGpk, FinishGpkFails, FinishAckGpk,
     FinishError, CreateMpcCtx, GetMpcMessage, QuitMpcContext, Crash, Return
<1>2. \A n \in Nodes : ctx[n] = "none" => at'[n] = at[n] /\ pc'[n] = pc[n]
  BY MoveEffect DEF NextStep, TypeOK
<1> QED
  BY <1>a, <1>1, <1>2 DEF CtxInv

\* Once a message of the ready step or of a later one is on its way, every node
\* has its context: the leader went on only after everybody's acknowledgement.
LEMMA AllCreated ==
  ASSUME TypeOK, GotInv, FinishInv, CtxInv,
         NEW m \in Nodes, NEW n \in Nodes, NEW s \in Steps, Sent(m, s),
         m = Leader \/ s >= SkShare, s >= Ready
  PROVE  ctx[n] # "none"
<1> USE DEF Req, Ready, SkShare
<1>a. /\ Leader \in Nodes /\ at \in [Nodes -> 0..4] /\ s \in 0..4
      /\ 0 \in Steps /\ 1 \in Steps
  BY GpkAssumption DEF GpkAssumption, TypeOK, Steps
<1>1. at[Leader] > 0
  <2>1. CASE m = Leader
    BY <1>a, <2>1 DEF Sent
  <2>2. CASE m # Leader
    <3>1. at[m] > 1
      BY <1>a, <2>2 DEF Sent
    <3>2. got[m][1] = {Leader}
      BY <1>a, <2>2, <3>1 DEF FinishInv, Needs
    <3>3. Sent(Leader, 1)
      BY <1>a, <3>2 DEF GotInv
    <3> QED
      BY <1>a, <3>3 DEF Sent
  <2> QED
    BY <2>1, <2>2
<1>2. CASE n = Leader
  BY <1>2 DEF CtxInv
<1>3. CASE n # Leader
  <2>1. got[Leader][0] = Nodes \ {Leader}
    BY <1>a, <1>1 DEF FinishInv, Needs
  <2>2. Sent(n, 0)
    BY <1>a, <1>3, <2>1 DEF GotInv
  <2> QED
    BY <1>a, <2>2 DEF Sent, CtxInv
<1> QED
  BY <1>2, <1>3

\* No message is dropped for want of a context.
LEMMA DropStep ==
  TypeOK /\ GotInv /\ FinishInv /\ CtxInv /\ NoEarlyDrop /\ [Next]_vars
    => NoEarlyDrop'
<1> SUFFICES ASSUME TypeOK, GotInv, FinishInv, CtxInv, NoEarlyDrop, [Next]_vars
             PROVE  UNCHANGED lost
  BY DEF NoEarlyDrop
<1>1. ASSUME NEW n \in Nodes, NEW m \in Nodes, NEW s \in Steps,
             GetMpcMessage(m, n, s)
      PROVE  UNCHANGED lost
  <2>1. Sent(m, s) /\ m \in Needs(n, s) /\ s \in 0..4
    BY <1>1 DEF GetMpcMessage, Steps
  <2>2. CASE s = Req
    <3>1. n = Leader
      BY <2>1, <2>2 DEF Needs, Req, Ready
    <3> QED
      BY <1>1, <3>1 DEF GetMpcMessage, CtxInv
  <2>3. CASE s # Req
    <3>1. s >= Ready /\ (m = Leader \/ s >= SkShare)
      BY <2>1, <2>3 DEF Needs, Req, Ready, SkShare
    <3>2. ctx[n] # "none"
      BY <2>1, <3>1, AllCreated
    <3> QED
      BY <1>1, <3>2 DEF GetMpcMessage
  <2> QED
    BY <2>2, <2>3
<1> QED
  BY ZenonT(60), <1>1 DEF Next, Main, Receive, Terminated, vars, InitStep, InitStepFails,
     FinishStart, FinishSkShare, FinishGpk, FinishGpkFails, FinishAckGpk,
     FinishError, CreateMpcCtx, QuitMpcContext, Crash

\* The key a node computes in the gpk step is the key of all polynomials.
LEMMA KeyOfAll ==
  ASSUME TypeOK, GotInv, FinishInv, KeyInv, NEW n \in Nodes, StepOver(n, Gpk),
         NEW D \in SUBSET got[n][Gpk], Cardinality(D) = Thr
  PROVE  LagrangeECC(D) = [m \in Nodes |-> Nodes]
<1>a. Gpk \in Steps /\ at \in [Nodes -> 0..4] /\ Thr \in Nat /\ Thr >= 1
  <2>1. Cardinality(Nodes) \in Nat
    BY GpkAssumption, FS_CardinalityType DEF GpkAssumption
  <2> QED
    BY <2>1, GpkAssumption DEF GpkAssumption, TypeOK, Steps, Gpk
<1>1. got[n][Gpk] = Nodes
  BY <1>a DEF StepOver, FinishInv, Needs, Req, Ready, Gpk
<1>2. \A m \in Nodes : share[m] = Nodes
  BY <1>a, <1>1 DEF GotInv, Sent, KeyInv, Gpk, SkShare
<1>3. D # {}
  <2>1. Cardinality({}) = 0
    BY FS_EmptySet
  <2> QED
    BY <2>1, <1>a
<1>4. \A m \in D : share[m] = Nodes
  BY <1>1, <1>2
<1>5. UNION {share[m] : m \in D} = Nodes
  BY <1>3, <1>4
<1> QED
  BY <1>4, <1>5 DEF LagrangeECC

\* A share is complete when its step is over, and a keystore is for the key of all.
LEMMA KeyStep ==
  TypeOK /\ GotInv /\ FinishInv /\ KeyInv /\ [Next]_vars => KeyInv'
<1> SUFFICES ASSUME TypeOK, GotInv, FinishInv, KeyInv, [Next]_vars PROVE KeyInv'
  OBVIOUS
<1> USE DEF Req, Ready, SkShare, Gpk
<1>a. at \in [Nodes -> 0..4]
  BY DEF TypeOK, Steps
<1>1. ASSUME NEW n \in Nodes, FinishStart(n) PROVE KeyInv'
  BY <1>a, <1>1 DEF FinishStart, StepOver, NextStep, KeyInv
<1>2. ASSUME NEW n \in Nodes, FinishSkShare(n) PROVE KeyInv'
  <2>1. got[n][2] = Nodes /\ at[n] = 2
    BY <1>2 DEF FinishSkShare, StepOver, FinishInv, Needs, Steps
  <2>2. /\ at' = [at EXCEPT ![n] = 3] /\ store' = store
        /\ share' = [share EXCEPT ![n] = Nodes]
    BY <1>2, <2>1 DEF FinishSkShare, NextStep
  <2>3. share \in [Nodes -> SUBSET Nodes]
    BY DEF TypeOK
  <2> QED
    BY <1>a, <2>1, <2>2, <2>3 DEF KeyInv
<1>3. ASSUME NEW n \in Nodes, FinishGpk(n) PROVE KeyInv'
  <2>1. PICK D \in SUBSET got[n][Gpk] :
          /\ Cardinality(D) = Thr
          /\ store' = [store EXCEPT ![n] = LagrangeECC(D)]
    BY ZenonT(60), <1>3 DEF FinishGpk
  <2>2. store' = [store EXCEPT ![n] = [m \in Nodes |-> Nodes]]
    BY ZenonT(60), <1>3, <2>1, KeyOfAll DEF FinishGpk
  <2>3. at[n] = 3 /\ at' = [at EXCEPT ![n] = 4] /\ share' = share
    BY <1>3 DEF FinishGpk, StepOver, NextStep
  <2>4. store \in [Nodes -> Keys \cup {NoKey}]
    BY DEF TypeOK
  <2> QED
    BY <1>a, <2>2, <2>3, <2>4 DEF KeyInv
<1>4. CASE UNCHANGED <<at, share, store>>
  BY <1>4 DEF KeyInv
<1> QED
  BY ZenonT(60), <1>1, <1>2, <1>3, <1>4 DEF Next, Main, Receive, Terminated, vars, InitStep,
     InitStepFails, FinishGpkFails, FinishAckGpk, FinishError, CreateMpcCtx,
     GetMpcMessage, QuitMpcContext, Crash

\* A node reports success only with the keys of all nodes in its map.
LEMMA ResultStep == TypeOK /\ ResultInv /\ [Next]_vars => ResultInv'
<1> SUFFICES ASSUME TypeOK, ResultInv, [Next]_vars PROVE ResultInv'
  OBVIOUS
<1> USE DEF AckGpk
<1>a. /\ ctx \in [Nodes -> {"none", "active", "done", "down"}]
      /\ result \in [Nodes -> {"none", "ok", "err"}]
  BY DEF TypeOK
<1>1. ASSUME NEW n \in Nodes, result[n] = "ok" PROVE got'[n][AckGpk] = Nodes
  <2>1. got[n][AckGpk] = Nodes
    BY <1>1 DEF ResultInv
  <2>2. ASSUME NEW k \in Nodes, NEW r \in Steps, NEW m \in Nodes,
               Collect(k, r, m)
        PROVE  got'[n][AckGpk] = Nodes
    BY <2>1, <2>2 DEF Collect, TypeOK, Steps
  <2> QED
    BY <2>1, <2>2, CollectEffect
<1>2. ASSUME NEW n \in Nodes, FinishAckGpk(n) PROVE ResultInv'
  <2>1. CASE got[n][4] = Nodes /\ Return(n, "ok")
    BY <1>a, <1>1, <1>2, <2>1 DEF FinishAckGpk, Return, ResultInv
  <2>2. CASE Return(n, "err")
    BY <1>a, <1>1, <2>2 DEF Return, ResultInv
  <2> QED
    BY <1>2, <2>1, <2>2 DEF FinishAckGpk
<1>3. ASSUME NEW n \in Nodes, Return(n, "err") PROVE ResultInv'
  BY <1>a, <1>1, <1>3 DEF Return, ResultInv
<1>4. CASE result' = result
           /\ \A n \in Nodes : ctx[n] = "done" => ctx'[n] = "done"
  BY <1>1, <1>4 DEF ResultInv
<1> QED
  BY ZenonT(60), <1>a, <1>2, <1>3, <1>4 DEF Next, Main, Receive, Terminated, vars, InitStep,
     InitStepFails, FinishStart, FinishSkShare, FinishGpk, FinishGpkFails,
     FinishError, CreateMpcCtx, GetMpcMessage, QuitMpcContext, Crash

-----------------------------------------------------------------------------
\* The inductive invariant holds in every state of every run.
THEOREM Invariance == Spec => []IInv
<1>1. Init => IInv
  <2> SUFFICES ASSUME Init PROVE IInv
    OBVIOUS
  <2> USE DEF Req, Ready, SkShare, Gpk, AckGpk
  <2>a. Leader \in Nodes /\ NoKey \in Keys \cup {NoKey} /\ 0 \in Steps
    BY GpkAssumption DEF GpkAssumption, Steps
  <2>1. TypeOK
    BY <2>a DEF Init, TypeOK, InitMessageLoop
  <2>2. GotInv /\ FinishInv /\ CtxInv /\ KeyInv /\ ResultInv /\ NoEarlyDrop
    BY <2>a DEF Init, GotInv, FinishInv, CtxInv, KeyInv, ResultInv, NoEarlyDrop,
       InitMessageLoop, Steps
  <2> QED
    BY <2>1, <2>2 DEF IInv
<1>2. IInv /\ [Next]_vars => IInv'
  BY TypeStep, GotStep, FinishInvStep, CtxStep, KeyStep, ResultStep, DropStep
  DEF IInv
<1> QED
  BY <1>1, <1>2, PTL DEF Spec

\* The parts of the invariant that are properties of a run already.
THEOREM TypeCorrect == Spec => []TypeOK
BY Invariance, PTL DEF IInv

\* No message ever reaches a node of the group before the node's context exists.
THEOREM NoMessageTooEarly == Spec => []NoEarlyDrop
BY Invariance, PTL DEF IInv

\* Every keystore ever written is for the key of all polynomials.
THEOREM OneKey == Spec => []KeystoresAgree
<1>1. IInv => KeystoresAgree
  <2> SUFFICES ASSUME IInv PROVE KeystoresAgree
    OBVIOUS
  <2>1. at \in [Nodes -> 0..4] /\ KeyInv
    BY DEF IInv, TypeOK, Steps
  <2> QED
    BY <2>1 DEF KeyInv, KeystoresAgree, Gpk, SkShare
<1> QED
  BY Invariance, <1>1, PTL

\* No node leaves a collecting step before every node has entered it.
THEOREM StepsInLockstep == Spec => []Lockstep
<1>1. IInv => Lockstep
  <2> SUFFICES ASSUME IInv, NEW n \in Nodes, NEW m \in Nodes, at[n] > SkShare
               PROVE  Sent(m, at[n] - 1)
    BY DEF Lockstep
  <2>1. at[n] - 1 \in Steps /\ at[n] - 1 >= 2 /\ at[n] > at[n] - 1
    BY DEF IInv, TypeOK, Steps, SkShare
  <2>2. got[n][at[n] - 1] = Nodes
    BY <2>1 DEF IInv, FinishInv, Needs, Req, Ready
  <2> QED
    BY <2>1, <2>2 DEF IInv, GotInv
<1> QED
  BY Invariance, <1>1, PTL

\* A node acknowledges only after it has written its keystore.
LEMMA AckedMeansStored ==
  ASSUME IInv, NEW n \in Nodes, got[n][AckGpk] = Nodes
  PROVE  \A m \in Nodes : store[m] = [k \in Nodes |-> Nodes]
<1>1. AckGpk \in Steps /\ at \in [Nodes -> 0..4] /\ KeyInv
  BY DEF IInv, TypeOK, Steps, AckGpk
<1>2. \A m \in Nodes : Sent(m, AckGpk)
  BY <1>1 DEF IInv, GotInv
<1> QED
  BY <1>1, <1>2 DEF KeyInv, Sent, AckGpk, Gpk

\* Success on one node means a keystore of the same key on every node.
THEOREM SuccessIsUsable == Spec => []SuccessMeansAllStored
<1>1. IInv => SuccessMeansAllStored
  <2> SUFFICES ASSUME IInv, NEW n \in Nodes, result[n] = "ok"
               PROVE  \A m \in Nodes : store[m] = store[n] /\ store[n] # NoKey
    BY DEF SuccessMeansAllStored
  <2>1. \A m \in Nodes : store[m] = [k \in Nodes |-> Nodes]
    BY AckedMeansStored DEF IInv, ResultInv
  <2>2. [k \in Nodes |-> Nodes] # NoKey
    BY GpkAssumption DEF GpkAssumption
  <2> QED
    BY <2>1, <2>2
<1> QED
  BY Invariance, <1>1, PTL

\* A run implements the abstract creation of one key.
THEOREM Refinement == Spec => ImplementsKeyCreation
<1>1. Init => KC!Init
  BY DEF Init, KC!Init
<1>2. IInv /\ IInv' /\ [Next]_vars => [KC!Next]_KC!vars
  <2> SUFFICES ASSUME IInv, IInv', [Next]_vars PROVE [KC!Next]_KC!vars
    OBVIOUS
  <2> DEFINE K == [k \in Nodes |-> Nodes]
  <2>a. /\ K \in Keys /\ NoKey # K
        /\ result \in [Nodes -> {"none", "ok", "err"}]
        /\ store \in [Nodes -> Keys \cup {NoKey}]
    BY GpkAssumption DEF GpkAssumption, Keys, IInv, TypeOK
  <2>b. \A m \in Nodes : store[m] \in {NoKey, K}
    <3>1. at \in [Nodes -> 0..4] /\ KeyInv
      BY DEF IInv, TypeOK, Steps
    <3> QED
      BY <3>1 DEF KeyInv, Gpk
  <2>1. ASSUME NEW n \in Nodes, FinishGpk(n) PROVE KC!Write(n)
    <3>a. /\ at[n] = 3 /\ at' = [at EXCEPT ![n] = @ + 1]
          /\ result' = result
      BY ZenonT(60), <2>1 DEF FinishGpk, StepOver, NextStep, Gpk
    <3>b. at \in [Nodes -> Steps]
      BY DEF IInv, TypeOK
    <3>1. /\ at[n] = 3 /\ at' = [at EXCEPT ![n] = 4]
          /\ at \in [Nodes -> Steps] /\ result' = result
      BY <3>a, <3>b
    <3>2. PICK D \in SUBSET got[n][Gpk] :
            store' = [store EXCEPT ![n] = LagrangeECC(D)]
      BY ZenonT(60), <2>1 DEF FinishGpk
    <3>3. store[n] = NoKey /\ store'[n] = K
      BY <3>1 DEF IInv, KeyInv, Gpk
    <3>4. store' = [store EXCEPT ![n] = store'[n]]
      BY <3>2, <2>a
    <3> QED
      BY ZenonT(60), <2>a, <2>b, <3>1, <3>3, <3>4 DEF KC!Write
  <2>2. ASSUME NEW n \in Nodes, FinishAckGpk(n) PROVE KC!Succeed(n) \/ KC!Fail(n)
    <3>1. store' = store /\ result[n] = "none"
      BY <2>2, <2>a DEF FinishAckGpk, StepOver, IInv, ResultInv
    <3>2. CASE result' = [result EXCEPT ![n] = "ok"]
      <4>1. got[n][AckGpk] = Nodes
        BY <2>2, <2>a, <3>2 DEF FinishAckGpk, Return
      <4>2. \A m \in Nodes : store[m] # NoKey
        BY <4>1, <2>a, AckedMeansStored
      <4> QED
        BY <3>1, <3>2, <4>2 DEF KC!Succeed
    <3>3. CASE result' = [result EXCEPT ![n] = "err"]
      BY <3>1, <3>3 DEF KC!Fail
    <3> QED
      BY <2>2, <3>2, <3>3 DEF FinishAckGpk, Return
  <2>3. ASSUME NEW n \in Nodes, Return(n, "err"), ctx[n] = "active", store' = store
        PROVE  KC!Fail(n)
    BY <2>3, <2>a DEF Return, IInv, ResultInv, KC!Fail
  <2>4. CASE UNCHANGED <<store, result>>
    BY <2>4 DEF KC!vars
  <2> QED
    BY ZenonT(60), <2>1, <2>2, <2>3, <2>4 DEF Next, Main, Receive, Terminated, vars, InitStep,
       InitStepFails, FinishStart, FinishSkShare, FinishGpkFails, FinishError,
       CreateMpcCtx, GetMpcMessage, QuitMpcContext, Crash, StepOver, KC!Next
<1> QED
  BY <1>1, <1>2, Invariance, PTL DEF Spec, ImplementsKeyCreation, KC!Spec

-----------------------------------------------------------------------------
(* Why a context fails.                                                    *)

\* An MPCError on its way or on a finish channel comes from a node that has
\* failed, and the keys that nodes compare are all the same.
CauseInv ==
  \A n \in Nodes :
    /\ \A m \in errors[n] : result[m] = "err"
    /\ \A s \in Steps : finish[n][s] = "err" => \E m \in Nodes : result[m] = "err"
    /\ at[n] > Gpk => gpk[n] = [m \in Nodes |-> Nodes]

\* A node that has failed stays so, as its context is over.
LEMMA FailedStays ==
  ASSUME TypeOK, ResultInv, [Next]_vars, NEW m \in Nodes, result[m] = "err"
  PROVE  result'[m] = "err"
<1>1. ctx[m] = "done" /\ result \in [Nodes -> {"none", "ok", "err"}]
  BY DEF ResultInv, TypeOK
<1>2. ASSUME NEW n \in Nodes, NEW r, ctx[n] = "active", Return(n, r)
      PROVE  result'[m] = "err"
  BY <1>1, <1>2 DEF Return
<1>3. ASSUME NEW n \in Nodes, FinishAckGpk(n) PROVE result'[m] = "err"
  BY ZenonT(60), <1>2, <1>3 DEF FinishAckGpk, StepOver
<1>4. CASE UNCHANGED result
  BY <1>4
<1> QED
  BY ZenonT(60), <1>2, <1>3, <1>4 DEF Next, Main, Receive, Terminated, vars, InitStep,
     InitStepFails, FinishStart, FinishSkShare, FinishGpk, FinishGpkFails,
     FinishError, CreateMpcCtx, GetMpcMessage, QuitMpcContext, Crash, StepOver

\* MPCErrors are sent by nodes that fail.
LEMMA ErrorsStep ==
  ASSUME IInv, CauseInv, [Next]_vars, NEW n \in Nodes, NEW m \in errors'[n]
  PROVE  result'[m] = "err"
<1>a. /\ TypeOK /\ ResultInv /\ errors \in [Nodes -> SUBSET Nodes]
      /\ result \in [Nodes -> {"none", "ok", "err"}]
  BY DEF IInv, TypeOK
<1>1. m \in errors[n] => result'[m] = "err"
  BY <1>a, FailedStays DEF CauseInv
<1>2. ASSUME NEW k \in Nodes, Return(k, "err") PROVE result'[m] = "err"
  <2>1. m \in errors[n] \/ m = k
    BY <1>2, <1>a DEF Return
  <2> QED  BY <1>1, <1>2, <2>1, <1>a DEF Return
<1>3. ASSUME NEW k \in Nodes, FinishAckGpk(k) PROVE result'[m] = "err"
  <2>1. CASE Return(k, "ok")
    BY <1>1, <2>1 DEF Return
  <2> QED  BY <1>2, <1>3, <2>1 DEF FinishAckGpk
<1>4. ASSUME NEW k \in Nodes, NEW j \in Nodes, QuitMpcContext(j, k)
      PROVE  result'[m] = "err"
  BY <1>1, <1>4, <1>a DEF QuitMpcContext
<1>5. CASE UNCHANGED errors
  BY <1>1, <1>5
<1> QED
  BY ZenonT(60), <1>2, <1>3, <1>4, <1>5 DEF Next, Main, Receive, Terminated, vars,
     InitStep, InitStepFails, FinishStart, FinishSkShare, FinishGpk, FinishGpkFails,
     FinishError, CreateMpcCtx, GetMpcMessage, Crash

\* An error on finish was put there for an MPCError.
LEMMA FinishErrStep ==
  ASSUME IInv, CauseInv, [Next]_vars,
         NEW n \in Nodes, NEW s \in Steps, finish'[n][s] = "err"
  PROVE  \E m \in Nodes : result'[m] = "err"
<1>a. /\ TypeOK /\ ResultInv
      /\ finish \in [Nodes -> [Steps -> {"none", "nil", "err"}]]
      /\ errors \in [Nodes -> SUBSET Nodes]
  BY DEF IInv, TypeOK
<1>1. CASE finish[n][s] = "err"
  BY <1>1, <1>a, FailedStays DEF CauseInv
<1>2. ASSUME NEW k \in Nodes, NEW r \in Steps, NEW m \in Nodes, Collect(k, r, m)
      PROVE  finish[n][s] = "err"
  BY <1>2, <1>a DEF Collect
<1>3. ASSUME NEW k \in Nodes, NEW m \in Nodes, QuitMpcContext(m, k)
      PROVE  \E j \in Nodes : result'[j] = "err"
  <2>1. result[m] = "err"
    BY <1>3 DEF QuitMpcContext, CauseInv
  <2> QED  BY <2>1, <1>a, FailedStays
<1>4. CASE UNCHANGED finish
  BY <1>1, <1>4
<1> QED
  BY ZenonT(60), <1>a, <1>1, <1>2, <1>3, <1>4 DEF Next, Main, Receive, Terminated, vars,
     InitStep, InitStepFails, FinishStart, FinishSkShare, FinishGpk, FinishGpkFails,
     FinishAckGpk, FinishError, CreateMpcCtx, GetMpcMessage, Crash, TypeOK

\* A node past the gpk step has computed the key of all polynomials.
LEMMA GpkStep ==
  ASSUME IInv, CauseInv, [Next]_vars, NEW n \in Nodes, at'[n] > Gpk
  PROVE  gpk'[n] = [m \in Nodes |-> Nodes]
<1> USE DEF Req, Ready, SkShare, Gpk
<1>a. /\ at \in [Nodes -> 0..4] /\ gpk \in [Nodes -> Keys \cup {NoKey}]
      /\ TypeOK /\ GotInv /\ FinishInv /\ KeyInv
  BY DEF IInv, TypeOK, Steps
<1>1. ASSUME NEW k \in Nodes, FinishGpk(k) PROVE gpk'[n] = [m \in Nodes |-> Nodes]
  <2>1. PICK D \in SUBSET got[k][Gpk] :
          Cardinality(D) = Thr /\ gpk' = [gpk EXCEPT ![k] = LagrangeECC(D)]
    BY ZenonT(60), <1>1 DEF FinishGpk
  <2>2. gpk' = [gpk EXCEPT ![k] = [m \in Nodes |-> Nodes]]
    BY ZenonT(60), <1>1, <1>a, <2>1, KeyOfAll DEF FinishGpk
  <2>3. at' = [at EXCEPT ![k] = @ + 1]
    BY <1>1 DEF FinishGpk, NextStep
  <2> QED  BY <1>a, <2>2, <2>3 DEF CauseInv
<1>2. ASSUME NEW k \in Nodes, FinishStart(k) \/ FinishSkShare(k)
      PROVE  gpk'[n] = [m \in Nodes |-> Nodes]
  <2>1. gpk' = gpk /\ at[k] < 3 /\ at' = [at EXCEPT ![k] = @ + 1]
    BY <1>2 DEF FinishStart, FinishSkShare, StepOver, NextStep
  <2> QED  BY <1>a, <2>1 DEF CauseInv
<1>3. CASE UNCHANGED <<at, gpk>>
  BY <1>3 DEF CauseInv
<1> QED
  BY ZenonT(60), <1>1, <1>2, <1>3 DEF Next, Main, Receive, Terminated, vars,
     InitStep, InitStepFails, FinishGpkFails, FinishAckGpk, FinishError, CreateMpcCtx,
     GetMpcMessage, QuitMpcContext, Crash

\* A context that fails has a step that failed by itself, or its timer has fired, or
\* somebody has failed before.
LEMMA CauseOfFailure ==
  ASSUME IInv, CauseInv, [Next]_vars,
         NEW n \in Nodes, result[n] # "err", result'[n] = "err"
  PROVE  \/ InitStepFails(n) \/ FinishGpkFails(n)
         \/ FinishError(n) /\ Waits(n)
         \/ \E m \in Nodes : result[m] = "err"
<1>a. /\ at \in [Nodes -> Steps] /\ AckGpk \in Steps
      /\ result \in [Nodes -> {"none", "ok", "err"}]
  BY DEF IInv, TypeOK, Steps, AckGpk
<1>1. ASSUME NEW k \in Nodes, NEW r, Return(k, r) PROVE k = n /\ r = "err"
  BY <1>1, <1>a DEF Return
<1>2. ASSUME FinishAckGpk(n) PROVE FALSE
  <2>1. got[n][AckGpk] = Nodes
    BY <1>2, <1>a DEF FinishAckGpk, StepOver, IInv, FinishInv, Needs, Req, Ready, AckGpk
  <2>2. \A m \in Nodes : Sent(m, AckGpk)
    BY <1>a, <2>1 DEF IInv, GotInv
  <2>3. \A m \in Nodes : at[m] > Gpk
    BY <1>a, <2>2 DEF Sent, Gpk, AckGpk, Steps
  <2>4. \A m \in Nodes : gpk[m] = gpk[n]
    BY <2>3 DEF CauseInv
  <2> QED  BY <1>2, <1>1, <2>1, <2>4 DEF FinishAckGpk
<1>3. ASSUME FinishError(n), ~Waits(n) PROVE \E m \in Nodes : result[m] = "err"
  BY <1>3, <1>a DEF FinishError, CauseInv, Waits
<1>4. ASSUME NEW k \in Nodes, FinishAckGpk(k) PROVE k = n
  BY <1>1, <1>4 DEF FinishAckGpk
<1>5. CASE UNCHANGED result
  BY <1>5
<1> QED
  BY ZenonT(60), <1>1, <1>2, <1>3, <1>4, <1>5 DEF Next, Main, Receive, Terminated, vars,
     InitStep, InitStepFails, FinishStart, FinishSkShare, FinishGpk, FinishGpkFails,
     FinishError, CreateMpcCtx, GetMpcMessage, QuitMpcContext, Crash

\* No context fails unless a step of some node has failed for a reason of its own or a
\* timer has fired, however the messages were ordered (FailureHasCause).
THEOREM FailuresHaveCauses == Spec => FailureHasCause
<1>1. Init => CauseInv
  BY DEF Init, CauseInv, InitMessageLoop, Req, Gpk
<1>2. IInv /\ CauseInv /\ [Next]_vars => CauseInv'
  BY ErrorsStep, FinishErrStep, GpkStep DEF CauseInv
<1>3. IInv /\ CauseInv /\ [Next]_vars =>
        [\A n \in Nodes : result[n] # "err" /\ result'[n] = "err" =>
           \/ InitStepFails(n) \/ FinishGpkFails(n)
           \/ FinishError(n) /\ Waits(n)
           \/ \E m \in Nodes : result[m] = "err"]_vars
  BY CauseOfFailure
<1> QED
  BY <1>1, <1>2, <1>3, Invariance, PTL DEF Spec, FailureHasCause
=============================================================================
