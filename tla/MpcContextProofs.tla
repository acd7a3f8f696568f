-------------------------- MODULE MpcContextProofs --------------------------
(***************************************************************************)
(* Proofs about MpcContext for every group, every list of steps and every  *)
(* number of messages waited for.                                          *)
(***************************************************************************)
EXTENDS MpcContext, FiniteSetTheorems, TLAPS

\* Time limits for every step below.
USE SMTT(60), ZenonT(60)

\* FinishStep / Quit have sent their nil message to step s.
DrainDone(s) ==
  \/ pc \in {"init", "send", "finish", "drain"} /\ s < cur
  \/ pc = "check" /\ s <= cur
  \/ pc \in {"quit", "quitting", "done"}

QuitMsgDone(s) ==
  \/ quitter = "over"
  \/ quitter \in {"main", "peer"}
       /\ (s < quitAt \/ (s = quitAt /\ quitOp = "finish"))

\* The end of collection / Quit have been reported on finish[s].
NilDone(s) == waiting[s] = 0 /\ (Wait[s] > 0 \/ pc # "loop" \/ s < cur)

QuitFinDone(s) ==
  quitter = "over" \/ (quitter \in {"main", "peer"} /\ s < quitAt)

\* The main goroutine has not yet received from finish[s].
Ahead(s) ==
  \/ pc = "loop"
  \/ pc \in {"init", "send", "finish"} /\ s >= cur
  \/ pc \in {"drain", "check"} /\ s > cur

\* The main goroutine has sent its own message of step s.
OwnSent(s) ==
  \/ pc \in {"init", "send"} /\ s < cur
  \/ pc \in {"finish", "drain", "check"} /\ s <= cur
  \/ pc \in {"quit", "quitting", "done"}

One(b) == IF b THEN 1 ELSE 0

\* The inductive invariant, in parts.  Who holds quitMu, and with which error.
CtlInv ==
  /\ (pc = "quitting") <=> (quitter = "main")
  /\ quitter \in {"none", "over"} => quitOp = "msgChan"
  /\ pc = "check" => stepErr = "nil"
  /\ quitter # "none" /\ quitErr = "nil" => pc \in {"quitting", "done"}

OwnInv == \A s \in Steps : Self \in delivered[s] => OwnSent(s)

\* A channel is never longer than the number of sends made to it so far, and
\* each of its possible senders sends once.
MsgInv ==
  \A s \in Steps :
    Len(msgChan[s]) <= Cardinality(delivered[s])
                         + One(DrainDone(s)) + One(QuitMsgDone(s))

FinInv ==
  \A s \in Steps : Len(finish[s]) <= One(NilDone(s)) + One(QuitFinDone(s))

\* A reader starts in InitMessageLoop, and nothing is counted before.
StartInv ==
  \A s \in Steps :
    /\ reader[s] = "none" => waiting[s] = Wait[s]
    /\ pc = "loop" /\ s >= cur => reader[s] = "none"

CountInv == \A s \in Steps : waiting[s] + Cardinality(got[s]) = Wait[s]

\* A nil on finish stands for a complete collection, or for the quit(nil) that
\* ends mainMPCProcess.
NilInv ==
  \A s \in Steps : \A i \in 1..Len(finish[s]) :
    finish[s][i] = "nil" => waiting[s] = 0 \/ (quitter # "none" /\ quitErr = "nil")

WakeInv == \A s \in Steps : QuitFinDone(s) /\ Ahead(s) => finish[s] # <<>>

PassInv == WaitAll => \A s \in Steps : Passed(s) => waiting[s] = 0

IInv ==
  /\ TypeOK /\ CtlInv /\ OwnInv /\ MsgInv /\ FinInv
  /\ StartInv /\ CountInv /\ NilInv /\ WakeInv /\ PassInv

-----------------------------------------------------------------------------
\* Updates of one channel and of one message map keep their types.
LEMMA AppendType ==
  ASSUME NEW D, NEW S, NEW f \in [D -> Seq(S)], NEW d \in D, NEW e \in S
  PROVE  [f EXCEPT ![d] = Append(@, e)] \in [D -> Seq(S)]
OBVIOUS

\* Taking the first entry off a channel leaves a channel of the same type.
LEMMA TailType ==
  ASSUME NEW D, NEW S, NEW f \in [D -> Seq(S)], NEW d \in D, f[d] # <<>>
  PROVE  /\ [f EXCEPT ![d] = Tail(@)] \in [D -> Seq(S)]
         /\ Head(f[d]) \in S
OBVIOUS

\* Adding a peer to a message map keeps its type.
LEMMA AddType ==
  ASSUME NEW D, NEW S, NEW f \in [D -> SUBSET S], NEW d \in D, NEW e \in S
  PROVE  [f EXCEPT ![d] = @ \cup {e}] \in [D -> SUBSET S]
OBVIOUS

\* SendMsg and SendFinish, the sends on the two channels of a step.
LEMMA SendMsgType ==
  ASSUME TypeOK, NEW s \in Steps, NEW m \in Peers \cup {NilMsg}, SendMsg(s, m)
  PROVE  msgChan' \in [Steps -> Seq(Peers \cup {NilMsg})]
BY AppendType DEF TypeOK, SendMsg

\* SendFinish puts an error or nil on the channel finish of the step.
LEMMA SendFinishType ==
  ASSUME TypeOK, NEW s \in Steps, NEW e \in {"nil", "err"}, SendFinish(s, e)
  PROVE  finish' \in [Steps -> Seq({"nil", "err"})]
BY AppendType DEF TypeOK, SendFinish

\* The variables of a context keep their types: every action of the main
\* goroutine, the readers, quit and getMessage preserves them.
LEMMA TypeStep == TypeOK /\ [Next]_vars => TypeOK'
<1> SUFFICES ASSUME TypeOK, [Next]_vars PROVE TypeOK'
  OBVIOUS
<1>a. NSteps \in Nat \ {0} /\ Self \in Peers
  BY ContextAssumption DEF ContextAssumption
<1>b. cur \in Steps /\ quitAt \in Steps
  BY DEF TypeOK
<1>c. 0 \in Steps
  BY <1>a DEF Steps
<1>d. got \in [Steps -> SUBSET Peers] /\ delivered \in [Steps -> SUBSET Peers]
  BY DEF TypeOK
<1> USE DEF chans, steps, main, quits
<1>1. CASE InitMessageLoop
  <2>1. cur' \in Steps
    BY <1>1, <1>a, <1>b DEF InitMessageLoop, Steps
  <2>2. finish' \in [Steps -> Seq({"nil", "err"})]
    BY <1>1, <1>b, SendFinishType DEF InitMessageLoop, TypeOK
  <2>3. reader' \in [Steps -> {"none", "loop", "exited"}]
    BY ZenonT(60), <1>1, <1>b, ZenonT(60) DEF InitMessageLoop, TypeOK
  <2> QED
    BY ZenonT(60), <1>1, <2>1, <2>2, <2>3 DEF InitMessageLoop, TypeOK
<1>2. CASE InitStep
  BY <1>2 DEF InitStep, Fail, TypeOK
<1>3. CASE SendOwn
  <2>1. msgChan' \in [Steps -> Seq(Peers \cup {NilMsg})]
    BY <1>3, <1>a, <1>b, SendMsgType DEF SendOwn, TypeOK
  <2>2. \/ delivered' = delivered
        \/ delivered' = [delivered EXCEPT ![cur] = @ \cup {Self}]
    BY <1>3 DEF SendOwn
  <2>3. delivered' \in [Steps -> SUBSET Peers]
    BY <2>2, <1>a, <1>b, <1>d, AddType
  <2> QED
    BY <1>3, <2>1, <2>3 DEF SendOwn, TypeOK
<1>4. CASE FinishOnResult
  <2>1. /\ finish' \in [Steps -> Seq({"nil", "err"})]
        /\ stepErr' \in {"nil", "err"}
    BY <1>4, <1>b, TailType DEF FinishOnResult, TypeOK
  <2> QED
    BY <1>4, <2>1 DEF FinishOnResult, TypeOK
<1>5. CASE FinishOnTimeout
  BY <1>5 DEF FinishOnTimeout, TimeoutErr, TypeOK
<1>6. CASE FinishStep
  <2>1. msgChan' \in [Steps -> Seq(Peers \cup {NilMsg})]
    BY <1>6, <1>b, SendMsgType DEF FinishStep
  <2> QED
    BY <1>6, <2>1 DEF FinishStep, Fail, TypeOK
<1>7. CASE CalculateResult
  <2>1. cur' \in Steps
    BY <1>7, <1>a, <1>b DEF CalculateResult, Fail, Steps
  <2> QED
    BY <1>7, <2>1 DEF CalculateResult, Fail, TypeOK
<1>8. CASE QuitMain
  BY <1>8, <1>c DEF QuitMain, StartQuit, TypeOK
<1>9. CASE QuitMpcContext
  BY <1>9, <1>c DEF QuitMpcContext, StartQuit, TypeOK
<1>10. CASE QuitStepMsg
  <2>1. msgChan' \in [Steps -> Seq(Peers \cup {NilMsg})]
    BY <1>10, <1>b, SendMsgType DEF QuitStepMsg
  <2> QED
    BY <1>10, <2>1 DEF QuitStepMsg, TypeOK
<1>11. CASE QuitStepFinish
  <2>1. finish' \in [Steps -> Seq({"nil", "err"})]
    BY <1>11, <1>b, SendFinishType DEF QuitStepFinish, TypeOK
  <2>2. quitAt' \in Steps
    BY <1>11, <1>a, <1>b DEF QuitStepFinish, Steps
  <2> QED
    BY <1>11, <2>1, <2>2 DEF QuitStepFinish, TypeOK
<1>12. ASSUME NEW s \in Steps, HandleMessage(s) PROVE TypeOK'
  <2> DEFINE m == Head(msgChan[s])
  <2>1. /\ msgChan' \in [Steps -> Seq(Peers \cup {NilMsg})]
        /\ m \in Peers \cup {NilMsg}
    BY <1>12, TailType DEF HandleMessage, TypeOK
  <2>2. finish' \in [Steps -> Seq({"nil", "err"})]
    BY <1>12, SendFinishType DEF HandleMessage, Accepts, TypeOK
  <2>3. \/ got' = got
        \/ m \in Peers /\ got' = [got EXCEPT ![s] = @ \cup {m}]
    BY <1>12, <2>1 DEF HandleMessage, Accepts
  <2>4. reader' \in [Steps -> {"none", "loop", "exited"}]
    BY <1>12 DEF HandleMessage, Accepts, TypeOK
  <2>5. waiting \in [Steps -> Nat]
    BY DEF TypeOK
  <2>6. \/ waiting' = waiting
        \/ waiting[s] > 0 /\ waiting' = [waiting EXCEPT ![s] = @ - 1]
    BY <1>12 DEF HandleMessage, Accepts
  <2>7. waiting' \in [Steps -> Nat]
    BY <2>5, <2>6
  <2> HIDE DEF m
  <2>8. got' \in [Steps -> SUBSET Peers]
    BY <2>3, <1>d, AddType
  <2> QED
    BY ZenonT(60), <1>12, <2>1, <2>2, <2>4, <2>7, <2>8 DEF HandleMessage, Accepts, TypeOK
<1>13. ASSUME NEW s \in Steps, NEW p \in Peers, GetMessage(p, s) PROVE TypeOK'
  <2>1. msgChan' \in [Steps -> Seq(Peers \cup {NilMsg})]
    BY <1>13, SendMsgType DEF GetMessage
  <2>2. delivered' \in [Steps -> SUBSET Peers]
    BY <1>13, <1>d, AddType DEF GetMessage
  <2> QED
    BY <1>13, <2>1, <2>2 DEF GetMessage, TypeOK
<1>14. CASE UNCHANGED vars
  BY <1>14 DEF vars, TypeOK
<1> QED
  BY <1>1, <1>2, <1>3, <1>4, <1>5, <1>6, <1>7, <1>8, <1>9, <1>10, <1>11,
     <1>12, <1>13, <1>14 DEF Next, Main, QuitLoop, Terminated

-----------------------------------------------------------------------------
\* Who holds quitMu and what it distributes: QuitMain runs quit(nil) and only
\* while the main goroutine is at its end; everybody else brings an error.
LEMMA CtlStep == TypeOK /\ CtlInv /\ [Next]_vars => CtlInv'
<1> SUFFICES ASSUME TypeOK, CtlInv, [Next]_vars PROVE CtlInv'
  OBVIOUS
<1>a. /\ pc \in {"loop", "init", "send", "finish", "drain", "check",
                 "quit", "quitting", "done"}
      /\ quitter \in {"none", "main", "peer", "over"}
  BY DEF TypeOK
<1> USE DEF CtlInv, quits
<1>1. CASE Main \/ UNCHANGED vars
  BY ZenonT(60), <1>1, <1>a DEF Main, InitMessageLoop, InitStep, Fail, SendOwn,
     FinishOnResult, FinishOnTimeout, FinishStep, CalculateResult, QuitMain,
     StartQuit, vars, main
<1>2. CASE QuitMpcContext \/ QuitLoop
  BY ZenonT(60), <1>2, <1>a DEF QuitMpcContext, StartQuit, QuitLoop, QuitStepMsg,
     QuitStepFinish, main
<1>3. ASSUME NEW s \in Steps, HandleMessage(s) PROVE CtlInv'
  BY <1>3 DEF HandleMessage, main
<1>4. ASSUME NEW s \in Steps, NEW p \in Peers, GetMessage(p, s) PROVE CtlInv'
  BY <1>4 DEF GetMessage, main
<1> QED
  BY <1>1, <1>2, <1>3, <1>4 DEF Next, Terminated

\* The main goroutine sends its own message of a step once: SendOwn is the only
\* action that does.
LEMMA OwnStep == TypeOK /\ OwnInv /\ [Next]_vars => OwnInv'
<1> SUFFICES ASSUME TypeOK, OwnInv, [Next]_vars, NEW s \in Steps,
                    Self \in delivered'[s]
             PROVE  OwnSent(s)'
  BY DEF OwnInv
<1>a. NSteps \in Nat \ {0} /\ cur \in 0..(NSteps - 1) /\ s \in 0..(NSteps - 1)
  BY ContextAssumption DEF ContextAssumption, TypeOK, Steps
<1>b. Self \in delivered[s] => OwnSent(s)
  BY DEF OwnInv
<1>c. delivered \in [Steps -> SUBSET Peers] /\ cur \in Steps
  BY DEF TypeOK
<1> USE DEF OwnSent
<1>1. CASE delivered' = delivered
  <2>1. CASE Main
    <3>1. CASE InitMessageLoop
      BY <1>a, <1>b, <1>1, <3>1 DEF InitMessageLoop
    <3>2. CASE InitStep \/ SendOwn
      BY <1>a, <1>b, <1>1, <3>2 DEF InitStep, Fail, SendOwn
    <3>3. CASE FinishOnResult \/ FinishOnTimeout
      BY <1>a, <1>b, <1>1, <3>3 DEF FinishOnResult, FinishOnTimeout
    <3>4. CASE FinishStep
      BY <1>a, <1>b, <1>1, <3>4 DEF FinishStep, Fail
    <3>5. CASE CalculateResult
      BY <1>a, <1>b, <1>1, <3>5 DEF CalculateResult, Fail
    <3>6. CASE QuitMain
      BY <1>a, <1>b, <1>1, <3>6 DEF QuitMain
    <3> QED
      BY <2>1, <3>1, <3>2, <3>3, <3>4, <3>5, <3>6 DEF Main
  <2>2. CASE QuitMpcContext \/ QuitLoop
    BY <1>a, <1>b, <1>1, <2>2 DEF QuitMpcContext, QuitLoop, QuitStepMsg,
       QuitStepFinish, main
  <2>3. ASSUME NEW t \in Steps, HandleMessage(t) PROVE OwnSent(s)'
    BY <1>b, <1>1, <2>3 DEF HandleMessage, main
  <2>4. ASSUME NEW t \in Steps, NEW p \in Peers, GetMessage(p, t)
        PROVE  OwnSent(s)'
    BY <1>b, <1>1, <2>4 DEF GetMessage, main
  <2>5. CASE UNCHANGED vars
    BY <1>b, <1>1, <2>5 DEF vars, main
  <2> QED
    BY <2>1, <2>2, <2>3, <2>4, <2>5 DEF Next, Terminated
<1>2. CASE SendOwn
  BY <1>a, <1>b, <1>c, <1>2 DEF SendOwn
<1>3. ASSUME NEW t \in Steps, NEW p \in Peers, GetMessage(p, t)
      PROVE  OwnSent(s)'
  <2>1. Self \in delivered[s]
    BY <1>c, <1>3 DEF GetMessage
  <2> QED
    BY <1>b, <1>3, <2>1 DEF GetMessage, main
<1> QED
  BY ZenonT(60), <1>1, <1>2, <1>3 DEF Next, Main, InitMessageLoop, InitStep,
     FinishOnResult, FinishOnTimeout, FinishStep, CalculateResult, QuitMain,
     QuitMpcContext, QuitLoop, QuitStepMsg, QuitStepFinish, HandleMessage,
     Terminated, vars, steps

-----------------------------------------------------------------------------
\* What a send and a receive do to the length of one channel.
LEMMA AppendLen ==
  ASSUME NEW D, NEW S, NEW f \in [D -> Seq(S)], NEW d \in D, NEW c \in D,
         NEW e \in S
  PROVE  /\ c # d => [f EXCEPT ![d] = Append(@, e)][c] = f[c]
         /\ [f EXCEPT ![d] = Append(@, e)][d] = Append(f[d], e)
         /\ Len(Append(f[d], e)) = Len(f[d]) + 1
         /\ Len(f[c]) \in Nat
OBVIOUS

\* Taking the first entry off a channel shortens it by one and leaves the others.
LEMMA TailLen ==
  ASSUME NEW D, NEW S, NEW f \in [D -> Seq(S)], NEW d \in D, NEW c \in D,
         f[d] # <<>>
  PROVE  /\ c # d => [f EXCEPT ![d] = Tail(@)][c] = f[c]
         /\ [f EXCEPT ![d] = Tail(@)][d] = Tail(f[d])
         /\ Len(Tail(f[d])) = Len(f[d]) - 1
         /\ Len(f[c]) \in Nat
OBVIOUS

\* The messages delivered to a step are finitely many; a new one adds one.
LEMMA DeliveredCard ==
  ASSUME TypeOK, NEW s \in Steps
  PROVE  /\ Cardinality(delivered[s]) \in Nat
         /\ Cardinality(delivered[s]) <= Cardinality(Peers)
         /\ \A p : p \notin delivered[s]
              => Cardinality(delivered[s] \cup {p}) = Cardinality(delivered[s]) + 1
<1>1. delivered[s] \subseteq Peers /\ IsFiniteSet(Peers)
  BY ContextAssumption DEF ContextAssumption, TypeOK
<1>2. IsFiniteSet(delivered[s])
  BY <1>1, FS_Subset
<1> QED
  BY <1>1, <1>2, FS_Subset, FS_CardinalityType, FS_AddElement

\* A channel msgChan holds no more than the messages delivered to it and the
\* nil messages of FinishStep and Quit.
LEMMA MsgStep == TypeOK /\ CtlInv /\ OwnInv /\ MsgInv /\ [Next]_vars => MsgInv'
<1> SUFFICES ASSUME TypeOK, CtlInv, OwnInv, MsgInv, [Next]_vars,
                    NEW s \in Steps
             PROVE  Len(msgChan'[s]) <= Cardinality(delivered'[s])
                      + One(DrainDone(s)') + One(QuitMsgDone(s)')
  BY DEF MsgInv
<1>a. /\ NSteps \in Nat \ {0} /\ Self \in Peers
      /\ cur \in 0..(NSteps - 1) /\ s \in 0..(NSteps - 1)
      /\ quitAt \in 0..(NSteps - 1)
  BY ContextAssumption DEF ContextAssumption, TypeOK, Steps
<1>b. Len(msgChan[s]) <= Cardinality(delivered[s])
        + One(DrainDone(s)) + One(QuitMsgDone(s))
  BY DEF MsgInv
<1>c. /\ msgChan \in [Steps -> Seq(Peers \cup {NilMsg})]
      /\ delivered \in [Steps -> SUBSET Peers]
      /\ cur \in Steps /\ quitAt \in Steps
      /\ quitter \in {"none", "main", "peer", "over"}
      /\ quitOp \in {"msgChan", "finish"}
      /\ pc \in {"loop", "init", "send", "finish", "drain", "check",
                 "quit", "quitting", "done"}
  BY DEF TypeOK
<1>d. /\ Cardinality(delivered[s]) \in Nat
      /\ \A p : p \notin delivered[s]
           => Cardinality(delivered[s] \cup {p}) = Cardinality(delivered[s]) + 1
  BY DeliveredCard
<1>e. Len(msgChan[s]) \in Nat
  BY <1>c
<1>f. Cardinality(delivered[s]) \in Nat
  BY <1>d
<1>g. One(DrainDone(s)) \in Nat /\ One(QuitMsgDone(s)) \in Nat
  BY DEF One
<1>1. CASE msgChan' = msgChan /\ delivered' = delivered
  <2>1. DrainDone(s) => DrainDone(s)'
    <3>1. CASE Main
      <4>1. CASE InitMessageLoop
        BY <1>a, <4>1 DEF DrainDone, InitMessageLoop
      <4>2. CASE InitStep \/ SendOwn
        BY <1>a, <4>2 DEF DrainDone, InitStep, Fail, SendOwn
      <4>3. CASE FinishOnResult \/ FinishOnTimeout
        BY <1>a, <4>3 DEF DrainDone, FinishOnResult, FinishOnTimeout
      <4>4. CASE FinishStep
        BY <1>a, <4>4 DEF DrainDone, FinishStep, Fail
      <4>5. CASE CalculateResult
        BY <1>a, <4>5 DEF DrainDone, CalculateResult, Fail
      <4>6. CASE QuitMain
        BY <1>a, <4>6 DEF DrainDone, QuitMain
      <4> QED
        BY <3>1, <4>1, <4>2, <4>3, <4>4, <4>5, <4>6 DEF Main
    <3>2. CASE QuitMpcContext \/ QuitLoop
      BY ZenonT(60), <1>a, <3>2 DEF DrainDone, QuitMpcContext, QuitLoop, QuitStepMsg,
         QuitStepFinish, main
    <3>3. CASE UNCHANGED main
      BY <3>3 DEF DrainDone, main
    <3> QED
      BY <3>1, <3>2, <3>3 DEF Next, Terminated, HandleMessage, GetMessage, vars
  <2>2. QuitMsgDone(s) => QuitMsgDone(s)'
    <3>1. CASE QuitMain \/ QuitMpcContext \/ QuitLoop
      BY <1>a, <1>c, <3>1 DEF QuitMsgDone, QuitMain, QuitMpcContext, StartQuit,
         QuitLoop, QuitStepMsg, QuitStepFinish, quits
    <3>2. CASE UNCHANGED quits
      BY <3>2 DEF QuitMsgDone, quits
    <3> QED
      BY ZenonT(60), <3>1, <3>2 DEF Next, Main, InitMessageLoop, InitStep, SendOwn,
         FinishOnResult, FinishOnTimeout, FinishStep, CalculateResult,
         Terminated, HandleMessage, GetMessage, vars
  <2> QED
    BY <1>1, <1>b, <1>d, <1>e, <2>1, <2>2 DEF One
<1>2. CASE SendOwn /\ Self \in Senders[cur]
  <2>1. /\ msgChan' = [msgChan EXCEPT ![cur] = Append(@, Self)]
        /\ delivered' = [delivered EXCEPT ![cur] = @ \cup {Self}]
        /\ pc = "send" /\ pc' = "finish" /\ UNCHANGED <<cur, quits>>
    BY <1>2 DEF SendOwn, SendMsg
  <2>2. Self \notin delivered[cur]
    BY <1>a, <1>c, <2>1 DEF OwnInv, OwnSent
  <2>3. /\ One(DrainDone(s)') = One(DrainDone(s))
        /\ One(QuitMsgDone(s)') = One(QuitMsgDone(s))
    BY <2>1 DEF DrainDone, QuitMsgDone, quits, One
  <2>4. Len(msgChan'[s]) = Len(msgChan[s]) + One(s = cur)
    BY <2>1, <1>a, <1>c, AppendLen DEF One
  <2>5. Cardinality(delivered'[s]) = Cardinality(delivered[s]) + One(s = cur)
    <3>1. s = cur => delivered'[s] = delivered[s] \cup {Self}
      BY <2>1, <1>c
    <3>2. s # cur => delivered'[s] = delivered[s]
      BY <2>1, <1>c
    <3> QED
      BY <2>2, <3>1, <3>2, <1>d DEF One
  <2>6. One(s = cur) \in Nat
    BY DEF One
  <2> QED
    BY <1>b, <1>e, <1>f, <1>g, <2>3, <2>4, <2>5, <2>6
<1>3. CASE FinishStep
  <2>1. /\ msgChan' = [msgChan EXCEPT ![cur] = Append(@, NilMsg)]
        /\ delivered' = delivered
        /\ pc = "drain" /\ pc' \in {"check", "quit"} /\ UNCHANGED <<cur, quits>>
    BY <1>3 DEF FinishStep, SendMsg, Fail, steps
  <2>2. QuitMsgDone(s) <=> QuitMsgDone(s)'
    BY <2>1 DEF QuitMsgDone, quits
  <2>3. /\ DrainDone(s) => DrainDone(s)'
        /\ s = cur => ~DrainDone(s) /\ DrainDone(s)'
    BY <1>a, <2>1 DEF DrainDone
  <2>4. Len(msgChan'[s]) = Len(msgChan[s]) + One(s = cur)
    BY <2>1, <1>c, AppendLen DEF One
  <2> QED
    BY <1>b, <1>d, <1>e, <2>1, <2>2, <2>3, <2>4 DEF One
<1>4. CASE QuitStepMsg
  <2>1. /\ msgChan' = [msgChan EXCEPT ![quitAt] = Append(@, NilMsg)]
        /\ delivered' = delivered
        /\ quitter \in {"main", "peer"} /\ quitOp = "msgChan"
        /\ quitOp' = "finish"
        /\ UNCHANGED <<pc, cur, quitter, quitAt>>
    BY <1>4 DEF QuitStepMsg, SendMsg, steps, main
  <2>2. DrainDone(s) <=> DrainDone(s)'
    BY <2>1 DEF DrainDone
  <2>3. /\ QuitMsgDone(s) => QuitMsgDone(s)'
        /\ s = quitAt => ~QuitMsgDone(s) /\ QuitMsgDone(s)'
    BY <1>a, <2>1 DEF QuitMsgDone
  <2>4. Len(msgChan'[s]) = Len(msgChan[s]) + One(s = quitAt)
    BY <2>1, <1>c, AppendLen DEF One
  <2> QED
    BY <1>b, <1>d, <1>e, <2>1, <2>2, <2>3, <2>4 DEF One
<1>5. ASSUME NEW t \in Steps, HandleMessage(t)
      PROVE  Len(msgChan'[s]) <= Cardinality(delivered'[s])
               + One(DrainDone(s)') + One(QuitMsgDone(s)')
  <2>1. /\ msgChan[t] # <<>>
        /\ msgChan' = [msgChan EXCEPT ![t] = Tail(@)]
        /\ UNCHANGED <<delivered, pc, cur, quits>>
    BY <1>5 DEF HandleMessage, main
  <2>2. Len(msgChan'[s]) <= Len(msgChan[s]) /\ Len(msgChan'[s]) \in Int
    BY <2>1, <1>c, TailLen
  <2>3. (DrainDone(s) <=> DrainDone(s)') /\ (QuitMsgDone(s) <=> QuitMsgDone(s)')
    BY <2>1 DEF DrainDone, QuitMsgDone, quits
  <2> QED
    BY <1>b, <1>d, <1>e, <2>1, <2>2, <2>3 DEF One
<1>6. ASSUME NEW t \in Steps, NEW p \in Peers, GetMessage(p, t)
      PROVE  Len(msgChan'[s]) <= Cardinality(delivered'[s])
               + One(DrainDone(s)') + One(QuitMsgDone(s)')
  <2>1. /\ msgChan' = [msgChan EXCEPT ![t] = Append(@, p)]
        /\ delivered' = [delivered EXCEPT ![t] = @ \cup {p}]
        /\ p \notin delivered[t]
        /\ UNCHANGED <<pc, cur, quits>>
    BY <1>6 DEF GetMessage, SendMsg, main
  <2>2. /\ One(DrainDone(s)') = One(DrainDone(s))
        /\ One(QuitMsgDone(s)') = One(QuitMsgDone(s))
    BY <2>1 DEF DrainDone, QuitMsgDone, quits, One
  <2>3. Len(msgChan'[s]) = Len(msgChan[s]) + One(s = t)
    BY <2>1, <1>c, AppendLen DEF One
  <2>4. Cardinality(delivered'[s]) = Cardinality(delivered[s]) + One(s = t)
    <3>1. s = t => delivered'[s] = delivered[s] \cup {p}
      BY <2>1, <1>c
    <3>2. s # t => delivered'[s] = delivered[s]
      BY <2>1, <1>c
    <3> QED
      BY <2>1, <3>1, <3>2, <1>d DEF One
  <2>5. One(s = t) \in Nat
    BY DEF One
  <2> QED
    BY <1>b, <1>e, <1>f, <1>g, <2>2, <2>3, <2>4, <2>5
<1> QED
  BY ZenonT(60), <1>1, <1>2, <1>3, <1>4, <1>5, <1>6 DEF Next, Main, InitMessageLoop,
     InitStep, SendOwn, FinishOnResult, FinishOnTimeout, CalculateResult,
     QuitMain, QuitMpcContext, QuitLoop, QuitStepFinish, Terminated, vars,
     steps, chans

-----------------------------------------------------------------------------
\* InitMessageLoop starts each reader, once.
LEMMA StartStep == TypeOK /\ StartInv /\ [Next]_vars => StartInv'
<1> SUFFICES ASSUME TypeOK, StartInv, [Next]_vars, NEW s \in Steps
             PROVE  /\ reader'[s] = "none" => waiting'[s] = Wait[s]
                    /\ pc' = "loop" /\ s >= cur' => reader'[s] = "none"
  BY DEF StartInv
<1>a. /\ NSteps \in Nat \ {0}
      /\ cur \in 0..(NSteps - 1) /\ s \in 0..(NSteps - 1)
  BY ContextAssumption DEF ContextAssumption, TypeOK, Steps
<1>b. /\ waiting \in [Steps -> Nat]
      /\ reader \in [Steps -> {"none", "loop", "exited"}]
      /\ cur \in Steps
  BY DEF TypeOK
<1>c. /\ reader[s] = "none" => waiting[s] = Wait[s]
      /\ pc = "loop" /\ s >= cur => reader[s] = "none"
  BY DEF StartInv
<1>1. CASE InitMessageLoop
  BY <1>1, <1>a, <1>b, <1>c DEF InitMessageLoop
<1>2. ASSUME NEW t \in Steps, HandleMessage(t)
      PROVE  /\ reader'[s] = "none" => waiting'[s] = Wait[s]
             /\ pc' = "loop" /\ s >= cur' => reader'[s] = "none"
  <2>1. /\ reader[t] = "loop" /\ UNCHANGED <<pc, cur>>
        /\ reader' = reader \/ reader' = [reader EXCEPT ![t] = "exited"]
        /\ waiting' = waiting \/ waiting' = [waiting EXCEPT ![t] = @ - 1]
    BY <1>2 DEF HandleMessage, main
  <2> QED
    BY <2>1, <1>b, <1>c
<1>3. CASE UNCHANGED <<reader, waiting>> /\ (pc' # "loop" \/ UNCHANGED <<pc, cur>>)
  BY <1>3, <1>c
<1> QED
  BY ZenonT(60), <1>1, <1>2, <1>3 DEF Next, Main, InitStep, SendOwn, Fail,
     FinishOnResult, FinishOnTimeout, FinishStep, CalculateResult, QuitMain,
     QuitMpcContext, QuitLoop, QuitStepMsg, QuitStepFinish, GetMessage,
     Terminated, vars, steps, main

\* BaseStep.HandleMessage counts down by one for each new sender.
LEMMA CountStep == TypeOK /\ CountInv /\ [Next]_vars => CountInv'
<1> SUFFICES ASSUME TypeOK, CountInv, [Next]_vars, NEW s \in Steps
             PROVE  waiting'[s] + Cardinality(got'[s]) = Wait[s]
  BY DEF CountInv
<1>a. /\ waiting \in [Steps -> Nat] /\ got \in [Steps -> SUBSET Peers]
      /\ IsFiniteSet(Peers) /\ Wait \in [Steps -> Nat]
  BY ContextAssumption DEF ContextAssumption, TypeOK
<1>b. waiting[s] + Cardinality(got[s]) = Wait[s]
  BY DEF CountInv
<1>c. IsFiniteSet(got[s])
  BY <1>a, FS_Subset
<1>1. ASSUME NEW t \in Steps, HandleMessage(t)
      PROVE  waiting'[s] + Cardinality(got'[s]) = Wait[s]
  <2> DEFINE m == Head(msgChan[t])
  <2>1. \/ UNCHANGED <<waiting, got>>
        \/ /\ m \notin got[t]
           /\ got' = [got EXCEPT ![t] = @ \cup {m}]
           /\ waiting' = [waiting EXCEPT ![t] = @ - 1]
    BY <1>1 DEF HandleMessage, Accepts
  <2> HIDE DEF m
  <2>2. CASE UNCHANGED <<waiting, got>> \/ s # t
    BY <2>1, <2>2, <1>a, <1>b
  <2>3. CASE ~UNCHANGED <<waiting, got>> /\ s = t
    <3>1. /\ m \notin got[s] /\ got'[s] = got[s] \cup {m}
          /\ waiting'[s] = waiting[s] - 1
      BY <2>1, <2>3, <1>a
    <3>2. /\ Cardinality(got'[s]) = Cardinality(got[s]) + 1
          /\ Cardinality(got[s]) \in Nat
      BY <3>1, <1>c, FS_AddElement, FS_CardinalityType
    <3>3. waiting[s] \in Nat
      BY <1>a
    <3> QED
      BY <1>b, <3>1, <3>2, <3>3
  <2> QED
    BY <2>2, <2>3
<1>2. CASE UNCHANGED <<waiting, got>>
  BY <1>2, <1>b
<1> QED
  BY ZenonT(60), <1>1, <1>2 DEF Next, Main, InitMessageLoop, InitStep, SendOwn,
     FinishOnResult, FinishOnTimeout, FinishStep, CalculateResult, QuitMain,
     QuitMpcContext, QuitLoop, QuitStepMsg, QuitStepFinish, GetMessage,
     Terminated, vars, steps

-----------------------------------------------------------------------------
\* The four ways a step of the system touches a finish channel.
LEMMA FinishEffect ==
  ASSUME TypeOK, [Next]_vars
  PROVE  \/ UNCHANGED finish
         \/ /\ InitMessageLoop /\ waiting[cur] <= 0
            /\ finish' = [finish EXCEPT ![cur] = Append(@, "nil")]
         \/ /\ FinishOnResult
            /\ finish' = [finish EXCEPT ![cur] = Tail(@)]
         \/ /\ QuitStepFinish
            /\ finish' = [finish EXCEPT ![quitAt] = Append(@, quitErr)]
         \/ \E t \in Steps :
              /\ HandleMessage(t)
              /\ waiting[t] = 1 /\ waiting' = [waiting EXCEPT ![t] = @ - 1]
              /\ finish' = [finish EXCEPT ![t] = Append(@, "nil")]
<1>1. ASSUME NEW t \in Steps, HandleMessage(t)
      PROVE  \/ UNCHANGED finish
             \/ /\ waiting[t] = 1 /\ waiting' = [waiting EXCEPT ![t] = @ - 1]
                /\ finish' = [finish EXCEPT ![t] = Append(@, "nil")]
  <2>1. waiting[t] \in Nat
    BY DEF TypeOK
  <2> QED
    BY <1>1, <2>1 DEF HandleMessage, Accepts, SendFinish
<1> QED
  BY ZenonT(60), <1>1 DEF Next, Main, InitMessageLoop, InitStep, SendOwn, SendFinish,
     FinishOnResult, FinishOnTimeout, FinishStep, CalculateResult, QuitMain,
     QuitMpcContext, QuitLoop, QuitStepMsg, QuitStepFinish, GetMessage,
     Terminated, vars, chans

\* A completed collection stays complete, and so do a quit and its error.
LEMMA DoneStays ==
  ASSUME TypeOK, CtlInv, [Next]_vars, NEW s \in Steps
  PROVE  /\ waiting[s] = 0 => waiting'[s] = 0
         /\ NilDone(s) => NilDone(s)'
         /\ QuitFinDone(s) => QuitFinDone(s)'
         /\ quitter # "none" => quitter' # "none" /\ quitErr' = quitErr
<1>a. /\ NSteps \in Nat \ {0}
      /\ cur \in 0..(NSteps - 1) /\ s \in 0..(NSteps - 1)
      /\ quitAt \in 0..(NSteps - 1)
  BY ContextAssumption DEF ContextAssumption, TypeOK, Steps
<1>b. waiting \in [Steps -> Nat]
  BY DEF TypeOK
<1>1. waiting[s] = 0 => waiting'[s] = 0
  <2>1. ASSUME NEW t \in Steps, HandleMessage(t)
        PROVE  \/ waiting' = waiting
               \/ waiting[t] > 0 /\ waiting' = [waiting EXCEPT ![t] = @ - 1]
    BY <2>1 DEF HandleMessage, Accepts
  <2>2. \/ waiting' = waiting
        \/ \E t \in Steps :
             waiting[t] > 0 /\ waiting' = [waiting EXCEPT ![t] = @ - 1]
    BY ZenonT(60), <2>1 DEF Next, Main, InitMessageLoop, InitStep, SendOwn,
       FinishOnResult, FinishOnTimeout, FinishStep, CalculateResult, QuitMain,
       QuitMpcContext, QuitLoop, QuitStepMsg, QuitStepFinish, GetMessage,
       Terminated, vars, steps
  <2> QED
    BY <2>2, <1>b
<1>2. pc # "loop" \/ s < cur => pc' # "loop" \/ s < cur'
  <2>1. CASE InitMessageLoop
    BY <2>1, <1>a DEF InitMessageLoop
  <2>2. CASE ~InitMessageLoop
    BY ZenonT(60), <2>2 DEF Next, Main, InitStep, SendOwn, Fail,
       FinishOnResult, FinishOnTimeout, FinishStep, CalculateResult, QuitMain,
       QuitMpcContext, QuitLoop, QuitStepMsg, QuitStepFinish, GetMessage,
       HandleMessage, Terminated, vars, main
  <2> QED
    BY <2>1, <2>2
<1>3. /\ QuitFinDone(s) => QuitFinDone(s)'
      /\ quitter # "none" => quitter' # "none" /\ quitErr' = quitErr
  <2>1. CASE QuitMain \/ QuitMpcContext \/ QuitLoop
    BY <1>a, <2>1 DEF QuitFinDone, QuitMain, QuitMpcContext, StartQuit,
       QuitLoop, QuitStepMsg, QuitStepFinish, quits
  <2>2. CASE UNCHANGED quits
    BY <2>2 DEF QuitFinDone, quits
  <2> QED
    BY ZenonT(60), <2>1, <2>2 DEF Next, Main, InitMessageLoop, InitStep, SendOwn,
       FinishOnResult, FinishOnTimeout, FinishStep, CalculateResult,
       Terminated, HandleMessage, GetMessage, vars
<1> QED
  BY <1>1, <1>2, <1>3 DEF NilDone

\* finish holds at most one nil for the collection and one entry from Quit.
LEMMA FinStep ==
  TypeOK /\ CtlInv /\ StartInv /\ CountInv /\ FinInv /\ [Next]_vars => FinInv'
<1> SUFFICES ASSUME TypeOK, CtlInv, StartInv, CountInv, FinInv, [Next]_vars,
                    NEW s \in Steps
             PROVE  Len(finish'[s]) <= One(NilDone(s)') + One(QuitFinDone(s)')
  BY DEF FinInv
<1>a. /\ NSteps \in Nat \ {0}
      /\ cur \in 0..(NSteps - 1) /\ s \in 0..(NSteps - 1)
      /\ quitAt \in 0..(NSteps - 1)
  BY ContextAssumption DEF ContextAssumption, TypeOK, Steps
<1>b. /\ finish \in [Steps -> Seq({"nil", "err"})] /\ waiting \in [Steps -> Nat]
      /\ Wait \in [Steps -> Nat]
      /\ cur \in Steps /\ quitAt \in Steps /\ quitErr \in {"nil", "err"}
  BY ContextAssumption DEF ContextAssumption, TypeOK
<1>c. Len(finish[s]) <= One(NilDone(s)) + One(QuitFinDone(s))
  BY DEF FinInv
<1>d. Len(finish[s]) \in Nat
  BY <1>b
<1>e. (NilDone(s) => NilDone(s)') /\ (QuitFinDone(s) => QuitFinDone(s)')
  BY DoneStays
<1>1. CASE finish'[s] = finish[s]
  BY <1>1, <1>c, <1>d, <1>e DEF One
<1>2. CASE /\ InitMessageLoop /\ waiting[cur] <= 0 /\ s = cur
           /\ finish' = [finish EXCEPT ![cur] = Append(@, "nil")]
  <2>1. Len(finish'[s]) = Len(finish[s]) + 1
    BY <1>2, <1>b, AppendLen
  <2>2. waiting[s] = 0 /\ Wait[s] = 0 /\ pc = "loop" /\ waiting' = waiting
    BY <1>2, <1>a, <1>b DEF StartInv, InitMessageLoop
  <2>3. ~NilDone(s) /\ NilDone(s)'
    BY <1>2, <1>a, <2>2 DEF NilDone, InitMessageLoop
  <2> QED
    BY <1>c, <1>d, <1>e, <2>1, <2>3 DEF One
<1>3. CASE /\ FinishOnResult /\ s = cur
           /\ finish' = [finish EXCEPT ![cur] = Tail(@)]
  <2>1. Len(finish'[s]) = Len(finish[s]) - 1
    BY <1>3, <1>b, TailLen DEF FinishOnResult
  <2> QED
    BY <1>c, <1>d, <1>e, <2>1 DEF One
<1>4. CASE /\ QuitStepFinish /\ s = quitAt
           /\ finish' = [finish EXCEPT ![quitAt] = Append(@, quitErr)]
  <2>1. Len(finish'[s]) = Len(finish[s]) + 1
    BY <1>4, <1>b, AppendLen
  <2>2. ~QuitFinDone(s) /\ QuitFinDone(s)'
    BY <1>4, <1>a DEF QuitFinDone, QuitStepFinish
  <2> QED
    BY <1>c, <1>d, <1>e, <2>1, <2>2 DEF One
<1>5. CASE /\ HandleMessage(s) /\ waiting[s] = 1
           /\ waiting' = [waiting EXCEPT ![s] = @ - 1]
           /\ finish' = [finish EXCEPT ![s] = Append(@, "nil")]
  <2>1. Len(finish'[s]) = Len(finish[s]) + 1
    BY <1>5, <1>b, AppendLen
  <2>2. waiting'[s] = 0
    BY <1>5, <1>b
  <2>3. reader[s] = "loop" /\ UNCHANGED <<pc, cur>>
    BY <1>5 DEF HandleMessage, main
  <2>4. pc # "loop" \/ s < cur
    BY <2>3, <1>a DEF StartInv
  <2>5. ~NilDone(s) /\ NilDone(s)'
    BY <1>5, <2>2, <2>3, <2>4 DEF NilDone
  <2> QED
    BY <1>c, <1>d, <1>e, <2>1, <2>5 DEF One
<1>6. finish'[s] = finish[s] \/ <1>2!1 \/ <1>3!1 \/ <1>4!1 \/ <1>5!1
  BY ZenonT(60), FinishEffect, <1>b
<1> QED
  BY <1>1, <1>2, <1>3, <1>4, <1>5, <1>6

-----------------------------------------------------------------------------
\* The entries of a channel after a send and after a receive.
LEMMA AppendElem ==
  ASSUME NEW S, NEW q \in Seq(S), NEW e \in S,
         NEW i \in 1..Len(Append(q, e))
  PROVE  (i \in 1..Len(q) /\ Append(q, e)[i] = q[i]) \/ Append(q, e)[i] = e
OBVIOUS

\* What is left on a channel was on it before, one place further back.
LEMMA TailElem ==
  ASSUME NEW S, NEW q \in Seq(S), q # <<>>, NEW i \in 1..Len(Tail(q))
  PROVE  i + 1 \in 1..Len(q) /\ Tail(q)[i] = q[i + 1]
OBVIOUS

\* A nil on finish means that the step has all it waits for, unless it comes
\* from the quit(nil) at the end of mainMPCProcess.
LEMMA NilStep == TypeOK /\ CtlInv /\ NilInv /\ [Next]_vars => NilInv'
<1> DEFINE Covered(s) == waiting[s] = 0 \/ (quitter # "none" /\ quitErr = "nil")
<1> SUFFICES ASSUME TypeOK, CtlInv, NilInv, [Next]_vars, NEW s \in Steps,
                    NEW i \in 1..Len(finish'[s]), finish'[s][i] = "nil"
             PROVE  Covered(s)'
  BY DEF NilInv
<1>a. /\ finish \in [Steps -> Seq({"nil", "err"})] /\ waiting \in [Steps -> Nat]
      /\ cur \in Steps /\ quitAt \in Steps /\ quitErr \in {"nil", "err"}
  BY DEF TypeOK
<1>b. ASSUME NEW j \in 1..Len(finish[s]), finish[s][j] = "nil"
      PROVE  Covered(s)'
  BY <1>b, DoneStays DEF NilInv
<1>c. finish[s] \in Seq({"nil", "err"})
  BY <1>a
<1>1. CASE finish'[s] = finish[s]
  BY <1>1, <1>b
<1>2. CASE /\ InitMessageLoop /\ waiting[cur] <= 0 /\ s = cur
           /\ finish' = [finish EXCEPT ![cur] = Append(@, "nil")]
  <2>1. waiting[s] = 0
    BY <1>2, <1>a
  <2> QED
    BY <2>1, DoneStays
<1>3. CASE /\ FinishOnResult /\ s = cur
           /\ finish' = [finish EXCEPT ![cur] = Tail(@)]
  <2>1. finish[s] # <<>> /\ finish'[s] = Tail(finish[s])
    BY <1>3, <1>a DEF FinishOnResult
  <2>2. i + 1 \in 1..Len(finish[s]) /\ finish[s][i + 1] = "nil"
    BY <2>1, <1>c, TailElem
  <2> QED
    BY <2>2, <1>b
<1>4. CASE /\ QuitStepFinish /\ s = quitAt
           /\ finish' = [finish EXCEPT ![quitAt] = Append(@, quitErr)]
  <2>1. finish'[s] = Append(finish[s], quitErr)
    BY <1>4, <1>a
  <2>2. CASE i \in 1..Len(finish[s]) /\ finish[s][i] = "nil"
    BY <2>2, <1>b
  <2>3. CASE quitErr = "nil"
    BY <2>3, <1>4 DEF QuitStepFinish
  <2> QED
    BY <2>1, <2>2, <2>3, <1>a, <1>c, AppendElem
<1>5. CASE /\ HandleMessage(s) /\ waiting[s] = 1
           /\ waiting' = [waiting EXCEPT ![s] = @ - 1]
           /\ finish' = [finish EXCEPT ![s] = Append(@, "nil")]
  BY <1>5, <1>a
<1>6. finish'[s] = finish[s] \/ <1>2!1 \/ <1>3!1 \/ <1>4!1 \/ <1>5!1
  BY ZenonT(60), FinishEffect, <1>a
<1> QED
  BY <1>1, <1>2, <1>3, <1>4, <1>5, <1>6

\* What Quit puts on finish stays there until FinishStep takes it.
LEMMA WakeStep == TypeOK /\ CtlInv /\ WakeInv /\ [Next]_vars => WakeInv'
<1> SUFFICES ASSUME TypeOK, CtlInv, WakeInv, [Next]_vars, NEW s \in Steps,
                    QuitFinDone(s)', Ahead(s)'
             PROVE  finish'[s] # <<>>
  BY DEF WakeInv
<1>a. /\ NSteps \in Nat \ {0}
      /\ cur \in 0..(NSteps - 1) /\ s \in 0..(NSteps - 1)
      /\ quitAt \in 0..(NSteps - 1)
  BY ContextAssumption DEF ContextAssumption, TypeOK, Steps
<1>b. /\ finish \in [Steps -> Seq({"nil", "err"})]
      /\ cur \in Steps /\ quitAt \in Steps /\ quitErr \in {"nil", "err"}
      /\ quitter \in {"none", "main", "peer", "over"}
      /\ pc \in {"loop", "init", "send", "finish", "drain", "check",
                 "quit", "quitting", "done"}
  BY DEF TypeOK
<1>c. \A e \in {"nil", "err"} : Append(finish[s], e) # <<>>
  <2>1. finish[s] \in Seq({"nil", "err"})
    BY <1>b
  <2> QED
    BY <2>1
<1>1. Ahead(s)
  <2>1. CASE Main
    <3>1. CASE InitMessageLoop
      BY <1>a, <1>b, <3>1 DEF Ahead, InitMessageLoop
    <3>2. CASE InitStep \/ SendOwn
      BY <1>a, <1>b, <3>2 DEF Ahead, InitStep, Fail, SendOwn
    <3>3. CASE FinishOnResult \/ FinishOnTimeout
      BY <1>a, <1>b, <3>3 DEF Ahead, FinishOnResult, FinishOnTimeout
    <3>4. CASE FinishStep
      BY <1>a, <1>b, <3>4 DEF Ahead, FinishStep, Fail
    <3>5. CASE CalculateResult
      BY <1>a, <1>b, <3>5 DEF Ahead, CalculateResult, Fail
    <3>6. CASE QuitMain
      BY <1>a, <1>b, <3>6 DEF Ahead, QuitMain
    <3> QED
      BY <2>1, <3>1, <3>2, <3>3, <3>4, <3>5, <3>6 DEF Main
  <2>2. CASE QuitMpcContext \/ QuitLoop
    BY ZenonT(60), <1>a, <2>2 DEF Ahead, QuitMpcContext, QuitLoop, QuitStepMsg,
       QuitStepFinish, main
  <2>3. CASE UNCHANGED main
    BY <2>3 DEF Ahead, main
  <2> QED
    BY <2>1, <2>2, <2>3 DEF Next, HandleMessage, GetMessage, Terminated, vars
<1>2. CASE QuitStepFinish /\ s = quitAt
  BY <1>2, <1>b, <1>c DEF QuitStepFinish, SendFinish
<1>3. CASE ~(QuitStepFinish /\ s = quitAt)
  <2>1. QuitFinDone(s)
    <3>1. CASE QuitMain \/ QuitMpcContext \/ QuitLoop
      BY <1>a, <1>b, <1>3, <3>1 DEF QuitFinDone, QuitMain, QuitMpcContext,
         StartQuit, QuitLoop, QuitStepMsg, QuitStepFinish, quits
    <3>2. CASE UNCHANGED quits
      BY <3>2 DEF QuitFinDone, quits
    <3> QED
      BY ZenonT(60), <3>1, <3>2 DEF Next, Main, InitMessageLoop, InitStep, SendOwn,
         FinishOnResult, FinishOnTimeout, FinishStep, CalculateResult,
         Terminated, HandleMessage, GetMessage, vars
  <2>2. finish[s] # <<>>
    BY <2>1, <1>1 DEF WakeInv
  <2>3. CASE FinishOnResult
    <3>1. s # cur
      BY <2>3, <1>a DEF FinishOnResult, Ahead
    <3> QED
      BY <2>2, <2>3, <3>1, <1>b DEF FinishOnResult
  <2>4. CASE ~FinishOnResult
    <3>1. \/ finish'[s] = finish[s]
          \/ \E e \in {"nil", "err"} : finish'[s] = Append(finish[s], e)
      BY <2>4, FinishEffect, <1>b
    <3> QED
      BY <2>2, <3>1, <1>c
  <2> QED
    BY <2>3, <2>4
<1> QED
  BY <1>2, <1>3

\* FinishStep of a wait-for-all step returns nil only on a complete collection.
LEMMA PassStep == TypeOK /\ CtlInv /\ NilInv /\ PassInv /\ [Next]_vars => PassInv'
<1> SUFFICES ASSUME TypeOK, CtlInv, NilInv, PassInv, [Next]_vars, WaitAll,
                    NEW s \in Steps, Passed(s)'
             PROVE  waiting'[s] = 0
  BY DEF PassInv
<1>a. /\ NSteps \in Nat \ {0}
      /\ cur \in 0..(NSteps - 1) /\ s \in 0..(NSteps - 1)
  BY ContextAssumption DEF ContextAssumption, TypeOK, Steps
<1>b. /\ finish \in [Steps -> Seq({"nil", "err"})] /\ cur \in Steps
      /\ pc \in {"loop", "init", "send", "finish", "drain", "check",
                 "quit", "quitting", "done"}
      /\ quitter \in {"none", "main", "peer", "over"}
  BY DEF TypeOK
<1>c. Passed(s) => waiting'[s] = 0
  BY DoneStays DEF PassInv
<1>1. CASE FinishOnResult /\ s = cur
  <2>1. /\ pc = "finish" /\ finish[s] # <<>> /\ Head(finish[s]) = "nil"
    BY <1>1, <1>a DEF FinishOnResult, Passed
  <2>2. 1 \in 1..Len(finish[s]) /\ finish[s][1] = "nil"
    BY <2>1, <1>b
  <2>3. ~(quitter # "none" /\ quitErr = "nil")
    BY <2>1 DEF CtlInv
  <2>4. waiting[s] = 0
    BY <2>2, <2>3 DEF NilInv
  <2> QED
    BY <2>4, DoneStays
<1>2. CASE ~(FinishOnResult /\ s = cur)
  <2>1. CASE Main
    <3>1. CASE InitMessageLoop
      BY <1>a, <1>c, <3>1 DEF Passed, InitMessageLoop
    <3>2. CASE InitStep \/ SendOwn
      BY <1>a, <1>c, <3>2 DEF Passed, InitStep, Fail, SendOwn
    <3>3. CASE FinishOnResult
      BY <1>a, <1>c, <1>2, <3>3 DEF Passed, FinishOnResult
    <3>4. CASE FinishOnTimeout
      BY <1>a, <1>c, <3>4 DEF Passed, FinishOnTimeout, TimeoutErr
    <3>5. CASE FinishStep
      BY <1>a, <1>c, <3>5 DEF Passed, FinishStep, Fail
    <3>6. CASE CalculateResult
      BY <1>a, <1>c, <3>6 DEF Passed, CalculateResult, Fail, CtlInv
    <3>7. CASE QuitMain
      BY <1>a, <1>c, <3>7 DEF Passed, QuitMain
    <3> QED
      BY <2>1, <3>1, <3>2, <3>3, <3>4, <3>5, <3>6, <3>7 DEF Main
  <2>2. CASE QuitMpcContext \/ QuitLoop
    BY ZenonT(60), <1>a, <1>b, <1>c, <2>2 DEF Passed, QuitMpcContext, QuitLoop,
       QuitStepMsg, QuitStepFinish, main, CtlInv
  <2>3. CASE UNCHANGED main
    BY <2>3, <1>c DEF Passed, main
  <2> QED
    BY <2>1, <2>2, <2>3 DEF Next, HandleMessage,
       GetMessage, Terminated, vars
<1> QED
  BY <1>1, <1>2

-----------------------------------------------------------------------------
\* The inductive invariant holds of every context.
THEOREM Invariance == Spec => []IInv
<1>1. Init => IInv
  <2> SUFFICES ASSUME Init PROVE IInv
    OBVIOUS
  <2>a. /\ NSteps \in Nat \ {0} /\ Wait \in [Steps -> Nat] /\ 0 \in Steps
    BY ContextAssumption DEF ContextAssumption, Steps
  <2>1. TypeOK
    BY <2>a DEF Init, CreateBaseStep, TypeOK
  <2>2. CtlInv /\ OwnInv
    BY DEF Init, CreateBaseStep, CtlInv, OwnInv
  <2>3. MsgInv /\ FinInv /\ CountInv
    <3>1. \A s \in Steps : /\ Len(msgChan[s]) = 0 /\ Len(finish[s]) = 0
                           /\ delivered[s] = {} /\ got[s] = {}
                           /\ waiting[s] = Wait[s] /\ Wait[s] \in Nat
      BY <2>a DEF Init, CreateBaseStep
    <3>2. \A s \in Steps : Cardinality(delivered[s]) = 0 /\ Cardinality(got[s]) = 0
      <4>1. Cardinality({}) = 0
        BY FS_EmptySet
      <4> QED
        BY <3>1, <4>1, ZenonT(60)
    <3>3. \A s \in Steps :
            /\ One(DrainDone(s)) \in Nat /\ One(QuitMsgDone(s)) \in Nat
            /\ One(NilDone(s)) \in Nat /\ One(QuitFinDone(s)) \in Nat
      BY DEF One
    <3>4. MsgInv
      BY <3>1, <3>2, <3>3 DEF MsgInv
    <3>5. FinInv
      BY <3>1, <3>3 DEF FinInv
    <3>6. CountInv
      BY <3>1, <3>2 DEF CountInv
    <3> QED
      BY <3>4, <3>5, <3>6
  <2>4. StartInv /\ NilInv /\ WakeInv /\ PassInv
    BY DEF Init, CreateBaseStep, StartInv, NilInv, WakeInv, PassInv,
       QuitFinDone, Passed
  <2> QED
    BY <2>1, <2>2, <2>3, <2>4 DEF IInv
<1>2. IInv /\ [Next]_vars => IInv'
  BY TypeStep, CtlStep, OwnStep, MsgStep, FinStep, StartStep, CountStep,
     NilStep, WakeStep, PassStep DEF IInv
<1> QED
  BY <1>1, <1>2, PTL DEF Spec

\* Every variable of a context keeps its type (TypeOK of the runs).
THEOREM TypeCorrect == Spec => []TypeOK
<1>1. IInv => TypeOK
  BY DEF IInv
<1> QED
  BY <1>1, Invariance, PTL

\* The capacities len(peers)+3 and 3 of CreateBaseStep suffice for any group:
\* no goroutine of a context ever blocks on a send (SendsNeverBlock).
THEOREM NoBlocking == Spec => []SendsNeverBlock
<1>1. IInv => SendsNeverBlock
  <2> SUFFICES ASSUME IInv, NEW s \in Steps
               PROVE  Len(msgChan[s]) < MsgCap /\ Len(finish[s]) < FinishCap
    BY DEF SendsNeverBlock
  <2>1. /\ TypeOK
        /\ Len(msgChan[s]) <= Cardinality(delivered[s])
             + One(DrainDone(s)) + One(QuitMsgDone(s))
        /\ Len(finish[s]) <= One(NilDone(s)) + One(QuitFinDone(s))
    BY DEF IInv, MsgInv, FinInv
  <2>2. /\ Cardinality(delivered[s]) \in Nat
        /\ Cardinality(delivered[s]) <= Cardinality(Peers)
    BY <2>1, DeliveredCard
  <2>3. Len(msgChan[s]) \in Nat /\ Len(finish[s]) \in Nat
    BY <2>1 DEF TypeOK
  <2>4. Cardinality(Peers) \in Nat
    BY ContextAssumption, FS_CardinalityType DEF ContextAssumption
  <2>5. /\ One(DrainDone(s)) \in 0..1 /\ One(QuitMsgDone(s)) \in 0..1
        /\ One(NilDone(s)) \in 0..1 /\ One(QuitFinDone(s)) \in 0..1
    BY DEF One
  <2> QED
    BY <2>1, <2>2, <2>3, <2>4, <2>5 DEF MsgCap, FinishCap
<1> QED
  BY <1>1, Invariance, PTL

\* A wait-for-all step that is over without an error holds exactly the number
\* of messages it was created to wait for (PassedStepIsComplete).
THEOREM Completeness == Spec => []PassedStepIsComplete
<1>1. IInv => PassedStepIsComplete
  <2> SUFFICES ASSUME IInv, WaitAll, NEW s \in Steps, Passed(s)
               PROVE  Cardinality(got[s]) = Wait[s]
    BY DEF PassedStepIsComplete
  <2>1. waiting[s] = 0 /\ waiting[s] + Cardinality(got[s]) = Wait[s]
    BY DEF IInv, PassInv, CountInv
  <2>2. Cardinality(got[s]) \in Nat
    <3>1. got[s] \subseteq Peers /\ IsFiniteSet(Peers)
      BY ContextAssumption DEF IInv, TypeOK, ContextAssumption
    <3> QED
      BY <3>1, FS_Subset, FS_CardinalityType
  <2> QED
    BY <2>1, <2>2
<1> QED
  BY <1>1, Invariance, PTL

\* After FinishStep has returned nil in a wait-for-all context, no late message
\* changes what the step collected (PassedStepIsFrozen).
THEOREM Frozen == Spec => PassedStepIsFrozen
<1>1. IInv /\ [Next]_vars
        => [WaitAll => \A s \in Steps : Passed(s) => got'[s] = got[s]]_vars
  <2> SUFFICES ASSUME IInv, [Next]_vars, WaitAll, NEW s \in Steps, Passed(s)
               PROVE  got'[s] = got[s]
    OBVIOUS
  <2>1. waiting[s] = 0 /\ got \in [Steps -> SUBSET Peers]
    BY DEF IInv, PassInv, TypeOK
  <2>2. ASSUME NEW t \in Steps, HandleMessage(t)
        PROVE  \/ got' = got
               \/ waiting[t] > 0 /\ \E m : got' = [got EXCEPT ![t] = @ \cup {m}]
    BY ZenonT(60), <2>2 DEF HandleMessage, Accepts
  <2>3. \/ got' = got
        \/ \E t \in Steps :
             waiting[t] > 0 /\ \E m : got' = [got EXCEPT ![t] = @ \cup {m}]
    BY ZenonT(60), <2>2 DEF Next, Main, InitMessageLoop, InitStep, SendOwn,
       FinishOnResult, FinishOnTimeout, FinishStep, CalculateResult, QuitMain,
       QuitMpcContext, QuitLoop, QuitStepMsg, QuitStepFinish, GetMessage,
       Terminated, vars, steps
  <2> QED
    BY <2>1, <2>3
<1> QED
  BY <1>1, Invariance, PTL DEF Spec, PassedStepIsFrozen

\* Once quit is over, FinishStep of the current and of every later step finds
\* an entry on finish and does not wait (QuitWakesEveryStep).
THEOREM QuitWakes == Spec => []QuitWakesEveryStep
<1>1. IInv => QuitWakesEveryStep
  BY DEF IInv, WakeInv, QuitFinDone, Ahead, QuitWakesEveryStep
<1> QED
  BY <1>1, Invariance, PTL
=============================================================================
