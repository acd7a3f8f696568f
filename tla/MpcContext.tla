----------------------------- MODULE MpcContext -----------------------------
(***************************************************************************)
(* One MPC context on one node: the step engine of                         *)
(* storemanmpc/step/mpc_base_step.go and storemanmpc/mpc_context.go.       *)
(*                                                                         *)
(* A context runs a fixed list of steps.  Each step owns two buffered Go   *)
(* channels: msgChan, filled by the goroutines that bring messages in, and *)
(* finish, on which somebody tells the main goroutine that the step is     *)
(* over.  Three kinds of goroutines work on them at once:                  *)
(*   - the main goroutine (mainMPCProcess), which walks through the steps; *)
(*   - one reader per step that waits for messages (InitMessageLoop);      *)
(*   - goroutines of the distributor that deliver a message (getMessage)   *)
(*     or an MPCError (quit).                                              *)
(* A channel is a sequence; a send to a full channel is not enabled.       *)
(***************************************************************************)
EXTENDS Integers, Sequences, FiniteSets

CONSTANTS
  Peers,      \* mpc.peers: every node of the group, this one included
  Self,       \* this node
  NSteps,     \* len(mpc.MpcSteps)
  Wait,       \* step.waiting of every step when the context is created
  Senders,    \* who sends a message of the step to this node
  WaitAll,    \* step.waitAll: TRUE for a GPK context, FALSE for a signing one
  NilMsg      \* the nil *StepMessage that ends a reader

Steps == 0..(NSteps - 1)

ASSUME ContextAssumption ==
  /\ IsFiniteSet(Peers)
  /\ Self \in Peers
  /\ NilMsg \notin Peers
  /\ NSteps \in Nat \ {0}
  /\ Wait \in [Steps -> Nat]
  /\ Senders \in [Steps -> SUBSET Peers]
  /\ WaitAll \in BOOLEAN

VARIABLES
  msgChan,    \* [Steps -> Seq(Peers \cup {NilMsg})]: a message is its sender
  finish,     \* [Steps -> Seq({"nil", "err"})]
  waiting,    \* [Steps -> Int]
  got,        \* [Steps -> SUBSET Peers]: senders in the step's message map
  reader,     \* [Steps -> {"none", "loop", "exited"}]
  delivered,  \* [Steps -> SUBSET Peers]: messages sent to msgChan so far
  pc,         \* where mainMPCProcess is
  cur,        \* its loop index
  stepErr,    \* what BaseStep.FinishStep is about to return
  mpcErr,     \* what mainMPCProcess is about to return
  quitter,    \* bQuit and quitMu: "none" while bQuit is false, then the
              \* goroutine that runs quit, "main" or "peer", then "over"
  quitErr,    \* the argument of that quit
  quitAt,     \* its loop index
  quitOp      \* its next send to step quitAt: to "msgChan" or to "finish"

chans == <<msgChan, finish>>
steps == <<waiting, got, reader, delivered>>
main  == <<pc, cur, stepErr, mpcErr>>
quits == <<quitter, quitErr, quitAt, quitOp>>
vars  == <<chans, steps, main, quits>>

\* Mutant: the message channel has room for one message of every peer only.
MsgCapPeersOnly == Cardinality(Peers)

\* The capacities CreateBaseStep gives the two channels.
MsgCap    == Cardinality(Peers) + 3
FinishCap == 3

\* A Go send on a buffered channel: blocks while the buffer is full.
SendMsg(s, m) ==
  /\ Len(msgChan[s]) < MsgCap
  /\ msgChan' = [msgChan EXCEPT ![s] = Append(@, m)]

SendFinish(s, e) ==
  /\ Len(finish[s]) < FinishCap
  /\ finish' = [finish EXCEPT ![s] = Append(@, e)]

-----------------------------------------------------------------------------
\* CreateBaseStep of every step, createMpcContext and setMpcStep.
CreateBaseStep ==
  /\ msgChan   = [s \in Steps |-> <<>>]
  /\ finish    = [s \in Steps |-> <<>>]
  /\ waiting   = Wait
  /\ got       = [s \in Steps |-> {}]
  /\ reader    = [s \in Steps |-> "none"]
  /\ delivered = [s \in Steps |-> {}]

Init ==
  /\ CreateBaseStep
  /\ pc = "loop" /\ cur = 0 /\ stepErr = "nil" /\ mpcErr = "nil"
  /\ quitter = "none" /\ quitErr = "nil" /\ quitAt = 0 /\ quitOp = "msgChan"

-----------------------------------------------------------------------------
(* The main goroutine: mainMPCProcess.                                     *)

\* InitMessageLoop of the next step: a step that waits for nobody is over at
\* once and gets no reader.
InitMessageLoop ==
  /\ pc = "loop"
  /\ \/ /\ waiting[cur] <= 0
        /\ SendFinish(cur, "nil")
        /\ UNCHANGED reader
     \/ /\ waiting[cur] > 0
        /\ reader' = [reader EXCEPT ![cur] = "loop"]
        /\ UNCHANGED finish
  /\ \/ cur < NSteps - 1 /\ cur' = cur + 1 /\ pc' = "loop"
     \/ cur = NSteps - 1 /\ cur' = 0       /\ pc' = "init"
  /\ UNCHANGED <<msgChan, waiting, got, delivered, stepErr, mpcErr, quits>>

\* The loop over the steps ends with an error; the MPCError broadcast that
\* follows is not delivered to the node itself (getOwnerP2pMessage).
Fail ==
  /\ mpcErr' = "err"
  /\ pc' = "quit"
  /\ UNCHANGED <<cur, stepErr>>

\* InitStep, which may fail.
InitStep ==
  /\ pc = "init"
  /\ \/ pc' = "send" /\ UNCHANGED <<cur, stepErr, mpcErr>>
     \/ Fail
  /\ UNCHANGED <<chans, steps, quits>>

\* CreateMessage and its delivery.  The node's own copy goes straight into
\* its own channel (P2pMessage / BroadcastMessage, getOwnerP2pMessage).
SendOwn ==
  /\ pc = "send"
  /\ pc' = "finish"
  /\ \/ /\ Self \in Senders[cur]
        /\ SendMsg(cur, Self)
        /\ delivered' = [delivered EXCEPT ![cur] = @ \cup {Self}]
     \/ /\ Self \notin Senders[cur]
        /\ UNCHANGED <<msgChan, delivered>>
  /\ UNCHANGED <<finish, waiting, got, reader, cur, stepErr, mpcErr, quits>>

\* Mutants: waitAll is ignored; the timeout serves best-effort steps only; the
\* error received from finish is only logged.
TimeoutErrIgnoresWaitAll == "nil"

FinishOnTimeoutBestEffortOnly ==
  /\ pc = "finish"
  /\ finish[cur] = <<>>
  /\ ~WaitAll
  /\ stepErr' = "nil"
  /\ pc' = "drain"
  /\ UNCHANGED <<chans, steps, cur, mpcErr, quits>>

FinishOnResultDropsError ==
  /\ pc = "finish"
  /\ finish[cur] # <<>>
  /\ stepErr' = "nil"
  /\ finish' = [finish EXCEPT ![cur] = Tail(@)]
  /\ pc' = "drain"
  /\ UNCHANGED <<msgChan, steps, cur, mpcErr, quits>>

\* The select of BaseStep.FinishStep.  The timer is started by the select
\* itself, so it can only win while nothing is queued on finish.
TimeoutErr == IF WaitAll THEN "err" ELSE "nil"

FinishOnResult ==
  /\ pc = "finish"
  /\ finish[cur] # <<>>
  /\ stepErr' = Head(finish[cur])
  /\ finish' = [finish EXCEPT ![cur] = Tail(@)]
  /\ pc' = "drain"
  /\ UNCHANGED <<msgChan, steps, cur, mpcErr, quits>>

FinishOnTimeout ==
  /\ pc = "finish"
  /\ finish[cur] = <<>>
  /\ stepErr' = TimeoutErr
  /\ pc' = "drain"
  /\ UNCHANGED <<chans, steps, cur, mpcErr, quits>>

\* step.msgChan <- nil, then the return to the step's own FinishStep.
FinishStep ==
  /\ pc = "drain"
  /\ SendMsg(cur, NilMsg)
  /\ \/ stepErr = "nil" /\ pc' = "check" /\ UNCHANGED <<cur, stepErr, mpcErr>>
     \/ stepErr # "nil" /\ Fail
  /\ UNCHANGED <<finish, steps, quits>>

\* Mutant: the loop over the steps runs once too often.
CalculateResultOneMore ==
  /\ pc = "check"
  /\ \/ /\ cur < NSteps
        /\ cur' = cur + 1
        /\ pc' = "init"
        /\ UNCHANGED <<stepErr, mpcErr>>
     \/ Fail
  /\ UNCHANGED <<chans, steps, quits>>

\* calculateResult and the step's own checks, which may fail; then the next
\* step, or the end of the loop.
CalculateResult ==
  /\ pc = "check"
  /\ \/ /\ cur < NSteps - 1
        /\ cur' = cur + 1
        /\ pc' = "init"
        /\ UNCHANGED <<stepErr, mpcErr>>
     \/ /\ cur = NSteps - 1
        /\ pc' = "quit"
        /\ UNCHANGED <<cur, stepErr, mpcErr>>
     \/ Fail
  /\ UNCHANGED <<chans, steps, quits>>

-----------------------------------------------------------------------------
(* quit, called once by the main goroutine with nil and by the handler of  *)
(* every MPCError with an error; quitMu lets one of them in at a time.     *)

\* Mutants: quit starts at the current step; Quit does not wake the reader.
StartQuitAtCurrent(who, err) ==
  /\ quitter = "none"
  /\ quitter' = who
  /\ quitErr' = err
  /\ quitAt' = cur
  /\ quitOp' = "msgChan"

QuitStepMsgSilent ==
  /\ quitter \in {"main", "peer"}
  /\ quitOp = "msgChan"
  /\ quitOp' = "finish"
  /\ UNCHANGED <<msgChan, finish, steps, main, quitter, quitErr, quitAt>>

StartQuit(who, err) ==
  /\ quitter = "none"
  /\ quitter' = who
  /\ quitErr' = err
  /\ quitAt' = 0
  /\ quitOp' = "msgChan"

\* mpcCtx.quit(nil) at the end of mainMPCProcess.
QuitMain ==
  /\ pc = "quit"
  /\ \/ StartQuit("main", "nil") /\ pc' = "quitting"
     \/ quitter = "over" /\ pc' = "done" /\ UNCHANGED quits
  /\ UNCHANGED <<chans, steps, cur, stepErr, mpcErr>>

\* QuitMpcContext: an MPCError of a peer, before the first step or after the
\* last one included.  Once bQuit is set the call changes nothing.
QuitMpcContext ==
  /\ StartQuit("peer", "err")
  /\ UNCHANGED <<chans, steps, main>>

\* BaseStep.Quit of step quitAt, first send.
QuitStepMsg ==
  /\ quitter \in {"main", "peer"}
  /\ quitOp = "msgChan"
  /\ SendMsg(quitAt, NilMsg)
  /\ quitOp' = "finish"
  /\ UNCHANGED <<finish, steps, main, quitter, quitErr, quitAt>>

\* BaseStep.Quit of step quitAt, second send; after the last step the lock is
\* released and the main goroutine, if it is the caller, returns.
QuitStepFinish ==
  /\ quitter \in {"main", "peer"}
  /\ quitOp = "finish"
  /\ SendFinish(quitAt, quitErr)
  /\ quitOp' = "msgChan"
  /\ \/ /\ quitAt < NSteps - 1
        /\ quitAt' = quitAt + 1
        /\ UNCHANGED <<quitter, pc>>
     \/ /\ quitAt = NSteps - 1
        /\ quitter' = "over"
        /\ pc' = IF quitter = "main" THEN "done" ELSE pc
        /\ UNCHANGED quitAt
  /\ UNCHANGED <<msgChan, steps, cur, stepErr, mpcErr, quitErr>>

-----------------------------------------------------------------------------
(* Delivery and the readers.                                               *)

\* getMessage: the message of another peer reaches msgChan.  The goroutine
\* that brings it looked the context up earlier, so it may come after the end.
GetMessage(p, s) ==
  /\ p \in Senders[s] \ ({Self} \cup delivered[s])
  /\ SendMsg(s, p)
  /\ delivered' = [delivered EXCEPT ![s] = @ \cup {p}]
  /\ UNCHANGED <<finish, waiting, got, reader, main, quits>>

\* The test of BaseStep.HandleMessage, with the step's own HandleMessage, which
\* refuses a sender the second time.
Accepts(s, m) == waiting[s] > 0 /\ m \notin got[s]

HandleMessage(s) ==
  /\ reader[s] = "loop"
  /\ msgChan[s] # <<>>
  /\ msgChan' = [msgChan EXCEPT ![s] = Tail(@)]
  /\ LET m == Head(msgChan[s]) IN
     \/ /\ m = NilMsg
        /\ reader' = [reader EXCEPT ![s] = "exited"]
        /\ UNCHANGED <<finish, waiting, got>>
     \/ /\ m # NilMsg
        /\ Accepts(s, m)
        /\ got' = [got EXCEPT ![s] = @ \cup {m}]
        /\ waiting' = [waiting EXCEPT ![s] = @ - 1]
        /\ IF waiting[s] <= 1 THEN SendFinish(s, "nil") ELSE UNCHANGED finish
        /\ UNCHANGED reader
     \/ /\ m # NilMsg
        /\ ~Accepts(s, m)
        /\ UNCHANGED <<finish, waiting, got, reader>>
  /\ UNCHANGED <<delivered, main, quits>>

-----------------------------------------------------------------------------
Main == \/ InitMessageLoop \/ InitStep \/ SendOwn \/ FinishOnResult
        \/ FinishOnTimeout \/ FinishStep \/ CalculateResult \/ QuitMain

QuitLoop == QuitStepMsg \/ QuitStepFinish

\* Every goroutine is done: the context has nothing left to do.
Terminated ==
  /\ pc = "done" /\ quitter = "over"
  /\ \A s \in Steps : reader[s] # "loop"
  /\ UNCHANGED vars

Next ==
  \/ Main
  \/ QuitLoop
  \/ QuitMpcContext
  \/ \E s \in Steps : HandleMessage(s)
  \/ \E s \in Steps, p \in Peers : GetMessage(p, s)
  \/ Terminated

Spec == Init /\ [][Next]_vars

\* Go schedules every goroutine that can run; nothing obliges a peer to send
\* a message or an MPCError.
FairSpec ==
  /\ Spec
  /\ WF_vars(Main)
  /\ WF_vars(QuitLoop)
  /\ \A s \in Steps : WF_vars(HandleMessage(s))

-----------------------------------------------------------------------------
(* Properties.                                                             *)

\* Channels hold messages or their nil, a step waits for a number of messages that
\* never gets below zero (late ones are not counted, HandleMessage), and loop
\* indices stay within MpcSteps.
TypeOK ==
  /\ msgChan \in [Steps -> Seq(Peers \cup {NilMsg})]
  /\ finish \in [Steps -> Seq({"nil", "err"})]
  /\ waiting \in [Steps -> Nat]
  /\ got \in [Steps -> SUBSET Peers]
  /\ reader \in [Steps -> {"none", "loop", "exited"}]
  /\ delivered \in [Steps -> SUBSET Peers]
  /\ pc \in {"loop", "init", "send", "finish", "drain", "check",
             "quit", "quitting", "done"}
  /\ cur \in Steps
  /\ stepErr \in {"nil", "err"} /\ mpcErr \in {"nil", "err"}
  /\ quitter \in {"none", "main", "peer", "over"}
  /\ quitOp \in {"msgChan", "finish"}
  /\ quitErr \in {"nil", "err"}
  /\ quitAt \in Steps

\* A goroutine is at a send on msgChan[s] / on finish[s].
MsgSendDue(s) ==
  \/ pc = "drain" /\ cur = s
  \/ pc = "send" /\ cur = s /\ Self \in Senders[s]
  \/ quitter \in {"main", "peer"} /\ quitOp = "msgChan" /\ quitAt = s
  \/ Senders[s] \ ({Self} \cup delivered[s]) # {}

FinishSendDue(s) ==
  \/ pc = "loop" /\ cur = s /\ waiting[s] <= 0
  \/ quitter \in {"main", "peer"} /\ quitOp = "finish" /\ quitAt = s
  \/ reader[s] = "loop" /\ waiting[s] = 1

\* No goroutine ever blocks on a send: the capacities len(peers)+3 and 3 of
\* CreateBaseStep leave room for every send that BaseStep, quit and the
\* delivering goroutines can still make, whatever the order, also into the
\* channels of steps that have no reader or whose reader has exited.
SendsNeverBlock ==
  \A s \in Steps :
    /\ MsgSendDue(s) => Len(msgChan[s]) < MsgCap
    /\ FinishSendDue(s) => Len(finish[s]) < FinishCap

\* The steps whose BaseStep.FinishStep has returned nil.
Passed(s) ==
  \/ pc \in {"init", "send", "finish"} /\ s < cur
  \/ pc \in {"drain", "check"} /\ (s < cur \/ (s = cur /\ stepErr = "nil"))
  \/ pc \in {"quit", "quitting", "done"} /\ mpcErr = "nil"

\* When a step of a wait-for-all context is over without an error, the message
\* map holds exactly the number of senders that the step was created to wait
\* for: no nil on finish ever stands for anything else, quit(nil) included.
PassedStepIsComplete ==
  WaitAll => \A s \in Steps : Passed(s) => Cardinality(got[s]) = Wait[s]

\* In a wait-for-all context nobody writes a step's message map once
\* FinishStep has returned nil, so that calculateResult and the later steps
\* read it without a data race, although late messages still come in.
PassedStepIsFrozen ==
  [][WaitAll => \A s \in Steps : Passed(s) => got'[s] = got[s]]_vars

\* Once quit has gone through all steps, FinishStep finds something on finish
\* in the current and in every later step: after an MPCError the context ends
\* without waiting for another timeout.
QuitWakesEveryStep ==
  quitter = "over" /\ pc \in {"loop", "init", "send", "finish"}
    => \A s \in Steps : (pc = "loop" \/ s >= cur) => finish[s] # <<>>

\* mainMPCProcess returns, whatever the peers do or fail to do.
ContextEnds == <>(pc = "done")

\* No reader goroutine outlives the context: each gets a nil message after the
\* last real one it needs.
ReadersEnd == <>[](\A s \in Steps : reader[s] # "loop")

\* An MPCError that reaches a step before the step is over makes the whole
\* context return an error.
QuitErrorSurfaces ==
  (\E s \in Steps : /\ pc \in {"loop", "init", "send", "finish"}
                    /\ pc = "loop" \/ s >= cur
                    /\ finish[s] # <<>> /\ Head(finish[s]) = "err")
    ~> (pc = "done" /\ mpcErr = "err")
=============================================================================
