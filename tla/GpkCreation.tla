---------------------------- MODULE GpkCreation ----------------------------
(***************************************************************************)
(* One run of the creation of a group public key by all nodes of a         *)
(* storeman group: the contexts that mpc_create_gpk.go builds on the       *)
(* leader and on every peer, the messages between them, the contexts' life *)
(* in MpcDistributor.mpcMap and the keystore each node writes.             *)
(*                                                                         *)
(* A context is abstracted to what MpcContext shows of it: it stands at a  *)
(* step, the step's map collects senders, and the first entry of the       *)
(* step's finish channel decides how the step ends.  Every message is      *)
(* handled by a goroutine of its own, so messages arrive in any order; a   *)
(* failed SendToPeer is only logged, so they may also never arrive.        *)
(***************************************************************************)
EXTENDS Integers, FiniteSets

CONSTANTS
  Nodes,    \* the storeman group
  Leader,   \* the node whose API got createGPK
  Thr,      \* MpcSchnrThr
  NoKey,    \* no keystore file
  Faults    \* what may go wrong: a subset of {"timeout", "io", "crash"}

ASSUME GpkAssumption ==
  /\ IsFiniteSet(Nodes)
  /\ Leader \in Nodes
  /\ Thr \in 1..Cardinality(Nodes)
  /\ NoKey \notin [Nodes -> SUBSET Nodes]

\* The steps in the order of genCreateGPKMpc.
Steps == 0..4
Req     == 0
Ready   == 1
SkShare == 2
Gpk     == 3
AckGpk  == 4

VARIABLES
  ctx,      \* the context in mpcMap: "none" yet, "active", "done", or the
            \* whole node is "down"
  at,       \* the step mainMPCProcess is at
  pc,       \* "init" before the step's messages are sent, then "finish"
  got,      \* [Nodes -> [Steps -> SUBSET Nodes]]: senders in the step's map
  lost,     \* the same for messages thrown away because there was no context
  finish,   \* the first entry of the step's finish channel: "none", "nil", "err"
  share,    \* MpcPrivateShare: the set of nodes whose polynomial is in it
  gpk,      \* PublicKeyResult
  store,    \* the keystore on disk
  result,   \* what mainMPCProcess returned: "none" yet, "ok" or "err"
  requests, \* the nodes to which a RequestMPC is on its way
  errors    \* [Nodes -> SUBSET Nodes]: senders of MPCErrors on their way
vars == <<ctx, at, pc, got, lost, finish, share, gpk, store, result, requests,
          errors>>

\* Mutant: the leader does not wait for the acknowledgements.
NeedsNoAck(n, s) ==
  CASE s = Req   -> {}
    [] s = Ready -> IF n = Leader THEN {} ELSE {Leader}
    [] OTHER     -> Nodes

\* Whose messages the step of a node waits for.  An acknowledgement is sent to
\* all, and only the leader's step reads it.
Needs(n, s) ==
  CASE s = Req   -> IF n = Leader THEN Nodes \ {Leader} ELSE {}
    [] s = Ready -> IF n = Leader THEN {} ELSE {Leader}
    [] OTHER     -> Nodes

Sent(m, s) == at[m] > s \/ (at[m] = s /\ pc[m] = "finish")

\* InitMessageLoop of all steps: a step that waits for nobody is over at once.
InitMessageLoop(n) == [s \in Steps |-> IF Needs(n, s) = {} THEN "nil" ELSE "none"]

Init ==
  /\ ctx = [n \in Nodes |-> IF n = Leader THEN "active" ELSE "none"]
  /\ at = [n \in Nodes |-> Req]
  /\ pc = [n \in Nodes |-> "init"]
  /\ got = [n \in Nodes |-> [s \in Steps |-> {}]]
  /\ lost = [n \in Nodes |-> [s \in Steps |-> {}]]
  /\ finish = [n \in Nodes |-> InitMessageLoop(n)]
  /\ share = [n \in Nodes |-> {}]
  /\ gpk = [n \in Nodes |-> NoKey]
  /\ store = [n \in Nodes |-> NoKey]
  /\ result = [n \in Nodes |-> "none"]
  /\ requests = {}
  /\ errors = [n \in Nodes |-> {}]

-----------------------------------------------------------------------------
(* The main goroutine of a node's context.                                 *)

\* Mutant: a node that fails keeps it to itself.
ReturnSilent(n, res) ==
  /\ result' = [result EXCEPT ![n] = res]
  /\ ctx' = [ctx EXCEPT ![n] = "done"]
  /\ UNCHANGED errors

\* mainMPCProcess ends: with an error, it tells every other node; then quit and
\* removeMpcContext.
Return(n, res) ==
  /\ result' = [result EXCEPT ![n] = res]
  /\ ctx' = [ctx EXCEPT ![n] = "done"]
  /\ errors' = IF res = "ok" THEN errors
               ELSE [m \in Nodes |-> IF m = n THEN errors[m]
                                              ELSE errors[m] \cup {n}]

\* Mutant: the step is over one message too soon.
CollectOneShort(n, s, m) ==
  /\ got' = [got EXCEPT ![n][s] = @ \cup {m}]
  /\ finish' = [finish EXCEPT ![n][s] =
       IF @ = "none" /\ Cardinality(Needs(n, s) \ (got[n][s] \cup {m})) <= 1
       THEN "nil" ELSE @]

\* BaseStep.HandleMessage of a message of m: the last one waited for puts nil on
\* finish.
Collect(n, s, m) ==
  /\ got' = [got EXCEPT ![n][s] = @ \cup {m}]
  /\ finish' = [finish EXCEPT ![n][s] =
                  IF @ = "none" /\ got[n][s] \cup {m} = Needs(n, s) THEN "nil" ELSE @]

\* InitStep, CreateMessage and the sends.  The node's own message goes straight
\* into its own step.
InitStep(n) ==
  /\ ctx[n] = "active" /\ pc[n] = "init"
  /\ pc' = [pc EXCEPT ![n] = "finish"]
  /\ requests' = IF n = Leader /\ at[n] = Req THEN Nodes \ {Leader} ELSE requests
  /\ UNCHANGED <<ctx, at, lost, share, gpk, store, result, errors>>
  /\ IF n \in Needs(n, at[n]) THEN Collect(n, at[n], n)
                              ELSE UNCHANGED <<got, finish>>

\* RandomPolynomialValue.initialize: the random source fails.
InitStepFails(n) ==
  /\ "io" \in Faults
  /\ ctx[n] = "active" /\ pc[n] = "init" /\ at[n] = SkShare
  /\ Return(n, "err")
  /\ UNCHANGED <<at, pc, got, lost, finish, share, gpk, store, requests>>

\* Mutant: the timeout ends a step of a GPK context without an error.
StepOverOnTimeout(n, s) ==
  /\ ctx[n] = "active" /\ at[n] = s /\ pc[n] = "finish"
  /\ finish[n][s] = "nil" \/ ("timeout" \in Faults /\ finish[n][s] = "none")

\* BaseStep.FinishStep of step s returns nil.
StepOver(n, s) ==
  ctx[n] = "active" /\ at[n] = s /\ pc[n] = "finish" /\ finish[n][s] = "nil"

NextStep(n) ==
  /\ at' = [at EXCEPT ![n] = @ + 1]
  /\ pc' = [pc EXCEPT ![n] = "init"]

\* RequestMpcStep, AckMpcStep, MpcReadyStep and GetMpcReadyStep: nothing else.
FinishStart(n) ==
  /\ StepOver(n, Req) \/ StepOver(n, Ready)
  /\ NextStep(n)
  /\ UNCHANGED <<ctx, got, lost, finish, share, gpk, store, result, requests,
                 errors>>

\* MpcSKShareStep: the share is the sum over the received map.
FinishSkShare(n) ==
  /\ StepOver(n, SkShare)
  /\ share' = [share EXCEPT ![n] = got[n][SkShare]]
  /\ NextStep(n)
  /\ UNCHANGED <<ctx, got, lost, finish, gpk, store, result, requests, errors>>

\* The curve point that LagrangeECC computes from the public shares of the
\* nodes in D.  Shares of one polynomial sum give the key of that sum, whatever
\* D; other shares give a point that depends on them all.
LagrangeECC(D) ==
  IF \A m, k \in D : share[m] = share[k]
  THEN [n \in Nodes |-> UNION {share[m] : m \in D}]
  ELSE [n \in D |-> share[n]]

\* Mutant: the error of newStoremanKeyStore is not returned.
FinishGpkUnchecked(n) ==
  /\ StepOver(n, Gpk)
  /\ \E D \in SUBSET got[n][Gpk] :
       /\ Cardinality(D) = Thr
       /\ gpk' = [gpk EXCEPT ![n] = LagrangeECC(D)]
       /\ store' \in {store, [store EXCEPT ![n] = LagrangeECC(D)]}
  /\ NextStep(n)
  /\ UNCHANGED <<ctx, got, lost, finish, share, result, requests, errors>>

\* MpcGPKStep: calculateResult takes the first Thr shares in the order of a Go
\* map, and CreateKeystore writes the file before the step ends.
FinishGpk(n) ==
  /\ StepOver(n, Gpk)
  /\ \E D \in SUBSET got[n][Gpk] :
       /\ Cardinality(D) = Thr
       /\ gpk' = [gpk EXCEPT ![n] = LagrangeECC(D)]
       /\ store' = [store EXCEPT ![n] = LagrangeECC(D)]
  /\ NextStep(n)
  /\ UNCHANGED <<ctx, got, lost, finish, share, result, requests, errors>>

\* Fewer than Thr shares, the point at infinity, or no keystore written.
FinishGpkFails(n) ==
  /\ StepOver(n, Gpk)
  /\ "io" \in Faults \/ Cardinality(got[n][Gpk]) < Thr
  /\ Return(n, "err")
  /\ UNCHANGED <<at, pc, got, lost, finish, share, gpk, store, requests>>

\* Mutant: mainMPCProcess goes on behind the last step.
FinishAckGpkGoesOn(n) ==
  /\ StepOver(n, AckGpk)
  /\ NextStep(n)
  /\ UNCHANGED <<ctx, got, lost, finish, share, gpk, store, result, requests,
                 errors>>

\* AckMpcGPKStep: as many keys as peers, and all like the node's own.
FinishAckGpk(n) ==
  /\ StepOver(n, AckGpk)
  /\ IF got[n][AckGpk] = Nodes /\ \A m \in Nodes : gpk[m] = gpk[n]
     THEN Return(n, "ok")
     ELSE Return(n, "err")
  /\ UNCHANGED <<at, pc, got, lost, finish, share, gpk, store, requests>>

\* FinishStep returns the error of an MPCError, or of its own timeout.
FinishError(n) ==
  /\ ctx[n] = "active" /\ pc[n] = "finish"
  /\ \/ finish[n][at[n]] = "err"
     \/ finish[n][at[n]] = "none" /\ "timeout" \in Faults
  /\ Return(n, "err")
  /\ UNCHANGED <<at, pc, got, lost, finish, share, gpk, store, requests>>

-----------------------------------------------------------------------------
(* The distributor: GetMessage and the goroutines it starts.  What arrives *)
(* for a context that has ended changes nothing any more and is no step.   *)

\* createMpcCtx for a RequestMPC.  The context is in mpcMap before its main
\* goroutine sends anything.
CreateMpcCtx(n) ==
  /\ n \in requests /\ ctx[n] = "none"
  /\ requests' = requests \ {n}
  /\ ctx' = [ctx EXCEPT ![n] = "active"]
  /\ UNCHANGED <<at, pc, got, lost, finish, share, gpk, store, result, errors>>

\* getMpcMessage of a message of step s from m to n.
GetMpcMessage(m, n, s) ==
  /\ m # n /\ m \in Needs(n, s) \ (got[n][s] \cup lost[n][s])
  /\ Sent(m, s)
  /\ \/ ctx[n] = "active" /\ Collect(n, s, m) /\ UNCHANGED lost
     \/ /\ ctx[n] = "none"
        /\ lost' = [lost EXCEPT ![n][s] = @ \cup {m}]
        /\ UNCHANGED <<got, finish>>
  /\ UNCHANGED <<ctx, at, pc, share, gpk, store, result, requests, errors>>

\* QuitMpcContext for an MPCError of m: quit puts the error behind whatever is
\* queued on finish already.
QuitMpcContext(m, n) ==
  /\ m \in errors[n] /\ ctx[n] \in {"none", "active"}
  /\ errors' = [errors EXCEPT ![n] = @ \ {m}]
  /\ finish' = IF ctx[n] = "none" THEN finish
               ELSE [finish EXCEPT ![n] =
                       [s \in Steps |-> IF @[s] = "none" THEN "err" ELSE @[s]]]
  /\ UNCHANGED <<ctx, at, pc, got, lost, share, gpk, store, result, requests>>

\* The node dies.  Its keystore stays; its messages may still be on their way.
Crash(n) ==
  /\ "crash" \in Faults
  /\ ctx[n] \in {"none", "active"}
  /\ ctx' = [ctx EXCEPT ![n] = "down"]
  /\ UNCHANGED <<at, pc, got, lost, finish, share, gpk, store, result, requests,
                 errors>>

-----------------------------------------------------------------------------
Main(n) ==
  \/ InitStep(n) \/ InitStepFails(n) \/ FinishStart(n) \/ FinishSkShare(n)
  \/ FinishGpk(n) \/ FinishGpkFails(n) \/ FinishAckGpk(n) \/ FinishError(n)

Receive(n) ==
  \/ CreateMpcCtx(n)
  \/ \E m \in Nodes, s \in Steps : GetMpcMessage(m, n, s)
  \/ \E m \in Nodes : QuitMpcContext(m, n)

\* No context is left.
Terminated ==
  /\ \A n \in Nodes : ctx[n] # "active"
  /\ UNCHANGED vars

Next == (\E n \in Nodes : Main(n) \/ Receive(n) \/ Crash(n)) \/ Terminated

Spec == Init /\ [][Next]_vars

\* The step is not over: only the timer can end it.
Waits(n) == pc[n] = "finish" /\ finish[n][at[n]] = "none"

\* Goroutines that can run do run, and the connections hold, so that every message
\* arrives.  No timer has to fire.
FairSpec == Spec /\ WF_vars(\E n \in Nodes : (Main(n) /\ ~Waits(n)) \/ Receive(n))

-----------------------------------------------------------------------------
(* Properties.                                                             *)

Keys == UNION {[D -> SUBSET Nodes] : D \in SUBSET Nodes}

\* No context runs past its last step (mainMPCProcess), and every variable has its
\* type.
TypeOK ==
  /\ ctx \in [Nodes -> {"none", "active", "done", "down"}]
  /\ at \in [Nodes -> Steps]
  /\ pc \in [Nodes -> {"init", "finish"}]
  /\ got \in [Nodes -> [Steps -> SUBSET Nodes]]
  /\ lost \in [Nodes -> [Steps -> SUBSET Nodes]]
  /\ finish \in [Nodes -> [Steps -> {"none", "nil", "err"}]]
  /\ share \in [Nodes -> SUBSET Nodes]
  /\ gpk \in [Nodes -> Keys \cup {NoKey}]
  /\ store \in [Nodes -> Keys \cup {NoKey}]
  /\ result \in [Nodes -> {"none", "ok", "err"}]
  /\ requests \in SUBSET Nodes
  /\ errors \in [Nodes -> SUBSET Nodes]

\* When one node reports success, every node of the group has written its
\* keystore, with the same key: the key reported can be used, whoever fails or
\* crashes around the last step.
SuccessMeansAllStored ==
  \A n, m \in Nodes : result[n] = "ok" => store[m] = store[n] /\ store[n] # NoKey

\* CreateKeystore runs before the keys are compared, so a run that fails may
\* leave keystores behind.  They are never of different keys, though: every
\* keystore ever written is for the sum of the polynomials of all nodes.
KeystoresAgree ==
  \A n \in Nodes : store[n] # NoKey =>
    /\ store[n] = [m \in Nodes |-> Nodes]
    /\ share[n] = Nodes

\* getMpcMessage drops a message without a trace when mpcMap has no context.
\* Thanks to the acknowledgements this never hits a node that is still to take
\* part: no message reaches a node before its context exists.
NoEarlyDrop == \A n \in Nodes, s \in Steps : lost[n][s] = {}

\* No node leaves a collecting step before every node has entered it.
Lockstep ==
  \A n, m \in Nodes : at[n] > SkShare => Sent(m, at[n] - 1)

\* The run implements the abstract creation of a key: at most one key, written
\* once per node, and success only after the last keystore is on disk.
KC == INSTANCE KeyCreation
ImplementsKeyCreation == KC!Spec

\* No timer is needed while all nodes run: unless a node crashes or a timer fires, every
\* context ends, because the MPCError of a node that fails reaches everybody, and nobody
\* is left waiting for somebody who is gone.
EndsWithoutTimeout ==
  <>(\/ \A n \in Nodes : ctx[n] = "done"
     \/ \E n \in Nodes : ctx[n] = "down" \/ (ctx[n] = "done" /\ Waits(n)))

\* A context fails only when a step of some node has failed for a reason of its own (no
\* random numbers, no keystore) or a timer has fired: the keys that AckMpcGPKStep
\* compares are never different, in whatever order the shares came.  Together with
\* EndsWithoutTimeout: when no step fails, no timer fires and no node crashes, every
\* node reports success.
FailureHasCause ==
  [][\A n \in Nodes : result[n] # "err" /\ result'[n] = "err" =>
       \/ InitStepFails(n) \/ FinishGpkFails(n)
       \/ FinishError(n) /\ Waits(n)
       \/ \E m \in Nodes : result[m] = "err"]_vars
=============================================================================
