# A verification project for the storeman MPC node

This directory holds TLA+ modules that model the multi-party computation (MPC)
core of the storeman node (`src/storeman`), the part of its keystore that holds
the seeds of a key, and the p2p server that connects the nodes (`src/p2p`), the
TLC configurations that model-check them on small groups, and TLAPS proofs of
the properties that matter most.

A group of N storeman nodes creates a joint Schnorr key ("GPK": every node ends
up with a share of it, nobody with the key), and later signs data with it when
at least a threshold T of the nodes takes part.

## 1. The system

### 1.1 Parts, state and operations

Paths are relative to `src/storeman` unless they start with `src/`.

| part | source | state | operations |
|---|---|---|---|
| step engine | `storemanmpc/mpc_context.go`, `step/mpc_base_step.go`, `step/mpc_basempc_step.go` | per step two buffered channels, a counter and a message map; `bQuit` | `mainMPCProcess`, `InitMessageLoop`, `HandleMessage`, `FinishStep`, `Quit`, `getMessage`, `quit` |
| key creation | `storemanmpc/mpc_create_gpk.go`, the steps request/ack, ready, skShare, gpk, ackGpk | share, key, keystore file | the five steps of a leader and of a peer |
| signing | `storemanmpc/mpc_sign_data.go`, the steps request/ack, ready, rskShare, R, S, ackRS | nonce share, R, S | the six steps of a leader and of a peer |
| distributor | `storemanmpc/mpc_distributor.go`, `mpc_ctx_factory.go` | `mpcMap`: the contexts by id | `GetMessage`, `createRequestMpcContext`, `createMpcCtx`, `getMpcMessage`, `QuitMpcContext`, `SendSignRequestMpc`, `BroadcastMessage` |
| approval database | `validator/validator.go`, `validator/database.go` | a leveldb table of approving data, one of approved data, the list of approving keys | `ValidateData`, `GetDataForApprove`, `ApproveData`, `AddValidData`, `waitKeyFromDB` |
| peers | `storeman.go`, `peer.go` | `sm.peers`, `sm.peersPort` | `HandlePeer`, `handshake`, `runMessageLoop`, `checkPeerInfo` |
| dialling | `src/p2p/dial.go` | static and storeman nodes, running dials, the dial history | `addStatic`, `addStoreman`, `removeStatic`, `removeStoreman`, `newTasks`, `taskDone` |
| p2p server | `src/p2p/server.go` | the peers of the run loop, the inbound count, running and queued tasks | `run`, `SetupConn`, `checkpoint`, `encHandshakeChecks`, `listenLoop`, `AddPeer`, `RemovePeer`, `Stop` |
| API | `storeman.go` | none of its own | `CreateGPK`, `SignData`, `AddValidData`, `ApproveData`, `GetDataForApprove` |
| arithmetic | `shcnorrmpc/basicfunc.go` | none | `RandPoly`, `EvaluatePoly`, `Lagrange`, `LagrangeECC`, `SchnorrSign` |
| keystore | `src/accounts/keystore` | files with the share and, in the `WAddress`, the seeds of the group | `CreateKeystore`, `newMpcKey`, `loadStoremanAddress` |

### 1.2 How they interact

An API call on one node, the leader of the run, puts a context into its
`mpcMap` and starts its main goroutine.  The first step sends a request to all
peers, whose distributor builds the matching context; in signing this waits for
the approval of the data in the database of that node first.  From then on the
contexts exchange one message per step and sender.  Every message is handled
by a goroutine of its own that looks the context up in `mpcMap` and puts the
message on the channel of its step; a message without a context is dropped.  A
context that fails sends MPCError to all, which makes `quit` wake every step of
the others.

The two protocols differ in one switch.  In key creation a timer that fires
while a step waits is an error (`waitAll`).  In signing `SetWaitAll(false)`
makes it the normal end of a step: whoever has answered by then counts.

Underneath, nodes know only the address of the leader (the first configured
node).  They report their port to it every few seconds, are told those of the
others, and dial them.  The run loop of the p2p server owns peers and dialer; the
goroutines that set connections up ask it twice, at checkpoints, whether they may
go on.

Every node has a seed, the point at which the polynomials of the others are
evaluated for it.  The leader of the key's creation draws the seeds and sends
them with its request; they are kept in the keystore, from where the leader of a
signature, after any number of restarts, sends them again.

### 1.3 What makes it hard

- Three kinds of goroutines use the channels of a step while the main goroutine
  moves on by a timer; one send too many blocks somebody for ever.
- Steps of different nodes overlap; a message may come before the context, or
  after the step, and is sent once only.
- Timers that are no errors let nodes go on with different sets of messages.
- The keystore is written before the nodes have compared their keys.
- The approval database is used by concurrent calls without a lock, and each
  call is several leveldb operations, with a crash possible between any two.
- Peers are put into the table before the handshake and stay there when it
  fails; addresses that are exchanged may be stale.
- Seeds pass through fields of one and three bytes and an array of fixed size,
  and interpolation takes shares in the random order of a Go map.
- Connections to one node, or for one last place, are set up at the same time
  and checked one by one.  The dialer runs only when something else has happened.
- `Stop` waits, with the lock of the server, for goroutines that take this lock.

`PROJECT.json` lists these as `hazards`, each at its line, with the properties
that would catch it going wrong.

## 2. Modules

### MpcContext: the step engine of one context

The variables are the channels `msgChan` and `finish` of every step as
sequences, the counter `waiting`, the message map as the set `got` of its
senders, the `reader` goroutine of every step, the place `pc` and `cur` of the
main goroutine, and the progress of `quit` (`quitter`, `quitErr`, `quitAt`,
`quitOp`).  A send is an action that is enabled when the channel has room, so a
goroutine that would block is a goroutine that cannot step.  Two calls of
`quit`, one by the main goroutine and one for an MPCError, interleave send by
send with everything else.  The constants `Wait` and `Senders` describe the
list of steps, `WaitAll` the kind of context.

### GpkCreation and KeyCreation: creating a key

`GpkCreation` is a whole run by all nodes.  Of each context it keeps what
`MpcContext` shows to matter: the step `at`, the senders `got` so far, and the
first entry of `finish`.  A share is the set of nodes whose polynomials are in
it; interpolation gives the key of that sum if all shares used are of the same
one, and something that depends on all of them otherwise.  The faults are timers
that fire early or because a message was lost, steps that fail ("io"), and
crashes; MPCErrors travel like messages.

`KeyCreation` is the abstract specification: keystores are for one key only, and
a node reports success only when all keystores exist.  `GpkCreation`
implements it with `store` and `result` as they are
(`ImplementsKeyCreation`).

### SignData and Signing: signing

A whole run by all nodes, T of whom have to take part.  To keep it within TLC's
reach a step collects a set of messages and ends in one action; that the
reader and the main goroutine do not disturb each other is `MpcContext`'s
subject.  A node that refuses (data not approved) never gets a context; a late
one misses messages (`lost`).  The nonce share and R are modelled like the
shares of `GpkCreation`; a signature share carries the nonce share of the node
and the R it has hashed, so that shares with different R's do not combine
(`SValue`), and `verifyRS` accepts only the value of one nonce polynomial with
the R of the verifying node.

Timers have two forms.  With "timeout" in `Faults` a timer may fire whenever it
likes, at most `MaxFired` times.  Without it they fire in the order in which
they were set and only when nothing else can move: a quick group with one
common `MPCTimeOut`.

`Signing` is the abstract specification: a node puts its share of the key to one R
at most and never takes that back, and it reports an R only when a quorum has put
their shares to it.  `SignData` implements it (`ImplementsSigning`) with the sets of
T nodes as quorums, `put` the R of a node that has sent its signature share, and
`reported` the R of a node whose context ended well.

### Validator and Approvals: the approval database

Every leveldb operation of every call is an action, so calls interleave between
any two.  Data is a pair of what is hashed into the key (PKBytes and Data) and
the Extern, which is not.  `received` and `granted` are history variables.
Any operation may fail, and the node may restart anywhere.

`Approvals` is the abstract specification, for those who sign: one entry per key,
which is data somebody approved and is never taken away, and a request passes in one
moment, in which the entry of its key is its data.  `Validator` implements it
(`ImplementsApprovals`) with the approved table as entries; the put of an approved
value and the Get of `ValidateData` are the moments at which calls take effect.

### PeerMesh: peers, handshake and dialling

`phase[n][m]` is where `HandlePeer` of n for m is; `table` is `sm.peers`,
`port` is `sm.peersPort` of the leader, `dial` the storeman dial tasks.  A node starts
with one, for the leader, and so does the leader itself; discovery makes it drop that
(`errSelf`), and without discovery (`NoDiscovery`) it keeps it, dials itself for ever
and is refused (`DiscSelf`).
Faults, at most `MaxFaults`: a connection breaks, a handshake times out, a
message overtakes the status, a node restarts, perhaps with another port.
`NobodyIsLost` is what the forming of the mesh rests on: a live connection has a
handler at both ends, a handler that sends or reads has its peer in the table, and
every node but the leader keeps the task of dialling the leader.

It assumes of the p2p server that a wanted node is dialled again and again, which
is what `DialerTicks` of `P2PServer` is about.

### PeerCodec, Schnorr and KeyMaterial: the numbers

`GpkCreation` and `SignData` say who has which messages and take interpolation
for granted.  `KeyMaterial` is the other half: the numbers of one key from the
leader's draw to a verified signature, with all nodes doing each step together.

`PeerCodec` has the two encodings of seeds byte for byte.  In a message a peer is
its index in the group (one byte) and the low three bytes of its seed.  In a
keystore the seeds share the 66 bytes of the `WAddress`, three each;
`newMpcKey` panics when it slices behind the end of the array, and writes
nothing when it slices at the end.

`Schnorr` has the functions of `basicfunc.go` over a group of any prime order.
Their loops are `SumMod` and `ProdMod`, which reduce after every round as the code
does.  A point is its logarithm to the base G.  The curve code has no usable point at
infinity: the addition of equal points, the multiplication by zero or by a number
not below the order, and whatever is computed from their results are `NoPoint`,
and a run that meets it ends.  So does one in which the code would go on with the
meaningless coordinates such a result may have, which has a negligible probability on
the real curve.

`KeyMaterial` puts them together.  Its actions are the steps of both protocols;
the order in which a Go map gives the shares to interpolation, and which shares,
is a choice of `Orders`; for a signature there are two, one for R and one for S.  `secret` is a history variable: the sum of the constant
terms, which no node knows.

### DialState and P2PServer: dialling and the p2p server

`DialState` is the dialer as operators on a record; `newTasks` is the set of its
possible results, over the orders of Go maps and the nodes that discovery offers.
`P2PServer` has the run loop, the setup of connections, the goroutine of every
peer, listener, tasks and `Stop`.  Each case of the run loop's `select` is an
action that ends with the `scheduleTasks` of the next iteration.

A checkpoint is one action, as its goroutine does nothing else between asking and
hearing the answer.  A peer is running, closed, or has a handler that waits in `Self`.
`LockFree` is the lock of the server while `Stop` holds it: the run loop and the
handler of the leader's messages need it for `Self`, a new connection for the test of
`running`.  Discovery is on.  The list of static nodes is empty at first, and
`AddPeer` fills it; there are no `netrestrict` and no bootnodes.  The event feed of
peers is left out.  The history expires entry by entry, in its order.

### Modules for checking and proving

`MCMpcContext`, `MCSignData` and `MCValidator` give symmetry sets and the step
lists of real contexts, `MCKeyMaterial` seeds and polynomials; `GpkCreation`,
`PeerMesh` and `P2PServer` need none.  The proofs are in `MpcContextProofs`,
`GpkCreationProofs`, `SignDataProofs`, `ValidatorProofs`, `PeerMeshProofs`,
`SchnorrProofs`, `KeyMaterialProofs` (with those about `PeerCodec`) and
`P2PServerProofs` (with those about `DialState`).  Definitions introduced by a comment "Mutant:", "Form of" or
"A form of" are faulty variants of the definition behind them.  They are used nowhere and exist to test that the properties can fail.

## 3. Runs

| run | instance | checks |
|---|---|---|
| `context` | GPK peer, group of 3, an MPCError | TypeOK, SendsNeverBlock, PassedStepIsComplete, QuitWakesEveryStep, PassedStepIsFrozen, ContextEnds, ReadersEnd, QuitErrorSurfaces |
| `gpk_creation` | 3 nodes, threshold 2, all faults | TypeOK, SuccessMeansAllStored, KeystoresAgree, NoEarlyDrop, Lockstep, ImplementsKeyCreation, EndsWithoutTimeout, FailureHasCause |
| `sign_slow` | 3 nodes, threshold 2, early timers, late contexts | TypeOK, OneSignature, ImplementsSigning |
| `sign_ends` | 3 nodes, threshold 1, refusals and late contexts | SignedDespiteRefusals, EveryContextEnds |
| `sign_late` | 5 nodes, threshold 3, late contexts | SamePolyValue: violated |
| `validator_calls` | 3 concurrent calls, 2 keys, 2 Externs, errors and crashes | TypeOK, ListedIsRecorded, WaitedKeyIsThere, FailedAddIsApproved, ImplementsApprovals |
| `validator_lost` | 2 concurrent calls | ReceivedIsPolled: violated |
| `peer_mesh` | 3 nodes without discovery, 1 fault | TypeOK, NobodyIsLost, MeshForms, AddressesSettle |
| `key_material` | 3 nodes, threshold 2, order 257 | TypeOK, SeedsSurvive, SharesMatchKey, SignatureVerifies, TooFewSharesTellNothing |
| `key_capacity` | the default 50 nodes | SeedsSurvive: violated |
| `p2p_server` | 2 nodes and the node itself, 2 connections | TypeOK, PeersAreKnown, LimitsHold, DialerTicks |
| `p2p_stop` | 1 node and the node itself, 1 connection | StopTerminates: violated |

### What the passing runs show

- **Engine.**  The channel capacities `len(peers)+3` and 3 are enough for every
  order of sends, also into channels nobody reads any more.  In a wait-for-all
  context a step is passed only with all messages, and its map is not written
  afterwards.  `quit` always wakes the main goroutine and ends every reader.
- **Key creation.**  Success on one node means that every node has its keystore
  of the same key, whoever fails or crashes around the last step.  Keystores
  left behind by a failed run are of one key.  No message that a node
  needs is dropped for want of a context.  As long as no node crashes, failures spread
  without the help of timers; and a run in which no step fails and no timer fires
  succeeds everywhere.
- **Signing.**  What is reported as a signature has been made by T nodes with one
  R, and all nodes that report one report the same, however timers and
  messages race; nobody puts a share of the key to a second R.  Every context ends.  When no message comes too early, refusals
  that leave T nodes cost nobody the signature.
- **Approval.**  Whatever the interleaving and wherever the node restarts, a
  listed key has a value, and a request passes only with data that was approved
  in full.  To those who sign, calls that overlap are steps on one entry per key.  A
  request that an approval overtakes may be refused, but then there is approved data
  under its key: repeated, it passes at once, or is refused for another Extern.
- **Peers.**  No fault leaves a connection with a handler at one end only, or a node
  that has given up dialling the leader.  The mesh always forms again, and stale addresses go away.
- **Numbers.**  Every node works with the seeds the leader drew, before and after a
  restart.  The key is that of the shares, whichever two shares are used and in
  whichever order; so is every signature, and it passes `verifyRS`.  One share is
  compatible with every key.
- **p2p server.**  Two connections to one node never both become peers, however
  their handshakes interleave, and together they exceed no limit.  While a wanted
  node is not connected there is a task whose end wakes the dialer.  A run
  loop that ends has told every peer, and none is left when `Stop` returns.

### What the violations show

- `sign_late`: a comment in `mpc_sign_data.go` expects that waiting for all lets
  every node "get the same poly value".  A node whose context is created late
  misses the ready message and sends its shares one timeout later, between the
  timers of the others, which then sum different sets.  `OneSignature` and
  `SignedByThreshold` hold nevertheless: the run fails, with no wrong signature.
- `validator_lost`: two requests that arrive together each write the list of
  keys back from their own copy, and one is not offered for approval.
- `key_capacity`: `key.go` says "3 bytes for every seed" of an array of 66 bytes,
  which has room for 22.  In a group of 23 the last seed is not stored, and is read
  back as the one before it; in one of 24 or more, such as the default of 50 in
  `protocol.go`, `newMpcKey` panics.
- `p2p_stop`: "Stop terminates the server and all active peer connections", says
  `server.go`.  But `Stop` holds the lock of the server while it waits.  TLC shows a
  run loop that is just checking a connection: it calls `Self`, which asks for the
  lock, and neither returns.  Two more ways are in the model.  A handler that looks at
  AllPeersInfo calls `Self` for every entry; `Peer.run` waits for the handler, the run
  loop for the peer, and `Stop` for the run loop.  And as many new inbound connections
  as `listenLoop` has slots may be about to look at `running`, so that `listenLoop`
  does not get the slot it needs to notice that it is to end.

### Bounds

Three nodes are the fewest with a leader and two peers that differ; with
threshold 2 there is a node more than needed.  Five nodes are used where two groups of timers are
needed.
Three steps of a context are one of each kind: waits for some, for one or none,
for all.  The `context` run is of a context that waits for all; what is said of
the others, those of signing, is proved.  `MaxFired` = 2 allows two early timers, enough for two nodes to have
different views of the same step; `SignedByThreshold` and `OneSignature` are
proved without the bound.  `sign_ends` has threshold 1 because the leader waits for T peers: with three
nodes only then can one of them come late and miss messages.  Too few shares
for R or S cannot happen there; with 4 nodes and threshold 3, where they can and nobody
is late, both properties hold as well (2231 states), and with 4 nodes and threshold 2
there are too many states.  `MaxCalls` bounds the calls of a goroutine.
`MaxFaults` = 1 in `peer_mesh`; with 2 TLC passes as well (about 300,000
states).

The order 257 of `key_material` is the smallest prime above a byte: seeds 1,
255 and 256 use two of the three bytes of a seed, and the polynomials include
sums that are zero and leading coefficients that are zero modulo the order.  One
hash is above the order.  The widths are covered for all seeds by the proofs.
In `p2p_server` two connections are the fewest that race; with `MaxPeers` 2 and
`MaxDialed` 1 there is one inbound place for the two, and one task may run, so
that others queue.  Two connections cannot exceed `MaxPeers`: that part of
`LimitsHold` says nothing in the run and is left to the proof.  The invariants also
pass with three connections (1,520,345 states).  `p2p_stop` needs only one connection.
Symmetry is used in `sign_slow` and `sign_late`, for nodes other than the leader, and
in the runs of the validator, for goroutines, keys and Externs.

Deadlock is checked everywhere but in `context` and `sign_ends`, whose contexts come
to an end, and in `p2p_server` and `p2p_stop`, where the server is stopped.

### Fairness

Weak fairness of the goroutines of a node (`Main`, `QuitLoop`, `HandleMessage`),
which the Go scheduler gives, the timers of `FinishStep` included.  Nothing
obliges a peer to send.  In `gpk_creation` messages arrive and no timer has to fire,
as there the question is what happens without timers while the connections hold: all
that is assumed is that somebody moves as long as somebody can.  In `sign_ends` a
request is answered, because the wait for an approval ends after `MPCTimeOut`.  In
`PeerMesh` a dial to the right address succeeds in the end and the ticker of
`checkPeerInfo` ticks.  In `P2PServer` a handshake that gets no answer times out, a
closed peer whose handlers have ended is handed back, and the `select` of the run loop, which picks one of
the ready cases at random, comes to `quit` in the end.

## 4. Proofs

All theorems hold for every value of the constants that satisfies the `ASSUME` of
the module.  Each follows from an inductive invariant `IInv` with one lemma per
conjunct and one step per action.

- **MpcContextProofs** (`ContextAssumption`: a finite group, any list of steps).
  SendsNeverBlock is not inductive, as it does not say who has sent already.
  `MsgInv` and `FinInv` bound the length of each channel by the number of
  senders that are through with it (`DrainDone`, `QuitMsgDone`, `NilDone`,
  `QuitFinDone`), and each sends once.  `CountInv` ties the counter to the map,
  `NilInv` says what a nil on `finish` stands for.  Theorems: TypeCorrect,
  NoBlocking, Completeness, Frozen (an action property), QuitWakes.
- **GpkCreationProofs** (`GpkAssumption`).  `GotInv` and `FinishInv` say that a
  node past a step has the messages of all, each of them sent; so nobody is
  more than a step ahead (`Lockstep`), all contexts exist when the first message
  travels (`NoEarlyDrop`), and every share is the sum of all polynomials
  (`KeyInv`).  Theorems: TypeCorrect, NoMessageTooEarly, OneKey,
  StepsInLockstep, SuccessIsUsable, Refinement, which is
  `Spec => KeyCreation!Spec`, and FailuresHaveCauses, which is FailureHasCause.
- **SignDataProofs** (`SignAssumption`: any threshold up to N).  `SInv` keeps the T
  nodes whose shares an S was made of, and what they had sent; a verified S of
  theirs has one nonce and one R.  Two such sets share a node when T is a
  majority, and that node hashed one R.  Theorems: TypeCorrect,
  ThresholdSigned, UniqueSignature, and SigningImplemented, which is
  `Spec => Signing!Spec`.  RefusalsDoNoHarm is SignedDespiteRefusals, without
  "timeout" in `Faults`.  Its invariant `CalmInv` holds as long as no message was
  lost: nobody gives up waiting for the leader before it is ready (`ReadyInv`), and
  nobody leaves the nonce shares before all who take part have sent theirs
  (`ShareInv`), so all have the same sum, R and S (`ValueInv`) and nothing is left
  that could fail.  Only UniqueSignature assumes that T is a majority.  The defaults
  (26 of 50) are one; `storeman.go` takes both numbers from the configuration and
  checks only that T is not larger than N.
- **ValidatorProofs** (`ValidatorAssumption`).  `CallInv` says what a call that
  is half way may rely on, which other calls never undo.  Theorems: TypeCorrect,
  NoDanglingKey, ApprovalGate, WaitIsNotStale, OvertakenAdd, and
  ApprovalsImplemented, which is `Spec => Approvals!Spec`.  The last needs
  `BusyInv` as well: a call has no result before it returns, so that only the Get of
  `ValidateData` lets a request pass.
- **PeerMeshProofs** (`MeshAssumption`).  NobodyIsLost needs to know at which points
  a handler may be (`Shape`).  `PhaseInv` and `DialInv` are its two halves, of
  connections and of dial tasks, which different actions disturb.  Theorems:
  TypeCorrect, NobodyIsEverLost, for any number of nodes, ports and faults.
- **KeyMaterialProofs** (`GroupAssumption`, `KeyMaterialAssumption`).  Three bytes hold
  every seed that is drawn: PeersRoundTrip, for groups of up to 256 nodes, whose
  index is a byte, and SeedsRoundTrip, for groups of up to 22, are about the
  operators of `PeerCodec`.  SeedsAlwaysSurvive is about `KeyMaterial` (N at most 22),
  for every order, degree and choice of polynomials; its invariant adds to
  SeedsSurvive that the `WAddress` of a stored key is that of the seeds drawn.
- **SchnorrProofs** (`SchnorrAssumption`: the order is a prime, the degree is less
  than the order less one).  What the loops of `basicfunc.go` compute, for every order,
  degree and list of points.  The provers have no induction over data, so it is brought
  in as a fact about sets: a set of naturals has a smallest element (from WFMin of the
  library), and so a set with the first round of a loop in it and closed under a round
  has all of them (`Induction`).  Equations modulo the order are equations with a
  multiple of the order added (`CongMultiple`), and that every number but zero has an
  inverse (`SmallInverse`) is again by the smallest element.  The weights of n points
  add up to one (`WeightsSum`): those of n + 2 points are combined from those of the
  points without the last and without the last but one, as in Neville's scheme.
  Multiplied with a power of the points they add up to zero (`Moments`), so Lagrange
  takes the values of a polynomial to its constant term, and it is linear.  Theorems:
  LagrangeOfShares, for sums of polynomials; LagrangeECCIs, for points; SignatureIs,
  for what `verifyRS` compares; AnyConstantTerm, from `Interpolation`, which finds a
  polynomial through n points by induction on n.
- **KeyMaterialProofs** rests on it for the key and the signatures (N at most 22).
  SharesMatchKey is not inductive, since it says nothing of shares before the key is
  stored: the invariant `KeyInv` adds that the shares of any Degree + 1 nodes give
  `secret` from the moment they are made, that all numbers are reduced, and the seeds.
  Theorems: KeyMaterialTypeCorrect, SharesAlwaysMatchKey, SignaturesAlwaysVerify,
  TooFewSharesNeverTell.  The last needs of the invariant only that seeds are different
  and not zero; AnyConstantTerm does the rest.
- **P2PServerProofs** (`DialAssumption`, `ServerAssumption`).  It begins with lemmas
  about the dialer's operators: `newTasks` makes a task of every node it marks, once, and
  is idle only when nobody on the lists is left to connect to (`NewTasks`); no other
  operator but `taskDone` touches the marks (`DialerOps`).  That the peers of the
  run loop are those with a goroutine does not say that a connection still at
  a checkpoint has none, nor that its node is known: `ConnInv` does.  With it, a
  peer is added or removed exactly when its set grows or shrinks by one, which
  keeps the limits and the count.  For the dialer the invariant is `DialInv`: a
  node is marked as being dialled exactly when it is one of the running or queued
  tasks, and it is one of them once, so the end of a task takes back its own mark
  only.  When `newTasks` then finds nothing to start, a wanted node that is not
  connected is marked, or in the history, for which a waiting task is started.
  Theorems: TypeCorrect, OnePeerPerNode, LimitsAreKept, DialerAlwaysTicks.

Only model-checked: the liveness properties (ContextEnds, ReadersEnd,
QuitErrorSurfaces, EndsWithoutTimeout, EveryContextEnds, MeshForms, AddressesSettle),
which need fairness and ENABLED.  Every invariant, action property and
refinement that a passing run checks is a theorem.  Two more
theorems, ThresholdSigned (SignedByThreshold) and ApprovalGate (ValidatedWasApproved),
state invariants that no run lists, as they follow from ImplementsSigning and
ImplementsApprovals.

## 5. Not modelled

- Several contexts in one `mpcMap`, their ids, and two requests with one id.
- The encryption and the JSON of a keystore file, and AWS KMS.
- The crash of the Go runtime on a concurrent map iteration and write, which
  signing is exposed to after a timeout.
- Inside a p2p connection: encryption and framing, and the read and ping loops of a
  peer.  The models rely on messages being lost, delayed or
  reordered at worst.
- The rest of the repository is code of go-ethereum that the MPC does not run or
  uses as a library: discovery, node container, RPC, console and commands,
  account cache, curves and hashes, Whisper, Swarm, common libraries.  It is by
  far the larger part of the lines under `src/`, so the modules cover a small share
  of all lines, and most of those that were written for the storeman and have
  state.
- The in-memory database of the validator, which the node does not use.

## 6. Possible next steps

1. **Distributor**: `mpcMap` with several contexts, the check for an id in
   `createMpcCtx` and the later `addMpcContext`, MPCErrors that come first,
   composed with an abstract context.
2. A composition of `Validator` and `SignData` through `Approvals` and `Signing`:
   what is signed has been approved by T nodes.
