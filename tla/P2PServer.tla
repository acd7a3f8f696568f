----------------------------- MODULE P2PServer -----------------------------
(***************************************************************************)
(* The p2p server of a node (server.go): the run loop that owns the peers  *)
(* and the dialer, the goroutines that set a connection up and meet the    *)
(* run loop at two checkpoints, the goroutine of every peer, the listener, *)
(* the dial tasks, and Stop, which waits for run loop and listener while   *)
(* it holds the lock of the server.                                        *)
(***************************************************************************)
EXTENDS DialState

CONSTANTS
  Conns,               \* connections that may exist at a time
  TrustedNodes,        \* their connections get trustedConn
  MaxPeers,
  MaxPendingPeers,     \* inbound connections that may be set up at a time
  maxActiveDialTasks,
  None

ASSUME ServerAssumption ==
  /\ TrustedNodes \subseteq Nodes
  /\ MaxPeers \in Nat /\ MaxDialed <= MaxPeers
  /\ MaxPendingPeers \in Nat \ {0} /\ maxActiveDialTasks \in Nat \ {0}
  /\ None \notin Conns \cup Nodes

VARIABLES
  stop,     \* Stop: "no", "wait" (for the loops, with the lock and srv.quit closed),
            \* or "returned"
  loop,     \* the run loop: "select", "blocked" (in Self, by Stop), "spindown", "done"
  listening,  \* whether listenLoop runs
  conn,     \* per connection the state of its setup, flag, and node once known
  peer,     \* and of its peer: "none", "run", "closed" (on its way to delpeer), or
            \* "self" (a handler that Peer.run waits for is in Self, by Stop)
  peers,    \* peers: the connection of a node, or None
  inboundCount,
  d,        \* the state of the dialer
  tasks,    \* runningTasks: what a task is doing, "dial", "setup" or "done"
  queued    \* queuedTasks
vars == <<stop, loop, listening, conn, peer, peers, inboundCount, d, tasks, queued>>

Free == [st |-> "free", flag |-> "inbound", id |-> None]
Connected == {n \in Nodes : peers[n] # None}

\* A name for a new connection; connections differ in nothing but their names.
IsFree(c) == conn[c] = Free
NewConn   == CHOOSE c \in Conns : IsFree(c)
Quit == stop # "no"            \* srv.quit is closed
LockFree == stop # "wait"      \* srv.lock can be taken

maxInboundConns == MaxPeers - MaxDialed
NDyn(ps) == Cardinality({n \in Nodes : ps[n] # None /\ conn[ps[n]].flag = "dyn"})

\* Form of Started that starts a task too many.
StartedOneMore(running, ts) ==
  LET k == maxActiveDialTasks + 1 - Cardinality(DOMAIN running)
      m == IF k < Len(ts) THEN k ELSE Len(ts)
      new == {ts[i] : i \in 1..m}
  IN  [running |-> [t \in DOMAIN running \cup new |-> IF t \in new THEN "dial" ELSE running[t]],
       rest    |-> SubSeq(ts, m + 1, Len(ts))]

\* startTasks of a list of tasks: those that may run, and the rest.
Started(running, ts) ==
  LET k == maxActiveDialTasks - Cardinality(DOMAIN running)
      m == IF k < Len(ts) THEN k ELSE Len(ts)
      new == {ts[i] : i \in 1..m}
  IN  [running |-> [t \in DOMAIN running \cup new |-> IF t \in new THEN "dial" ELSE running[t]],
       rest    |-> SubSeq(ts, m + 1, Len(ts))]

\* scheduleTasks, which starts every iteration of the run loop, after an event that
\* has left the dialer, the running tasks and the peers as given.
scheduleTasks(d0, running, ps) ==
  LET s == Started(running, queued)
      n == Cardinality(DOMAIN s.running)
  IN  IF n < maxActiveDialTasks
      THEN \E x \in newTasks(d0, n + Len(s.rest), {m \in Nodes : ps[m] # None}, NDyn(ps)) :
             LET s2 == Started(s.running, x.tasks)
             IN  d' = x.d /\ tasks' = s2.running /\ queued' = s.rest \o s2.rest
      ELSE d' = d0 /\ tasks' = s.running /\ queued' = s.rest

Init ==
  /\ stop = "no" /\ loop = "select" /\ listening = TRUE
  /\ conn = [c \in Conns |-> Free] /\ peer = [c \in Conns |-> "none"]
  /\ peers = [n \in Nodes |-> None] /\ inboundCount = 0
  /\ \E x \in newTasks(newDialState, 0, {}, 0) :
       LET s == Started(<<>>, x.tasks)
       IN  d = x.d /\ tasks = s.running /\ queued = s.rest

\* When the setup of c ends, its dial task is done.
TasksAfter(c) ==
  [t \in DOMAIN tasks |-> IF conn[c].flag # "inbound" /\ t = conn[c].id THEN "done" ELSE tasks[t]]
EndSetup(c) == conn' = [conn EXCEPT ![c] = Free] /\ tasks' = TasksAfter(c)

-----------------------------------------------------------------------------
(* Goroutines that set up connections.                                     *)

Pending == {c \in Conns : conn[c].flag = "inbound" /\ conn[c].st \notin {"free", "peer"}}

\* listenLoop accepts a connection when it has a slot, and starts SetupConn.
Accept ==
  /\ listening /\ ~Quit /\ Cardinality(Pending) < MaxPendingPeers
  /\ \E c \in Conns : IsFree(c)
  /\ conn' = [conn EXCEPT ![NewConn] = [Free EXCEPT !.st = "start"]]
  /\ UNCHANGED <<stop, loop, listening, peer, peers, inboundCount, d, tasks, queued>>

\* The closed listener ends listenLoop, which first needs a slot.
ListenEnds ==
  /\ listening /\ Quit /\ Cardinality(Pending) < MaxPendingPeers
  /\ listening' = FALSE
  /\ UNCHANGED <<stop, loop, conn, peer, peers, inboundCount, d, tasks, queued>>

\* dialTask.Do: the connection is there, perhaps only after a resolve; no connection.
DialConnects ==
  \E n \in Nodes \cap DOMAIN tasks :
    /\ tasks[n] = "dial" /\ \E c \in Conns : IsFree(c)
    /\ conn' = [conn EXCEPT ![NewConn] = [st |-> "start", flag |-> d.dialing[n], id |-> n]]
    /\ tasks' = [tasks EXCEPT ![n] = "setup"]
    /\ UNCHANGED <<stop, loop, listening, peer, peers, inboundCount, d, queued>>
DialFails ==
  \E n \in Nodes \cap DOMAIN tasks :
    /\ tasks[n] = "dial"
    /\ tasks' = [tasks EXCEPT ![n] = "done"]
    /\ UNCHANGED <<stop, loop, listening, conn, peer, peers, inboundCount, d, queued>>

\* discoverTask.Do, and waitExpireTask.Do after its sleep.
OtherTask ==
  \E t \in {Lookup, WaitExpire} \cap DOMAIN tasks :
    /\ tasks[t] = "dial"
    /\ tasks' = [tasks EXCEPT ![t] = "done"]
    /\ UNCHANGED <<stop, loop, listening, conn, peer, peers, inboundCount, d, queued>>

\* SetupConn and setupConn take the lock, to see whether the server runs.
SetupStart(c) ==
  /\ conn[c].st = "start" /\ LockFree
  /\ IF Quit THEN EndSetup(c)
     ELSE conn' = [conn EXCEPT ![c].st = "enc"] /\ UNCHANGED tasks
  /\ UNCHANGED <<stop, loop, listening, peer, peers, inboundCount, d, queued>>

\* A handshake fails, or has another node than was dialled; or checkpoint sees that
\* the server stops.
SetupFails(c) ==
  /\ conn[c].st \in {"enc", "proto"}
  /\ EndSetup(c)
  /\ UNCHANGED <<stop, loop, listening, peer, peers, inboundCount, d, queued>>

\* Peer.run ends: an error, the other side, or a protocol that has ended.
PeerEnds(c) ==
  /\ peer[c] = "run"
  /\ peer' = [peer EXCEPT ![c] = "closed"]
  /\ UNCHANGED <<stop, loop, listening, conn, peers, inboundCount, d, tasks, queued>>

\* runMessageLoop gets AllPeersInfo, which only the leader sends, and calls Self for
\* every entry.  While Stop has the lock it waits there, Peer.run waits for it and does
\* not end, and Stop waits for the end of Peer.run.
HandlerWaits(c) ==
  /\ peer[c] \in {"run", "closed"} /\ conn[c].id = Leader /\ ~LockFree
  /\ peer' = [peer EXCEPT ![c] = "self"]
  /\ UNCHANGED <<stop, loop, listening, conn, peers, inboundCount, d, tasks, queued>>

-----------------------------------------------------------------------------
(* The run loop.                                                           *)

\* Form of encHandshakeChecks with one place too many.
encHandshakeChecksOneMore(c, n) ==
  IF \/ /\ n \notin TrustedNodes /\ conn[c].flag \notin {"static", "storeman"}
        /\ Cardinality(Connected) > MaxPeers
     \/ /\ n \notin TrustedNodes /\ conn[c].flag = "inbound"
        /\ inboundCount > maxInboundConns
  THEN "DiscTooManyPeers"
  ELSE IF peers[n] # None THEN "DiscAlreadyConnected"
  ELSE IF n = Self THEN "DiscSelf" ELSE "nil"

\* encHandshakeChecks of connection c with node n; its last case calls Self, which
\* takes the lock.
encHandshakeChecks(c, n) ==
  IF \/ /\ n \notin TrustedNodes /\ conn[c].flag \notin {"static", "storeman"}
        /\ Cardinality(Connected) >= MaxPeers
     \/ /\ n \notin TrustedNodes /\ conn[c].flag = "inbound"
        /\ inboundCount >= maxInboundConns
  THEN "DiscTooManyPeers"
  ELSE IF peers[n] # None THEN "DiscAlreadyConnected"
  ELSE IF n = Self THEN "DiscSelf" ELSE "nil"
CallsSelf(r) == r \in {"DiscSelf", "nil"}

\* Dialer, tasks and counter are only used by the run loop in its select; what dial
\* tasks still do after that has no effect.
LeaveSelect == d' = newDialState /\ tasks' = <<>> /\ queued' = <<>> /\ inboundCount' = 0

\* Form of protoHandshakeChecks that does not repeat the checks.
protoHandshakeChecksOnce(c, useless) == IF useless THEN "DiscUselessPeer" ELSE "nil"

\* protoHandshakeChecks.
protoHandshakeChecks(c, useless) ==
  IF useless THEN "DiscUselessPeer" ELSE encHandshakeChecks(c, conn[c].id)

\* The run loop waits for the lock, for ever, as Stop waits for the run loop.
Blocks ==
  /\ ~LockFree /\ loop' = "blocked"
  /\ LeaveSelect
  /\ UNCHANGED <<stop, listening, conn, peer, peers>>

\* The first checkpoint: the run loop checks a connection whose node is known, and
\* answers.  Nobody else acts in between, but Stop may have, or may just have, come.
Posthandshake(c) ==
  /\ loop = "select" /\ conn[c].st = "enc"
  /\ \E n \in IF conn[c].flag = "inbound" THEN Nodes ELSE {conn[c].id} :
       LET r == encHandshakeChecks(c, n)
       IN  \/ /\ CallsSelf(r) => LockFree
              /\ conn' = [conn EXCEPT ![c] =
                            IF r = "nil" THEN [st |-> "proto", flag |-> @.flag, id |-> n] ELSE Free]
              /\ scheduleTasks(d, IF r = "nil" THEN tasks ELSE TasksAfter(c), peers)
              /\ UNCHANGED <<stop, loop, listening, peer, peers, inboundCount>>
           \/ CallsSelf(r) /\ Blocks

\* The second, after the protocol handshake, in which the two may have found no
\* protocol in common: with no error the connection is a peer before it is told so.
Addpeer(c) ==
  /\ loop = "select" /\ conn[c].st = "proto"
  /\ \E useless \in BOOLEAN :
       LET r == protoHandshakeChecks(c, useless)
       IN  \/ /\ CallsSelf(r) => LockFree
              /\ conn' = [conn EXCEPT ![c] = IF r = "nil" THEN [@ EXCEPT !.st = "peer"] ELSE Free]
              /\ IF r = "nil"
                 THEN /\ peers' = [peers EXCEPT ![conn[c].id] = c]
                      /\ peer' = [peer EXCEPT ![c] = "run"]
                      /\ inboundCount' = inboundCount + (IF conn[c].flag = "inbound" THEN 1 ELSE 0)
                 ELSE UNCHANGED <<peers, peer, inboundCount>>
              /\ scheduleTasks(d, TasksAfter(c), peers')
              /\ UNCHANGED <<stop, loop, listening>>
           \/ CallsSelf(r) /\ Blocks

\* srv.quit is closed: all peers are told to disconnect.  The select of a checkpoint
\* that finds it closed comes here too.
SpinDown ==
  /\ loop = "select" /\ Quit
  /\ peer' = [c \in Conns |-> IF peer[c] = "run" /\ (\E n \in Nodes : peers[n] = c)
                            THEN "closed" ELSE peer[c]]
  /\ loop' = IF Connected = {} THEN "done" ELSE "spindown"
  /\ LeaveSelect
  /\ UNCHANGED <<stop, listening, conn, peers>>

\* delpeer: the goroutine of a peer hands it back, in both loops of run.
Delpeer(c) ==
  /\ peer[c] = "closed" /\ loop \in {"select", "spindown"}
  /\ peers' = [peers EXCEPT ![conn[c].id] = None]
  /\ peer' = [peer EXCEPT ![c] = "none"]
  /\ conn' = [conn EXCEPT ![c] = Free]
  /\ IF loop = "select"
     THEN /\ inboundCount' = inboundCount - (IF conn[c].flag = "inbound" THEN 1 ELSE 0)
          /\ scheduleTasks(d, tasks, peers')
          /\ UNCHANGED loop
     ELSE /\ loop' = IF \A n \in Nodes : peers'[n] = None THEN "done" ELSE "spindown"
          /\ UNCHANGED <<inboundCount, d, tasks, queued>>
  /\ UNCHANGED <<stop, listening>>

\* taskdone.
TaskDone(t) ==
  /\ loop = "select" /\ t \in DOMAIN tasks /\ tasks[t] = "done"
  /\ UNCHANGED <<stop, loop, listening, conn, peer, peers, inboundCount>>
  /\ scheduleTasks(taskDone(d, t), [x \in DOMAIN tasks \ {t} |-> tasks[x]], peers)

\* AddPeer, with the address known before or another one.
AddPeer(n) ==
  /\ loop = "select"
  /\ \E sameAddress \in BOOLEAN :
       scheduleTasks(IF n \in StoremanNodes THEN addStoreman(d, n, sameAddress)
                                            ELSE addStatic(d, n), tasks, peers)
  /\ UNCHANGED <<stop, loop, listening, conn, peer, peers, inboundCount>>

\* RemovePeer, which never takes the leader off the list.
RemovePeer(n) ==
  /\ loop = "select"
  /\ peer' = [c \in Conns |-> IF peers[n] = c /\ peer[c] = "run" THEN "closed" ELSE peer[c]]
  /\ scheduleTasks(IF n = Leader THEN d
                   ELSE IF n \in StoremanNodes THEN removeStoreman(d, n)
                   ELSE removeStatic(d, n), tasks, peers)
  /\ UNCHANGED <<stop, loop, listening, conn, peers, inboundCount>>

\* Peers and PeerCount read the peers in the run loop, which then looks for tasks.
PeerOp ==
  /\ loop = "select"
  /\ UNCHANGED <<stop, loop, listening, conn, peer, peers, inboundCount>>
  /\ scheduleTasks(d, tasks, peers)

\* An entry of the dial history expires.
Expire ==
  /\ d.hist # <<>>
  /\ d' = expire(d)
  /\ UNCHANGED <<stop, loop, listening, conn, peer, peers, inboundCount, tasks, queued>>

\* Stop takes the lock, stops listener and loops, and waits for them.
Stop ==
  /\ stop = "no" /\ stop' = "wait"
  /\ UNCHANGED <<loop, listening, conn, peer, peers, inboundCount, d, tasks, queued>>
StopReturns ==
  /\ stop = "wait" /\ loop = "done" /\ ~listening
  /\ stop' = "returned"
  /\ UNCHANGED <<loop, listening, conn, peer, peers, inboundCount, d, tasks, queued>>

Next ==
  \/ Accept \/ ListenEnds \/ DialConnects \/ DialFails \/ OtherTask
  \/ \E c \in Conns : \/ SetupStart(c) \/ SetupFails(c) \/ PeerEnds(c) \/ HandlerWaits(c)
                       \/ Posthandshake(c) \/ Addpeer(c) \/ Delpeer(c)
  \/ SpinDown
  \/ \E t \in Tasks : TaskDone(t)
  \/ \E n \in Nodes : AddPeer(n) \/ RemovePeer(n)
  \/ PeerOp \/ Expire \/ Stop \/ StopReturns

Spec == Init /\ [][Next]_vars

\* Handshakes have timeouts, and the select of the run loop picks any ready case at
\* random, so that none is passed over for ever.  Nobody has to connect or to leave, no
\* handler has to wait, and nobody has to stop the server.
Fairness ==
  /\ \A c \in Conns : WF_vars(SetupStart(c) \/ SetupFails(c)) /\ WF_vars(Delpeer(c))
  /\ WF_vars(SpinDown \/ ListenEnds \/ StopReturns)

FairSpec == Spec /\ Fairness

-----------------------------------------------------------------------------
(* Properties.                                                             *)

TypeOK ==
  /\ stop \in {"no", "wait", "returned"}
  /\ loop \in {"select", "blocked", "spindown", "done"}
  /\ listening \in BOOLEAN
  /\ \A c \in Conns :
       /\ conn[c].st \in {"free", "start", "enc", "proto", "peer"}
       /\ conn[c].flag \in {"inbound", "static", "storeman", "dyn"}
       /\ conn[c].id \in Nodes \cup {None}
       /\ peer[c] \in {"none", "run", "closed", "self"}
  /\ peers \in [Nodes -> Conns \cup {None}] /\ inboundCount \in Nat
  /\ d.static \subseteq Nodes /\ d.storeman \subseteq StoremanNodes
  /\ d.hist \in Seq(Nodes)
  /\ Cardinality(DOMAIN tasks) <= maxActiveDialTasks

\* The map of the run loop and the goroutines of peers agree: no node has two peers,
\* although two connections to it may be at a checkpoint at the same time; when the run
\* loop waits for the last peers it has told all of them, one that came with Stop
\* included; and no peer goroutine is left when run and Stop have returned ("It blocks
\* until all active connections have been closed").
PeersAreKnown ==
  /\ \A c \in Conns : peer[c] # "none" <=> \E n \in Nodes : peers[n] = c
  /\ \A n \in Nodes : peers[n] # None => conn[peers[n]].id = n
  /\ loop = "spindown" => \A c \in Conns : peer[c] # "run"
  /\ loop = "done" => Connected = {}

\* Peers whose connection came in; peers that are not trusted and whose connection
\* has one of these flags.
Inbound    == {n \in Connected : conn[peers[n]].flag = "inbound"}
Limited(F) == {n \in Connected \ TrustedNodes : conn[peers[n]].flag \in F}

\* Connections that pass a checkpoint together do not exceed the limits together:
\* neither MaxPeers nor, for those that came in, maxInboundConns; and the count of
\* inbound connections the checks rely on is right.
LimitsHold ==
  /\ Cardinality(Limited({"inbound", "dyn"})) <= MaxPeers
  /\ Cardinality(Limited({"inbound"})) <= maxInboundConns
  /\ loop = "select" => inboundCount = Cardinality(Inbound)

\* While a node on the lists of the dialer is neither connected nor dialled there is a
\* task whose end will wake the run loop, so that the node is dialled again: "This
\* should prevent cases where the dialer logic is not ticked because there are no
\* pending events" (dial.go).
DialerTicks ==
  loop = "select" /\ DOMAIN tasks = {} =>
    \A n \in d.static \cup d.storeman : n \in Connected

\* "Stop terminates the server and all active peer connections" (server.go).  It does
\* not when one of those it waits for waits in turn for the lock that Stop holds.
StopTerminates == stop = "wait" ~> stop = "returned"
=============================================================================
