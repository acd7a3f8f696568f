----------------------------- MODULE PeerMesh -----------------------------
(***************************************************************************)
(* How the nodes of a storeman group find each other: the peer table of    *)
(* storeman.go, the handshake of peer.go, the storeman dial tasks of the   *)
(* p2p server, and the exchange of addresses through the leader, the first *)
(* of the configured nodes, whose address everybody knows.                 *)
(*                                                                         *)
(* The IP address of a node is taken from its connection and is right; the *)
(* port is what the node has said last, and is its address here.  A        *)
(* connection comes up in one step and at most one at a time between two   *)
(* nodes, as the p2p server sees to.                                       *)
(***************************************************************************)
EXTENDS Naturals, FiniteSets

CONSTANTS
  Nodes,     \* StoremanNodes
  Leader,    \* StoremanNodes[0]
  NoDiscovery,  \* whether discovery is off (--nodiscover)
  None,      \* no address
  MaxFaults  \* how many connections break, handshakes fail and nodes restart

ASSUME MeshAssumption ==
  /\ Leader \in Nodes /\ NoDiscovery \in BOOLEAN
  /\ MaxFaults \in Nat /\ None \notin 0..MaxFaults

Addresses == 0..MaxFaults

VARIABLES
  addr,    \* where a node listens
  dial,    \* the dial task a node has for another: an address or None
  alive,   \* the pairs of nodes between which there is a connection
  phase,   \* phase[n][m]: where HandlePeer of n for m is
  early,   \* <<n, m>>: n has sent m a message before the status
  table,   \* sm.peers
  port,    \* sm.peersPort of the leader
  asked,   \* the nodes whose GetPeersInfo is on its way to the leader
  told,    \* AllPeersInfo on its way to a node: addresses, or None
  faults   \* how much has gone wrong
links == <<alive, phase, early>>
vars == <<addr, dial, alive, phase, early, table, port, asked, told, faults>>

Others(n) == Nodes \ {n}

\* newDialState has a task for the leader only, on the leader too, where the first
\* newTasks of the run loop removes it; but without discovery checkDial does not know
\* errSelf.
FirstDials(n) ==
  [m \in Nodes |-> IF m = Leader /\ (n = Leader => NoDiscovery) THEN addr[Leader] ELSE None]

Init ==
  /\ addr = [n \in Nodes |-> 0]
  /\ dial = [n \in Nodes |-> FirstDials(n)]
  /\ alive = {}
  /\ phase = [n \in Nodes |-> [m \in Nodes |-> "none"]]
  /\ early = {}
  /\ table = [n \in Nodes |-> {}]
  /\ port = [n \in Nodes |-> None]
  /\ asked = {}
  /\ told = [n \in Nodes |-> <<>>]
  /\ faults = 0

Fault == faults < MaxFaults /\ faults' = faults + 1

Goto(n, m, p) == phase' = [phase EXCEPT ![n][m] = p]

-----------------------------------------------------------------------------
(* Connections.                                                            *)

\* A dial task of newTasks succeeds when the address is right and neither node
\* has the other as a p2p peer; both servers call HandlePeer.  A node that dials itself
\* gets DiscSelf, and nothing changes.
Dial(n, m) ==
  /\ m # n /\ dial[n][m] = addr[m]
  /\ phase[n][m] = "none" /\ phase[m][n] = "none"
  /\ alive' = alive \cup {{n, m}}
  /\ phase' = [phase EXCEPT ![n][m] = "new", ![m][n] = "new"]
  /\ UNCHANGED <<addr, dial, early, table, port, asked, told, faults>>

\* The connection between n and m is closed, with all that is on its way.
Close(n, m) ==
  /\ alive' = alive \ {{n, m}}
  /\ asked' = asked \ (IF n = Leader THEN {m} ELSE IF m = Leader THEN {n} ELSE {})
  /\ told' = [k \in Nodes |-> IF {k, Leader} = {n, m} THEN <<>> ELSE told[k]]

Break(n, m) ==
  /\ {n, m} \in alive /\ Fault
  /\ Close(n, m)
  /\ UNCHANGED <<addr, dial, phase, early, table, port>>

\* HandlePeer puts the peer into the table, and handshake sends the status.
HandlePeer(n, m) ==
  /\ phase[n][m] = "new"
  /\ Goto(n, m, "sent")
  /\ table' = [table EXCEPT ![n] = @ \cup {m}]
  /\ UNCHANGED <<addr, dial, alive, early, port, asked, told, faults>>

Handshake(n, m) ==
  /\ phase[n][m] = "sent" /\ {n, m} \in alive
  /\ phase[m][n] \in {"sent", "loop"} /\ <<m, n>> \notin early
  /\ Goto(n, m, "loop")
  /\ UNCHANGED <<addr, dial, alive, early, table, port, asked, told, faults>>

\* Mutant: a failed handshake removes the dial task, the leader's included.
HandshakeFailsUndials(n, m) ==
  /\ phase[n][m] = "sent"
  /\ {n, m} \notin alive \/ <<m, n>> \in early
  /\ Goto(n, m, "none")
  /\ Close(n, m)
  /\ early' = early \ {<<m, n>>}
  /\ dial' = [dial EXCEPT ![n][m] = None]
  /\ UNCHANGED <<addr, table, port, faults>>

\* Mutant: the connection stays open after a failed handshake.
HandshakeFailsOpen(n, m) ==
  /\ phase[n][m] = "sent"
  /\ {n, m} \notin alive \/ <<m, n>> \in early
  /\ Goto(n, m, "none")
  /\ early' = early \ {<<m, n>>}
  /\ UNCHANGED <<addr, dial, alive, table, port, asked, told, faults>>

\* handshake returns an error: the connection is gone, the other node has sent
\* something else before its status, or the timer has fired.  HandlePeer returns,
\* the p2p server closes the connection, and the peer stays in the table.
HandshakeFails(n, m) ==
  /\ phase[n][m] = "sent"
  /\ {n, m} \notin alive \/ <<m, n>> \in early
  /\ Goto(n, m, "none")
  /\ Close(n, m)
  /\ early' = early \ {<<m, n>>}
  /\ UNCHANGED <<addr, dial, table, port, faults>>
HandshakeTimeOut(n, m) ==
  /\ phase[n][m] = "sent" /\ Fault
  /\ Goto(n, m, "none")
  /\ Close(n, m)
  /\ early' = early \ {<<m, n>>}
  /\ UNCHANGED <<addr, dial, table, port>>

\* runMessageLoop returns when the connection is gone; the deferred function
\* removes the peer and, unless it is the leader, its dial task.
LoopEnds(n, m) ==
  /\ phase[n][m] = "loop" /\ {n, m} \notin alive
  /\ Goto(n, m, "none")
  /\ table' = [table EXCEPT ![n] = @ \ {m}]
  /\ dial' = IF m = Leader THEN dial ELSE [dial EXCEPT ![n][m] = None]
  /\ early' = early \ {<<m, n>>}
  /\ UNCHANGED <<addr, alive, port, asked, told, faults>>

\* A node is restarted, perhaps with another port; the leader keeps its own.
Restart(n) ==
  /\ Fault
  /\ addr' \in IF n = Leader THEN {addr} ELSE {addr, [addr EXCEPT ![n] = faults']}
  /\ alive' = {p \in alive : n \notin p}
  /\ phase' = [phase EXCEPT ![n] = [m \in Nodes |-> "none"]]
  /\ early' = {e \in early : n \notin {e[1], e[2]}}
  /\ table' = [table EXCEPT ![n] = {}]
  /\ dial' = [dial EXCEPT ![n] = FirstDials(n)]
  /\ port' = IF n = Leader THEN [m \in Nodes |-> None] ELSE port
  /\ asked' = IF n = Leader THEN {} ELSE asked \ {n}
  /\ told' = [m \in Nodes |-> IF n \in {m, Leader} THEN <<>> ELSE told[m]]

-----------------------------------------------------------------------------
(* The exchange of addresses.                                              *)

\* Mutant: a task that is there is kept.
AddStoremanKeeps(old, new) == IF old # None THEN old ELSE new

\* addStoreman: a task with another address is removed, and nothing is added.
AddStoreman(old, new) == IF old \notin {None, new} THEN None ELSE new

\* The ticker of checkPeerInfo: IsActivePeer looks into the table.  The question
\* may overtake the status, which a goroutine sends, and then makes the handshake
\* of the leader fail; on a dead connection it is lost.  The ticker is slow: the
\* answer to the last question has come.
CheckPeerInfo(n) ==
  /\ n # Leader /\ n \notin asked /\ told[n] = <<>>
  /\ \/ /\ Leader \notin table[n]
        /\ dial' = [dial EXCEPT ![n][Leader] = AddStoreman(@, addr[Leader])]
        /\ UNCHANGED <<asked, early, faults>>
     \/ /\ Leader \in table[n] /\ phase[n][Leader] = "sent"
        /\ phase[Leader][n] # "loop" /\ {n, Leader} \in alive /\ Fault
        /\ early' = early \cup {<<n, Leader>>}
        /\ UNCHANGED <<asked, dial>>
     \/ /\ Leader \in table[n] /\ phase[n][Leader] \in {"sent", "loop"}
        /\ {n, Leader} \in alive
        /\ asked' = asked \cup {n}
        /\ UNCHANGED <<dial, early, faults>>
     \/ /\ Leader \in table[n]
        /\ {n, Leader} \notin alive \/ phase[n][Leader] \in {"none", "new"}
        /\ UNCHANGED <<asked, dial, early, faults>>
  /\ UNCHANGED <<addr, alive, phase, table, port, told>>

\* The leader notes the port and answers with all peers in its table whose port it
\* knows, dead ones included.
GetPeersInfo(n) ==
  /\ n \in asked /\ phase[Leader][n] = "loop"
  /\ asked' = asked \ {n}
  /\ port' = [port EXCEPT ![n] = addr[n]]
  /\ told' = [told EXCEPT ![n] =
       [m \in {k \in table[Leader] : port'[k] # None} |-> port'[m]]]
  /\ UNCHANGED <<addr, dial, links, table, faults>>

\* Mutant: a node does not leave itself out.
AllPeersInfoOwn(n) ==
  /\ told[n] # <<>> /\ phase[n][Leader] = "loop"
  /\ told' = [told EXCEPT ![n] = <<>>]
  /\ dial' = [dial EXCEPT ![n] = [m \in Nodes |->
       IF m \in DOMAIN told[n] \ {Leader}
       THEN AddStoreman(dial[n][m], told[n][m]) ELSE dial[n][m]]]
  /\ UNCHANGED <<addr, links, table, port, asked, faults>>

\* A node adds all peers it is told of but itself and the leader.
AllPeersInfo(n) ==
  /\ told[n] # <<>> /\ phase[n][Leader] = "loop"
  /\ told' = [told EXCEPT ![n] = <<>>]
  /\ dial' = [dial EXCEPT ![n] = [m \in Nodes |->
       IF m \in DOMAIN told[n] \ {n, Leader}
       THEN AddStoreman(dial[n][m], told[n][m]) ELSE dial[n][m]]]
  /\ UNCHANGED <<addr, links, table, port, asked, faults>>

-----------------------------------------------------------------------------
Steps(n, m) ==
  \/ HandlePeer(n, m) \/ Handshake(n, m)
  \/ HandshakeFails(n, m) \/ LoopEnds(n, m)

Next ==
  \/ \E n, m \in Nodes :
       Dial(n, m) \/ Steps(n, m) \/ HandshakeTimeOut(n, m) \/ Break(n, m)
  \/ \E n \in Nodes :
       CheckPeerInfo(n) \/ GetPeersInfo(n) \/ AllPeersInfo(n) \/ Restart(n)

\* Goroutines are scheduled, the ticker ticks, a dial to the right address
\* succeeds in the end.
Spec ==
  /\ Init /\ [][Next]_vars
  /\ \A n, m \in Nodes : WF_vars(Dial(n, m)) /\ WF_vars(Steps(n, m))
  /\ \A n \in Nodes :
       WF_vars(CheckPeerInfo(n)) /\ WF_vars(GetPeersInfo(n)) /\ WF_vars(AllPeersInfo(n))

-----------------------------------------------------------------------------
(* Properties.                                                             *)

\* Every variable has its type; no node is its own peer, nor has a task to dial itself
\* (the first condition of the loop over AllPeersInfo) but for the one a leader without
\* discovery was started with; and the leader has no port, as it never runs
\* checkPeerInfo.
TypeOK ==
  /\ addr \in [Nodes -> Addresses]
  /\ dial \in [Nodes -> [Nodes -> Addresses \cup {None}]]
  /\ \A n \in Nodes : dial[n][n] # None => n = Leader /\ NoDiscovery
  /\ \A p \in alive : Cardinality(p) = 2 /\ p \subseteq Nodes
  /\ phase \in [Nodes -> [Nodes -> {"none", "new", "sent", "loop"}]]
  /\ early \subseteq Nodes \X {Leader}
  /\ \A n \in Nodes : table[n] \subseteq Others(n)
  /\ port \in [Nodes -> Addresses \cup {None}] /\ port[Leader] = None
  /\ asked \subseteq Others(Leader)
  /\ \A n \in Nodes : \A m \in DOMAIN told[n] : told[n][m] \in Addresses
  /\ faults \in 0..MaxFaults

\* What keeps the group from falling apart for good.  No connection is open that
\* HandlePeer has left, at either end: the servers would take the two for peers and
\* never dial again.  Whoever HandlePeer is busy with is in sm.peers, so that
\* IsActivePeer does not make checkPeerInfo dial a node that is connected.  And nobody
\* loses the task to dial the leader: LoopEnds, AddStoreman and AllPeersInfo all spare
\* it, each in its own way.
NobodyIsLost ==
  /\ \A n, m \in Nodes : {n, m} \in alive => phase[n][m] # "none"
  /\ \A n, m \in Nodes : phase[n][m] \in {"sent", "loop"} => m \in table[n]
  /\ \A n \in Others(Leader) : dial[n][Leader] = addr[Leader]

\* Once connections stay up, every node reads messages of every other
\* (runMessageLoop): a failed handshake that leaves its peer in sm.peers, a message
\* before the status, a stale entry of the leader's answer and a restart with
\* another port are all got over.
MeshForms == <>[](\A n \in Nodes : \A m \in Others(n) : phase[n][m] = "loop")

\* No node goes on for ever with a task for an address that has changed, although
\* addStoreman only removes the old task and waits to be told again.
AddressesSettle ==
  <>[](\A n, m \in Nodes : dial[n][m] \in {None, addr[m]})
=============================================================================
