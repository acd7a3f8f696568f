-------------------------- MODULE PeerMeshProofs --------------------------
(***************************************************************************)
(* For every group, and any number of broken connections, failed           *)
(* handshakes and restarts: no connection is left without its handlers, no *)
(* handler without its entry in the peer table, and no node without the    *)
(* task to dial the leader.  That the mesh forms again is for TLC, as it   *)
(* rests on fairness.                                                      *)
(***************************************************************************)
EXTENDS PeerMesh, FiniteSetTheorems, TLAPS

\* Time limits for every step below.
USE SMTT(60), ZenonT(60)

\* What the types leave out; no node talks to itself.
Shape ==
  /\ table \in [Nodes -> SUBSET Nodes] /\ DOMAIN told = Nodes
  /\ \A n \in Nodes : phase[n][n] = "none"

IInv == TypeOK /\ Shape /\ NobodyIsLost

\* A pair of nodes is a set of two, a node alone is not.
LEMMA Pairs ==
  /\ \A n, m : n # m => Cardinality({n, m}) = 2
  /\ \A n : Cardinality({n, n}) = 1
<1>1. ASSUME NEW n, NEW m, n # m PROVE Cardinality({n, m}) = 2
  <2>1. {n, m} = {n} \cup {m} /\ m \notin {n}
    BY <1>1
  <2>2. IsFiniteSet({n}) /\ Cardinality({n}) = 1
    BY ZenonT(60), FS_Singleton
  <2>3. Cardinality({n} \cup {m}) = Cardinality({n}) + 1
    BY <2>1, <2>2, FS_AddElement
  <2> QED  BY <2>1, <2>2, <2>3
<1>2. ASSUME NEW n PROVE Cardinality({n, n}) = 1
  <2>1. {n, n} = {n}
    OBVIOUS
  <2> QED  BY <2>1, FS_Singleton
<1> QED  BY ZenonT(60), <1>1, <1>2

\* Nobody is connected at first, and everybody is to dial the leader.
LEMMA InitIInv == Init => IInv
<1> SUFFICES ASSUME Init PROVE IInv  OBVIOUS
<1> USE MeshAssumption
<1>1. TypeOK
  BY DEF Init, TypeOK, Addresses, FirstDials, Others
<1>2. Shape
  BY DEF Init, Shape
<1>3. NobodyIsLost
  BY DEF Init, NobodyIsLost, FirstDials, Others
<1> QED  BY <1>1, <1>2, <1>3 DEF IInv

-----------------------------------------------------------------------------
(* Connections.                                                            *)

\* What the handlers do to the state of a connection and to the table.
PhaseInv ==
  /\ phase \in [Nodes -> [Nodes -> {"none", "new", "sent", "loop"}]]
  /\ table \in [Nodes -> SUBSET Nodes]
  /\ \A p \in alive : Cardinality(p) = 2 /\ p \subseteq Nodes
  /\ \A n \in Nodes : phase[n][n] = "none" /\ n \notin table[n]
  /\ \A n, m \in Nodes : {n, m} \in alive => phase[n][m] # "none"
  /\ \A n, m \in Nodes : phase[n][m] \in {"sent", "loop"} => m \in table[n]

\* And the exchange of addresses to the rest.
DialInv ==
  /\ addr \in [Nodes -> Addresses]
  /\ dial \in [Nodes -> [Nodes -> Addresses \cup {None}]]
  /\ \A n \in Nodes : dial[n][n] # None => n = Leader /\ NoDiscovery
  /\ \A n \in Others(Leader) : dial[n][Leader] = addr[Leader]
  /\ early \subseteq Nodes \X {Leader}
  /\ port \in [Nodes -> Addresses \cup {None}] /\ port[Leader] = None
  /\ asked \subseteq Others(Leader) /\ DOMAIN told = Nodes
  /\ \A n \in Nodes : \A m \in DOMAIN told[n] : told[n][m] \in Addresses
  /\ faults \in 0..MaxFaults

\* The invariant is that of the phases and that of the dialled addresses.
LEMMA Parts == IInv <=> PhaseInv /\ DialInv
<1>1. ASSUME PhaseInv PROVE \A n \in Nodes : table[n] \subseteq Others(n)
  BY <1>1 DEF PhaseInv, Others
<1>2. ASSUME TypeOK PROVE \A n \in Nodes : n \notin table[n]
  BY <1>2 DEF TypeOK, Others
<1> QED  BY <1>1, <1>2 DEF IInv, TypeOK, Shape, NobodyIsLost, PhaseInv, DialInv

\* Every step keeps what concerns connections.
LEMMA PhaseStep == ASSUME PhaseInv, DialInv, Next PROVE PhaseInv'
<1> USE MeshAssumption
<1>1. ASSUME UNCHANGED <<phase, alive, table>> PROVE PhaseInv'
  BY <1>1 DEF PhaseInv
<1>2. ASSUME NEW n \in Nodes, NEW m \in Nodes, NEW p \in {"none", "new", "sent", "loop"}, Goto(n, m, p)
      PROVE  /\ phase' \in [Nodes -> [Nodes -> {"none", "new", "sent", "loop"}]]
             /\ \A a, b \in Nodes : phase'[a][b] = IF a = n /\ b = m THEN p ELSE phase[a][b]
  BY <1>2 DEF Goto, PhaseInv
<1>3. ASSUME NEW n \in Nodes, NEW m \in Nodes, Dial(n, m) PROVE PhaseInv'
  <2>1. /\ phase' \in [Nodes -> [Nodes -> {"none", "new", "sent", "loop"}]]
        /\ \A a, b \in Nodes :
             phase'[a][b] = IF <<a, b>> \in {<<n, m>>, <<m, n>>} THEN "new" ELSE phase[a][b]
    BY ZenonT(60), <1>3 DEF Dial, PhaseInv
  <2>2. \A p \in alive' : Cardinality(p) = 2 /\ p \subseteq Nodes
    <3>1. Cardinality({n, m}) = 2 /\ {n, m} \subseteq Nodes /\ alive' = alive \cup {{n, m}}
      BY <1>3, Pairs, ZenonT(60) DEF Dial
    <3> QED  BY <3>1, ZenonT(60) DEF PhaseInv
  <2>3. \A a, b \in Nodes : {a, b} \in alive' => phase'[a][b] # "none"
    <3> SUFFICES ASSUME NEW a \in Nodes, NEW b \in Nodes, {a, b} \in alive'
                 PROVE  phase'[a][b] # "none"
      OBVIOUS
    <3>1. CASE {a, b} \in alive
      BY <2>1, <3>1 DEF PhaseInv
    <3>2. CASE {a, b} = {n, m}
      <4>1. <<a, b>> = <<n, m>> \/ <<a, b>> = <<m, n>>
        BY ZenonT(60), <3>2
      <4> QED  BY ZenonT(60), <2>1, <4>1
    <3> QED  BY <1>3, <3>1, <3>2 DEF Dial
  <2>4. table' = table /\ n # m
    BY <1>3 DEF Dial
  <2>5. \A a, b \in Nodes : phase'[a][b] \in {"sent", "loop"} => b \in table'[a]
    BY <2>1, <2>4 DEF PhaseInv
  <2>6. \A a \in Nodes : phase'[a][a] = "none" /\ a \notin table'[a]
    BY <2>1, <2>4 DEF PhaseInv
  <2>7. table' \in [Nodes -> SUBSET Nodes]
    BY <2>4 DEF PhaseInv
  <2> QED  BY <2>1, <2>2, <2>3, <2>5, <2>6, <2>7 DEF PhaseInv
<1>4. ASSUME NEW n \in Nodes, NEW m \in Nodes, Break(n, m) PROVE PhaseInv'
  BY <1>4 DEF Break, Close, PhaseInv
<1>5. ASSUME NEW n \in Nodes, NEW m \in Nodes, HandlePeer(n, m) PROVE PhaseInv'
  <2>1. /\ phase' \in [Nodes -> [Nodes -> {"none", "new", "sent", "loop"}]]
        /\ \A a, b \in Nodes : phase'[a][b] = IF a = n /\ b = m THEN "sent" ELSE phase[a][b]
    BY <1>2, <1>5 DEF HandlePeer
  <2>2. n # m /\ phase[n][m] = "new"
    BY <1>5 DEF HandlePeer, PhaseInv
  <2>3. alive' = alive /\ table' = [table EXCEPT ![n] = @ \cup {m}]
    BY <1>5 DEF HandlePeer
  <2>4. /\ table' \in [Nodes -> SUBSET Nodes]
        /\ \A a \in Nodes : table'[a] = IF a = n THEN table[a] \cup {m} ELSE table[a]
    BY <2>3, ZenonT(60) DEF PhaseInv
  <2>5. \A a, b \in Nodes : phase'[a][b] \in {"sent", "loop"} => b \in table'[a]
    BY <2>1, <2>2, <2>4 DEF PhaseInv
  <2>6. \A a \in Nodes : phase'[a][a] = "none" /\ a \notin table'[a]
    BY <2>1, <2>2, <2>4 DEF PhaseInv
  <2>7. \A a, b \in Nodes : {a, b} \in alive' => phase'[a][b] # "none"
    BY <2>1, <2>2, <2>3 DEF PhaseInv
  <2> QED  BY <2>1, <2>3, <2>4, <2>5, <2>6, <2>7 DEF PhaseInv
<1>6. ASSUME NEW n \in Nodes, NEW m \in Nodes, Handshake(n, m) PROVE PhaseInv'
  <2>1. /\ phase' \in [Nodes -> [Nodes -> {"none", "new", "sent", "loop"}]]
        /\ \A a, b \in Nodes : phase'[a][b] = IF a = n /\ b = m THEN "loop" ELSE phase[a][b]
    BY <1>2, <1>6 DEF Handshake
  <2>2. n # m /\ phase[n][m] = "sent"
    BY <1>6 DEF Handshake, PhaseInv
  <2>3. alive' = alive /\ table' = table
    BY <1>6 DEF Handshake
  <2>4. table' \in [Nodes -> SUBSET Nodes] /\ \A a \in Nodes : table'[a] = table[a]
    BY <2>3 DEF PhaseInv
  <2>5. \A a, b \in Nodes : phase'[a][b] \in {"sent", "loop"} => b \in table'[a]
    BY <2>1, <2>2, <2>4 DEF PhaseInv
  <2>6. \A a \in Nodes : phase'[a][a] = "none" /\ a \notin table'[a]
    BY <2>1, <2>2, <2>4 DEF PhaseInv
  <2>7. \A a, b \in Nodes : {a, b} \in alive' => phase'[a][b] # "none"
    BY <2>1, <2>2, <2>3 DEF PhaseInv
  <2> QED  BY <2>1, <2>3, <2>4, <2>5, <2>6, <2>7 DEF PhaseInv
<1>7. ASSUME NEW n \in Nodes, NEW m \in Nodes, HandshakeFails(n, m) \/ HandshakeTimeOut(n, m)
      PROVE  PhaseInv'
  <2>1. Goto(n, m, "none") /\ alive' = alive \ {{n, m}} /\ table' = table
    BY <1>7 DEF HandshakeFails, HandshakeTimeOut, Close
  <2>2. /\ phase' \in [Nodes -> [Nodes -> {"none", "new", "sent", "loop"}]]
        /\ \A a, b \in Nodes : phase'[a][b] = IF a = n /\ b = m THEN "none" ELSE phase[a][b]
    BY <1>2, <2>1
  <2>3. \A a, b \in Nodes : {a, b} \in alive' => phase'[a][b] # "none"
    BY <2>1, <2>2 DEF PhaseInv
  <2>4. \A a, b \in Nodes : phase'[a][b] \in {"sent", "loop"} => b \in table'[a]
    BY <2>1, <2>2 DEF PhaseInv
  <2>5. \A a \in Nodes : phase'[a][a] = "none" /\ a \notin table'[a]
    BY <2>1, <2>2 DEF PhaseInv
  <2> QED  BY <2>1, <2>2, <2>3, <2>4, <2>5 DEF PhaseInv
<1>8. ASSUME NEW n \in Nodes, NEW m \in Nodes, LoopEnds(n, m) PROVE PhaseInv'
  <2>1. /\ phase' \in [Nodes -> [Nodes -> {"none", "new", "sent", "loop"}]]
        /\ \A a, b \in Nodes : phase'[a][b] = IF a = n /\ b = m THEN "none" ELSE phase[a][b]
    BY <1>2, <1>8 DEF LoopEnds
  <2>2. phase[n][m] = "loop" /\ {n, m} \notin alive
    BY <1>8 DEF LoopEnds
  <2>3. alive' = alive /\ table' = [table EXCEPT ![n] = @ \ {m}]
    BY <1>8 DEF LoopEnds
  <2>4. /\ table' \in [Nodes -> SUBSET Nodes]
        /\ \A a \in Nodes : table'[a] = IF a = n THEN table[a] \ {m} ELSE table[a]
    BY <2>3, ZenonT(60) DEF PhaseInv
  <2>5. \A a, b \in Nodes : phase'[a][b] \in {"sent", "loop"} => b \in table'[a]
    BY <2>1, <2>2, <2>4 DEF PhaseInv
  <2>6. \A a \in Nodes : phase'[a][a] = "none" /\ a \notin table'[a]
    BY <2>1, <2>2, <2>4 DEF PhaseInv
  <2>7. \A a, b \in Nodes : {a, b} \in alive' => phase'[a][b] # "none"
    <3> SUFFICES ASSUME NEW a \in Nodes, NEW b \in Nodes, {a, b} \in alive'
                 PROVE  phase'[a][b] # "none"
      OBVIOUS
    <3>1. {a, b} \in alive /\ ~(a = n /\ b = m)
      BY <2>2, <2>3, ZenonT(60)
    <3>2. phase[a][b] # "none"
      BY <3>1, ZenonT(60) DEF PhaseInv
    <3> QED  BY <2>1, <3>1, <3>2, ZenonT(60)
  <2> QED  BY <2>1, <2>3, <2>4, <2>5, <2>6, <2>7 DEF PhaseInv
<1>9. ASSUME NEW n \in Nodes, Restart(n) PROVE PhaseInv'
  <2>1. /\ phase' \in [Nodes -> [Nodes -> {"none", "new", "sent", "loop"}]]
        /\ \A a, b \in Nodes : phase'[a][b] = IF a = n THEN "none" ELSE phase[a][b]
    BY <1>9 DEF Restart, PhaseInv
  <2>2. alive' = {p \in alive : n \notin p} /\ table' = [table EXCEPT ![n] = {}]
    BY <1>9 DEF Restart
  <2> QED  BY <2>1, <2>2 DEF PhaseInv
<1>10. ASSUME NEW n \in Nodes, CheckPeerInfo(n) \/ GetPeersInfo(n) \/ AllPeersInfo(n) PROVE PhaseInv'
  BY <1>1, <1>10 DEF CheckPeerInfo, GetPeersInfo, AllPeersInfo, links
<1> QED  BY <1>3, <1>4, <1>5, <1>6, <1>7, <1>8, <1>9, <1>10 DEF Next, Steps

-----------------------------------------------------------------------------
(* Addresses.                                                              *)

\* Closing a connection drops what is on its way.
LEMMA CloseKeeps ==
  ASSUME DialInv, NEW n \in Nodes, NEW m \in Nodes, Close(n, m)
  PROVE  /\ asked' \subseteq Others(Leader) /\ DOMAIN told' = Nodes
         /\ \A k \in Nodes : \A j \in DOMAIN told'[k] : told'[k][j] \in Addresses
<1>1. asked' \subseteq asked
  BY DEF Close
<1>2. \A k \in Nodes : told'[k] = <<>> \/ told'[k] = told[k]
  BY DEF Close
<1>3. DOMAIN told' = Nodes /\ DOMAIN <<>> = {}
  BY DEF Close
<1> QED  BY <1>1, <1>2, <1>3, ZenonT(60) DEF DialInv

\* The task that addStoreman leaves.
LEMMA AddStoremanType ==
  ASSUME NEW old \in Addresses \cup {None}, NEW new \in Addresses
  PROVE  /\ AddStoreman(old, new) \in Addresses \cup {None}
         /\ AddStoreman(new, new) = new
BY DEF AddStoreman

\* Every step keeps what concerns addresses.
LEMMA AddressStep == ASSUME PhaseInv, DialInv, Next PROVE DialInv'
<1> USE MeshAssumption
<1>1. ASSUME UNCHANGED <<addr, dial, port, asked, told>>,
             early' \subseteq early, faults' \in 0..MaxFaults
      PROVE  DialInv'
  BY <1>1 DEF DialInv, Addresses
<1>2. ASSUME Fault PROVE faults' \in 1..MaxFaults
  BY <1>2 DEF Fault, DialInv
<1>3. faults \in 0..MaxFaults
  BY DEF DialInv
<1>4. ASSUME NEW n \in Nodes, NEW m \in Nodes,
             Dial(n, m) \/ HandlePeer(n, m) \/ Handshake(n, m)
      PROVE  DialInv'
  BY <1>1, <1>3, <1>4, ZenonT(60) DEF Dial, HandlePeer, Handshake
<1>5. ASSUME NEW n \in Nodes, NEW m \in Nodes,
             Break(n, m) \/ HandshakeFails(n, m) \/ HandshakeTimeOut(n, m)
      PROVE  DialInv'
  <2>1. /\ Close(n, m) /\ UNCHANGED <<addr, dial, port>> /\ early' \subseteq early
        /\ faults' = faults \/ Fault
    BY <1>5 DEF Break, HandshakeFails, HandshakeTimeOut
  <2>2. faults' \in 0..MaxFaults
    BY <1>2, <1>3, <2>1
  <2>3. early' \subseteq Nodes \X {Leader}
    BY <2>1 DEF DialInv
  <2> QED  BY <2>1, <2>2, <2>3, CloseKeeps DEF DialInv, Addresses
<1>6. ASSUME NEW n \in Nodes, NEW m \in Nodes, LoopEnds(n, m) PROVE DialInv'
  <2>1. CASE m = Leader
    BY <1>1, <1>3, <1>6, <2>1, ZenonT(60) DEF LoopEnds
  <2>2. CASE m # Leader
    <3>1. /\ dial' = [dial EXCEPT ![n][m] = None] /\ UNCHANGED <<addr, port, asked, told, faults>>
          /\ early' \subseteq early
      BY <1>6, <2>2 DEF LoopEnds
    <3>2. dial' \in [Nodes -> [Nodes -> Addresses \cup {None}]]
          /\ \A a, b \in Nodes : dial'[a][b] = IF a = n /\ b = m THEN None ELSE dial[a][b]
      BY <3>1 DEF DialInv
    <3>3. /\ \A a \in Nodes : dial'[a][a] # None => a = Leader /\ NoDiscovery
          /\ \A a \in Others(Leader) : dial'[a][Leader] = addr'[Leader]
      BY <2>2, <3>1, <3>2 DEF DialInv, Others
    <3> QED  BY <3>1, <3>2, <3>3 DEF DialInv, Addresses
  <2> QED  BY <2>1, <2>2
<1>7. ASSUME NEW n \in Nodes, Restart(n) PROVE DialInv'
  <2>1. faults' \in 1..MaxFaults
    BY <1>2, <1>7 DEF Restart
  <2>2. addr' \in [Nodes -> Addresses] /\ addr'[Leader] = addr[Leader]
    <3>1. CASE addr' = addr
      BY <3>1 DEF DialInv
    <3>2. CASE n # Leader /\ addr' = [addr EXCEPT ![n] = faults']
      BY <2>1, <3>2 DEF DialInv, Addresses
    <3> QED  BY <1>7, <3>1, <3>2 DEF Restart
  <2>3. dial' = [dial EXCEPT ![n] = FirstDials(n)]
    BY <1>7 DEF Restart
  <2>4. /\ FirstDials(n) \in [Nodes -> Addresses \cup {None}]
        /\ FirstDials(n)[n] # None => n = Leader /\ NoDiscovery
        /\ n # Leader => FirstDials(n)[Leader] = addr[Leader]
    BY DEF FirstDials, DialInv
  <2>5. /\ dial' \in [Nodes -> [Nodes -> Addresses \cup {None}]]
        /\ \A a \in Nodes : dial'[a] = IF a = n THEN FirstDials(n) ELSE dial[a]
    BY <2>3, <2>4, ZenonT(60) DEF DialInv
  <2>6. /\ \A a \in Nodes : dial'[a][a] # None => a = Leader /\ NoDiscovery
        /\ \A a \in Others(Leader) : dial'[a][Leader] = addr'[Leader]
    BY <2>2, <2>4, <2>5 DEF DialInv, Others
  <2>7. early' \subseteq Nodes \X {Leader} /\ asked' \subseteq Others(Leader)
    BY <1>7 DEF Restart, DialInv
  <2>8. port' \in [Nodes -> Addresses \cup {None}] /\ port'[Leader] = None
    BY <1>7 DEF Restart, DialInv
  <2>9. /\ DOMAIN told' = Nodes
        /\ \A k \in Nodes : \A j \in DOMAIN told'[k] : told'[k][j] \in Addresses
    <3>1. DOMAIN told' = Nodes /\ \A k \in Nodes : told'[k] = <<>> \/ told'[k] = told[k]
      BY <1>7 DEF Restart
    <3>2. DOMAIN <<>> = {}
      OBVIOUS
    <3> QED  BY <3>1, <3>2, ZenonT(60) DEF DialInv
  <2>10. Addresses' = Addresses
    BY DEF Addresses
  <2> QED  BY <2>1, <2>2, <2>5, <2>6, <2>7, <2>8, <2>9, <2>10 DEF DialInv
<1>8. ASSUME NEW n \in Nodes, CheckPeerInfo(n) PROVE DialInv'
  <2>1. n # Leader /\ UNCHANGED <<addr, port, told>> /\ dial[n][Leader] = addr[Leader]
    BY <1>8 DEF CheckPeerInfo, DialInv, Others
  <2>2. dial' = [dial EXCEPT ![n][Leader] = AddStoreman(@, addr[Leader])] => dial' = dial
    BY <2>1, AddStoremanType DEF DialInv
  <2>3. dial' = dial
    BY <1>8, <2>2, ZenonT(60) DEF CheckPeerInfo
  <2>4. early' \subseteq early \cup {<<n, Leader>>} /\ asked' \subseteq asked \cup {n}
        /\ (faults' = faults \/ Fault)
    BY <1>8 DEF CheckPeerInfo
  <2>5. early' \subseteq Nodes \X {Leader} /\ asked' \subseteq Others(Leader)
    BY <2>1, <2>4 DEF DialInv, Others
  <2>6. faults' \in 0..MaxFaults
    BY <1>2, <1>3, <2>4
  <2> QED  BY <2>1, <2>3, <2>5, <2>6 DEF DialInv, Addresses
<1>9. ASSUME NEW n \in Nodes, GetPeersInfo(n) PROVE DialInv'
  <2>1. /\ UNCHANGED <<addr, dial, early, faults>> /\ asked' \subseteq asked /\ n \in asked
        /\ port' = [port EXCEPT ![n] = addr[n]]
        /\ told' = [told EXCEPT ![n] =
             [m \in {k \in table[Leader] : port'[k] # None} |-> port'[m]]]
    BY <1>9 DEF GetPeersInfo, links
  <2>2. n # Leader
    BY <2>1 DEF DialInv, Others
  <2>3. port' \in [Nodes -> Addresses \cup {None}] /\ port'[Leader] = None
    BY <2>1, <2>2 DEF DialInv
  <2> DEFINE ans == [m \in {k \in table[Leader] : port'[k] # None} |-> port'[m]]
  <2>4. \A j \in DOMAIN ans : ans[j] \in Addresses
    BY <2>3 DEF PhaseInv
  <2>5. told' = [told EXCEPT ![n] = ans]
    BY <2>1
  <2> HIDE DEF ans
  <2>6. DOMAIN told' = Nodes /\ \A k \in Nodes : told'[k] = IF k = n THEN ans ELSE told[k]
    BY <2>5 DEF DialInv
  <2>7. \A k \in Nodes : \A j \in DOMAIN told'[k] : told'[k][j] \in Addresses
    BY <2>4, <2>6, ZenonT(60) DEF DialInv
  <2> QED  BY <2>1, <2>3, <2>6, <2>7, ZenonT(60) DEF DialInv, Addresses
<1>10. ASSUME NEW n \in Nodes, AllPeersInfo(n) PROVE DialInv'
  <2> DEFINE new == [m \in Nodes |-> IF m \in DOMAIN told[n] \ {n, Leader}
                                     THEN AddStoreman(dial[n][m], told[n][m]) ELSE dial[n][m]]
  <2>1. /\ UNCHANGED <<addr, early, port, asked, faults>>
        /\ told' = [told EXCEPT ![n] = <<>>] /\ dial' = [dial EXCEPT ![n] = new]
    BY <1>10 DEF AllPeersInfo, links
  <2>2. /\ new \in [Nodes -> Addresses \cup {None}] /\ new[Leader] = dial[n][Leader]
        /\ new[n] # None => n = Leader /\ NoDiscovery
    <3>1. /\ \A m \in Nodes : dial[n][m] \in Addresses \cup {None}
          /\ dial[n][n] # None => n = Leader /\ NoDiscovery
      BY DEF DialInv
    <3>2. \A m \in DOMAIN told[n] : told[n][m] \in Addresses
      BY DEF DialInv
    <3>3. \A m \in Nodes : new[m] \in Addresses \cup {None}
      BY <3>1, <3>2, AddStoremanType
    <3> QED  BY <3>1, <3>3
  <2> HIDE DEF new
  <2>3. /\ dial' \in [Nodes -> [Nodes -> Addresses \cup {None}]]
        /\ \A a \in Nodes : dial'[a] = IF a = n THEN new ELSE dial[a]
    BY <2>1, <2>2, ZenonT(60) DEF DialInv
  <2>4. /\ \A a \in Nodes : dial'[a][a] # None => a = Leader /\ NoDiscovery
        /\ \A a \in Others(Leader) : dial'[a][Leader] = addr'[Leader]
    BY <2>1, <2>2, <2>3 DEF DialInv, Others
  <2>5. DOMAIN told' = Nodes /\ \A k \in Nodes : told'[k] = <<>> \/ told'[k] = told[k]
    BY <2>1 DEF DialInv
  <2>6. \A k \in Nodes : \A j \in DOMAIN told'[k] : told'[k][j] \in Addresses
    <3>1. DOMAIN <<>> = {}
      OBVIOUS
    <3> QED  BY <2>5, <3>1, ZenonT(60) DEF DialInv
  <2> QED  BY <2>1, <2>3, <2>4, <2>5, <2>6 DEF DialInv, Addresses
<1> QED  BY <1>4, <1>5, <1>6, <1>7, <1>8, <1>9, <1>10 DEF Next, Steps

-----------------------------------------------------------------------------
(* The theorems.                                                           *)

\* Every step keeps the invariant.
LEMMA StepIInv == ASSUME IInv, [Next]_vars PROVE IInv'
<1>1. PhaseInv /\ DialInv
  BY Parts
<1>2. PhaseInv' /\ DialInv'
  <2>1. CASE Next
    BY <1>1, <2>1, PhaseStep, AddressStep
  <2>2. CASE UNCHANGED vars
    BY <1>1, <2>2 DEF vars, PhaseInv, DialInv, Addresses, Others
  <2> QED  BY <2>1, <2>2
<1>3. ASSUME PhaseInv' PROVE \A n \in Nodes : table'[n] \subseteq Others(n)
  BY <1>3 DEF PhaseInv, Others
<1> QED  BY <1>2, <1>3 DEF IInv, TypeOK, Shape, NobodyIsLost, PhaseInv, DialInv

\* The types; whatever addresses it is told, no node is in its own peer table or has a
\* task to dial itself, but for a leader started without discovery; and the leader
\* never has a port.
THEOREM TypeCorrect == Spec => []TypeOK
<1>1. IInv => TypeOK
  BY DEF IInv
<1> QED  BY <1>1, InitIInv, StepIInv, PTL DEF Spec

\* Whatever breaks, fails and restarts, and however often: connections have their
\* handlers, handlers their entry in sm.peers, and every node its task for the leader.
THEOREM NobodyIsEverLost == Spec => []NobodyIsLost
<1>1. IInv => NobodyIsLost
  BY DEF IInv
<1> QED  BY <1>1, InitIInv, StepIInv, PTL DEF Spec
=============================================================================
