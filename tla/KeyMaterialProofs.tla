------------------------- MODULE KeyMaterialProofs -------------------------
(***************************************************************************)
(* The lists of peers and seeds come back as they were: from a message for *)
(* a group that one byte can index, and from a keystore for a group that   *)
(* its 66 bytes have room for.  So the seeds of such a group, of any       *)
(* order and threshold, stay the seeds the leader drew.  With what         *)
(* SchnorrProofs says of Lagrange, any Degree + 1 shares then make the     *)
(* group's key and signatures that verify, and Degree shares fit every     *)
(* secret.                                                                 *)
(***************************************************************************)
EXTENDS KeyMaterial, SchnorrProofs

\* Time limits for every step below.
USE SMTT(60), ZenonT(60)

-----------------------------------------------------------------------------
(* PeerCodec.                                                              *)

\* The low three bytes of a seed are bytes, and give the seed back.
LEMMA Low3Inverse ==
  ASSUME NEW x \in Seeds
  PROVE  /\ \A j \in 1..3 : Low3(x)[j] \in 0..255
         /\ Uint64(Low3(x)[1], Low3(x)[2], Low3(x)[3]) = x
<1>1. x \in Nat /\ x < 16777216
  <2>1. MaxSeed \in Nat /\ MaxSeed < 16777216
    BY SMTT(60) DEF MaxSeed
  <2> QED  BY <2>1, SMTT(60) DEF Seeds
<1>2. /\ Low3(x)[1] = (x \div 65536) % 256
      /\ Low3(x)[2] = (x \div 256) % 256
      /\ Low3(x)[3] = x % 256
  BY SMTT(60) DEF Low3
<1>3. 65536 * ((x \div 65536) % 256) + 256 * ((x \div 256) % 256) + (x % 256) = x
  BY <1>1, SMTT(60)
<1>4. \A j \in 1..3 : Low3(x)[j] \in 0..255
  <2>1. /\ (x \div 65536) % 256 \in 0..255
        /\ (x \div 256) % 256 \in 0..255
        /\ x % 256 \in 0..255
    BY <1>1, SMTT(60)
  <2>2. \A j \in 1..3 : j = 1 \/ j = 2 \/ j = 3
    BY SMTT(60)
  <2> QED  BY <1>2, <2>1, <2>2
<1> QED  BY <1>2, <1>3, <1>4, SMTT(60) DEF Uint64

\* A list of peers as RequestMpcStep and loadStoremanAddress make it: one for every
\* node, in the order of the group.
PeerLists == {[i \in 1..N |-> [id |-> Group[i], seed |-> x[i]]] : x \in [1..N -> Seeds]}

\* The index of a node of a group that one byte can index is its place.
LEMMA IndexOfNode ==
  ASSUME N <= 256, NEW i \in 1..N
  PROVE  storeManIndex(Group[i]) = i - 1
<1>1. (CHOOSE j \in 1..N : Group[j] = Group[i]) = i
  BY GroupAssumption
<1>2. (i - 1) % 256 = i - 1
  BY GroupAssumption, SMTT(60)
<1> QED  BY <1>1, <1>2, ZenonT(60) DEF storeManIndex, byte

\* getMessagePeers gives back the list that SetMessagePeers has put into a message,
\* when the group has no more nodes than a byte can count.
THEOREM PeersRoundTrip ==
  ASSUME N <= 256, NEW list \in PeerLists
  PROVE  getMessagePeers(SetMessagePeers(list)) = list
<1>1. PICK x \in [1..N -> Seeds] :
        list = [i \in 1..N |-> [id |-> Group[i], seed |-> x[i]]]
  BY DEF PeerLists
<1>2. N \in Nat /\ N > 0
  BY GroupAssumption
<1>3. Len(list) = N
  BY <1>1, <1>2, SMTT(60)
<1> DEFINE b == SetMessagePeers(list)
           item(k) == LET i == (k - 1) \div 4 + 1
                          j == (k - 1) % 4
                      IN  IF j = 0 THEN storeManIndex(list[i].id) ELSE Low3(list[i].seed)[j]
<1>4. b = [k \in 1..(4 * N) |-> item(k)]
  BY <1>3 DEF SetMessagePeers
<1>5. Len(b) = 4 * N
  <2>1. 4 * N \in Nat
    BY <1>2, SMTT(60)
  <2> HIDE DEF item
  <2> QED  BY <1>4, <2>1, SMTT(60)
<1>6. ASSUME NEW i \in 1..N
      PROVE  /\ b[4 * i - 3] = i - 1
             /\ Uint64(b[4 * i - 2], b[4 * i - 1], b[4 * i]) = x[i]
  <2>1. /\ 4 * i - 3 \in 1..(4 * N)
        /\ 4 * i - 2 \in 1..(4 * N)
        /\ 4 * i - 1 \in 1..(4 * N)
        /\ 4 * i \in 1..(4 * N)
    BY <1>2, SMTT(60)
  <2>2. /\ b[4 * i - 3] = item(4 * i - 3)
        /\ b[4 * i - 2] = item(4 * i - 2)
        /\ b[4 * i - 1] = item(4 * i - 1)
        /\ b[4 * i] = item(4 * i)
    <3> HIDE DEF b, item
    <3> QED  BY <1>4, <2>1
  <2>3. /\ (4 * i - 3 - 1) \div 4 + 1 = i /\ (4 * i - 3 - 1) % 4 = 0
        /\ (4 * i - 2 - 1) \div 4 + 1 = i /\ (4 * i - 2 - 1) % 4 = 1
        /\ (4 * i - 1 - 1) \div 4 + 1 = i /\ (4 * i - 1 - 1) % 4 = 2
        /\ (4 * i - 1) \div 4 + 1 = i /\ (4 * i - 1) % 4 = 3
    BY <1>2, SMTT(60)
  <2>4. list[i].id = Group[i] /\ list[i].seed = x[i]
    BY <1>1
  <2>5. /\ item(4 * i - 3) = storeManIndex(Group[i])
        /\ item(4 * i - 2) = Low3(x[i])[1]
        /\ item(4 * i - 1) = Low3(x[i])[2]
        /\ item(4 * i) = Low3(x[i])[3]
    <3> HIDE DEF b
    <3> QED  BY <2>3, <2>4, SMTT(60)
  <2>6. x[i] \in Seeds
    BY <1>1
  <2> HIDE DEF b, item
  <2> QED  BY <2>2, <2>5, <2>6, IndexOfNode, Low3Inverse
<1>7. getMessagePeers(b) =
        [i \in 1..N |-> IF b[4 * i - 3] < N
                        THEN [id   |-> Group[b[4 * i - 3] + 1],
                              seed |-> Uint64(b[4 * i - 2], b[4 * i - 1], b[4 * i])]
                        ELSE [id |-> NoNode, seed |-> 0]]
  <2>1. (4 * N) % 4 = 0 /\ (4 * N) \div 4 = N
    BY <1>2, SMTT(60)
  <2> HIDE DEF b
  <2> QED  BY <1>5, <2>1 DEF getMessagePeers
<1>8. ASSUME NEW i \in 1..N
      PROVE  getMessagePeers(b)[i] = list[i]
  <2>1. i - 1 < N /\ (i - 1) + 1 = i
    BY <1>2, SMTT(60)
  <2> HIDE DEF b
  <2> QED  BY <1>1, <1>6, <1>7, <2>1
<1> HIDE DEF b, item
<1> QED  BY <1>1, <1>7, <1>8, ZenonT(60) DEF b

\* loadStoremanAddress gives back the seeds that newMpcKey has put into a keystore,
\* when there are no more than the 22 its 66 bytes have room for; and newMpcKey does
\* not panic on them.
THEOREM SeedsRoundTrip ==
  ASSUME N <= 22, NEW seeds \in [1..N -> Seeds]
  PROVE  /\ ~Panics(seeds)
         /\ loadStoremanAddress(newMpcKey(seeds)) =
              [i \in 1..N |-> [id |-> Group[i], seed |-> seeds[i]]]
<1>1. N \in Nat /\ N > 0
  BY GroupAssumption
<1>2. Len(seeds) = N
  BY <1>1, SMTT(60)
<1>3. ~Panics(seeds)
  BY <1>1, <1>2, SMTT(60) DEF Panics, WAddressLength
<1> DEFINE w == newMpcKey(seeds)
           item(k) == LET i == (k - 1) \div 3 + 1
                      IN  IF i <= N THEN Low3(seeds[i])[1 + ((k - 1) % 3)] ELSE 0
<1>4. w = [k \in 1..WAddressLength |-> item(k)]
  BY <1>2 DEF newMpcKey
<1>5. ASSUME NEW i \in 1..N
      PROVE  Uint64(w[3 * i - 2], w[3 * i - 1], w[3 * i]) = seeds[i]
  <2>1. /\ 3 * i - 2 \in 1..WAddressLength
        /\ 3 * i - 1 \in 1..WAddressLength
        /\ 3 * i \in 1..WAddressLength
    BY <1>1, SMTT(60) DEF WAddressLength
  <2>2. /\ w[3 * i - 2] = item(3 * i - 2)
        /\ w[3 * i - 1] = item(3 * i - 1)
        /\ w[3 * i] = item(3 * i)
    <3> HIDE DEF w, item
    <3> QED  BY <1>4, <2>1
  <2>3. /\ (3 * i - 2 - 1) \div 3 + 1 = i /\ 1 + ((3 * i - 2 - 1) % 3) = 1
        /\ (3 * i - 1 - 1) \div 3 + 1 = i /\ 1 + ((3 * i - 1 - 1) % 3) = 2
        /\ (3 * i - 1) \div 3 + 1 = i /\ 1 + ((3 * i - 1) % 3) = 3
    BY <1>1, SMTT(60)
  <2>4. i <= N
    BY <1>1, SMTT(60)
  <2>5. /\ item(3 * i - 2) = Low3(seeds[i])[1]
        /\ item(3 * i - 1) = Low3(seeds[i])[2]
        /\ item(3 * i) = Low3(seeds[i])[3]
    <3> HIDE DEF w
    <3> QED  BY <2>3, <2>4, SMTT(60)
  <2> HIDE DEF w, item
  <2> QED  BY <2>2, <2>5, Low3Inverse
<1>6. \A i \in 1..N : (IF 3 * (i - 1) < WAddressLength THEN 3 * i ELSE WAddressLength) = 3 * i
  BY <1>1, SMTT(60) DEF WAddressLength
<1>7. loadStoremanAddress(w) =
        [i \in 1..N |-> [id |-> Group[i], seed |-> Uint64(w[3 * i - 2], w[3 * i - 1], w[3 * i])]]
  <2> HIDE DEF w
  <2> QED  BY <1>6, ZenonT(60) DEF loadStoremanAddress
<1> HIDE DEF w, item
<1>8. loadStoremanAddress(w) = [i \in 1..N |-> [id |-> Group[i], seed |-> seeds[i]]]
  BY <1>5, <1>7
<1> QED  BY <1>3, <1>8 DEF w

-----------------------------------------------------------------------------
(* KeyMaterial.                                                            *)

PeersWith(seeds) == [i \in 1..N |-> [id |-> Group[i], seed |-> seeds[i]]]

\* The inductive invariant: SeedsSurvive, and the keystore holds the seeds too.
SeedsInv ==
  /\ phase \in {"start", "requested", "shared", "stored", "loaded", "signed"}
  /\ phase # "start" =>
       /\ drawn \in SeedLists
       /\ peers = PeersWith(drawn)
       /\ seen = PeersWith(drawn)
  /\ phase \in {"stored", "loaded", "signed"} => waddress = newMpcKey(drawn)

\* What a node reads from the message with a list of peers is that list.
LEMMA MessageKeepsPeers ==
  ASSUME N <= 22, NEW x \in SeedLists
  PROVE  getMessagePeers(SetMessagePeers(PeersWith(x))) = PeersWith(x)
<1>1. x \in [1..N -> Seeds]
  BY KeyMaterialAssumption
<1>2. PeersWith(x) \in PeerLists
  BY <1>1, ZenonT(60) DEF PeerLists, PeersWith
<1>3. N <= 256
  BY GroupAssumption, SMTT(60)
<1> QED  BY <1>2, <1>3, PeersRoundTrip

\* No step of a group of up to 22 nodes loses a seed.
LEMMA SeedsInvStep ==
  ASSUME N <= 22, SeedsInv, [Next]_vars
  PROVE  SeedsInv'
<1>1. CASE RequestGPK
  <2>1. drawn' \in SeedLists /\ peers' = PeersWith(drawn') /\ phase' = "requested"
    BY <1>1 DEF RequestGPK, PeersWith
  <2>2. seen' = PeersWith(drawn')
    BY <1>1, <2>1, MessageKeepsPeers, ZenonT(60) DEF RequestGPK
  <2> QED  BY <2>1, <2>2 DEF SeedsInv
<1>2. CASE ShareKey
  BY <1>2 DEF ShareKey, SeedsInv
<1>3. CASE StoreKey
  <2>1. drawn \in [1..N -> Seeds]
    BY <1>3, KeyMaterialAssumption DEF StoreKey, SeedsInv
  <2>2. [i \in 1..N |-> seen[i].seed] = drawn
    BY <1>3, <2>1 DEF StoreKey, SeedsInv, PeersWith
  <2>3. ~Panics(drawn)
    BY <2>1, SeedsRoundTrip
  <2>4. phase' = "stored" /\ waddress' = newMpcKey(drawn)
    BY <1>3, <2>2, <2>3, ZenonT(60) DEF StoreKey
  <2>5. drawn' = drawn /\ peers' = peers /\ seen' = seen
    BY <1>3 DEF StoreKey
  <2> QED  BY <1>3, <2>4, <2>5 DEF StoreKey, SeedsInv
<1>4. CASE StoreKeyFails
  BY <1>4 DEF StoreKeyFails, SeedsInv
<1>5. CASE RequestSign
  <2>1. drawn \in SeedLists /\ drawn \in [1..N -> Seeds]
    BY <1>5, KeyMaterialAssumption DEF RequestSign, SeedsInv
  <2>2. peers' = PeersWith(drawn)
    BY <1>5, <2>1, SeedsRoundTrip, ZenonT(60) DEF RequestSign, SeedsInv, PeersWith
  <2>3. seen' = PeersWith(drawn)
    BY <1>5, <2>1, <2>2, MessageKeepsPeers DEF RequestSign
  <2> QED  BY <1>5, <2>1, <2>2, <2>3 DEF RequestSign, SeedsInv
<1>6. CASE Sign
  <2>1. phase' \in {"signed", "stored"} /\ phase = "loaded"
    BY <1>6 DEF Sign
  <2>2. UNCHANGED <<drawn, peers, seen, waddress>>
    BY <1>6 DEF Sign
  <2> QED  BY <2>1, <2>2 DEF SeedsInv
<1>7. CASE UNCHANGED vars
  BY <1>7 DEF vars, SeedsInv
<1> QED  BY <1>1, <1>2, <1>3, <1>4, <1>5, <1>6, <1>7 DEF Next

\* Messages and keystores bring every node of a group of up to 22 nodes the seeds
\* the leader drew, and CreateKeystore never panics.
THEOREM SeedsAlwaysSurvive ==
  ASSUME N <= 22
  PROVE  Spec => []SeedsSurvive
<1>1. Init => SeedsInv
  BY DEF Init, SeedsInv
<1>2. SeedsInv /\ [Next]_vars => SeedsInv'
  BY SeedsInvStep
<1>3. SeedsInv => SeedsSurvive
  BY ZenonT(60) DEF SeedsInv, SeedsSurvive, PeersWith
<1> QED  BY <1>1, <1>2, <1>3, PTL DEF Spec

-----------------------------------------------------------------------------
(* The key and the signatures.                                             *)

\* Different reduced numbers are different modulo the order.
LEMMA DifferentResidues ==
  ASSUME NEW a \in Residues, NEW b \in Residues, Cong(a - b, 0)
  PROVE  a = b
<1>1. a \in Int /\ b \in Int /\ a - b \in Int /\ 0 \in Int /\ Cong(b, b)
  BY SchnorrAssumption DEF Residues, Cong
<1>2. Cong((a - b) + b, 0 + b)
  BY <1>1, CongOps
<1>3. (a - b) + b = a /\ 0 + b = b
  BY <1>1
<1>4. Cong(a, b)
  BY <1>2, <1>3
<1> QED  BY <1>4, SameResidue

\* In any order in which a Go map may list them, the seeds of a group are points for
\* Lagrange.
LEMMA SeedsArePoints ==
  ASSUME SeedsInv, phase # "start", NEW o \in Orders
  PROVE  /\ Points(SeedsOf(seen, o), Degree + 1) /\ DOMAIN o = 1..(Degree + 1)
         /\ \A a \in 1..(Degree + 1) : o[a] \in 1..N /\ SeedsOf(seen, o)[a] = drawn[o[a]]
<1> DEFINE x == SeedsOf(seen, o)
<1>1. drawn \in [1..N -> 1..(Order - 1)] /\ \A i, j \in 1..N : drawn[i] = drawn[j] => i = j
  BY ZenonT(60), KeyMaterialAssumption DEF SeedsInv
<1>2. DOMAIN o = 1..(Degree + 1) /\ (\A a \in 1..(Degree + 1) : o[a] \in 1..N)
      /\ \A a, b \in 1..(Degree + 1) : o[a] = o[b] => a = b
  BY DEF Orders, Picks
<1>3. \A a \in 1..(Degree + 1) : x[a] = drawn[o[a]]
  BY <1>2 DEF SeedsOf, SeedsInv, PeersWith
<1>4. \A a \in 1..(Degree + 1) : x[a] \in Residues
  BY <1>1, <1>2, <1>3, SchnorrAssumption DEF Residues
<1> HIDE DEF x
<1>5. \A a, b \in 1..(Degree + 1) : a # b => x[a] # x[b]
  BY <1>1, <1>2, <1>3
<1>6. \A a, b \in 1..(Degree + 1) : a # b => ~Cong(x[a] - x[b], 0)
  BY ZenonT(60), <1>4, <1>5, DifferentResidues
<1>7. Ints(x, Degree + 1)
  BY <1>4, SchnorrAssumption DEF Residues, Ints
<1> QED  BY <1>2, <1>3, <1>6, <1>7 DEF Points, x

AllPolys == KeyPolys \cup NoncePolys

\* Polynomials have integer coefficients.
LEMMA PolysAreInt ==
  ASSUME NEW f \in AllPolys
  PROVE  IntPoly(f)
<1>1. f \in [0..Degree -> 0..Order]
  BY KeyMaterialAssumption DEF AllPolys, RandPoly
<1> QED  BY <1>1, SchnorrAssumption DEF IntPoly

\* What the nodes send one another are the values at the seeds the leader drew.
LEMMA SharesAre ==
  ASSUME SeedsInv, phase # "start", NEW polys \in [1..N -> AllPolys], NEW i \in 1..N
  PROVE  /\ Share(polys, i) = SumMod([n \in 1..N |-> EvaluatePoly(polys[n], drawn[i])], N)
         /\ Share(polys, i) \in Residues /\ Share(polys, i) \in Int
<1> DEFINE g == [n \in 1..N |-> EvaluatePoly(polys[n], drawn[i])]
           h == [n \in 1..N |-> PolyValue(polys, n, i)]
<1>1. drawn[i] \in Int /\ N \in Nat /\ Residues \subseteq Int
  BY KeyMaterialAssumption, SchnorrAssumption, GroupAssumption DEF SeedsInv, Residues
<1>2. peers[i].seed = drawn[i] /\ seen[i].seed = drawn[i]
  BY DEF SeedsInv, PeersWith
<1>3. h = g
  BY <1>2 DEF PolyValue
<1>4. Share(polys, i) = SumMod(g, N)
  BY ZenonT(60), <1>3 DEF Share
<1>5. ASSUME NEW n \in 1..N PROVE g[n] \in Int
  <2>1. g[n] = EvaluatePoly(polys[n], drawn[i])
    OBVIOUS
  <2>2. IntPoly(polys[n])
    BY PolysAreInt
  <2> QED  BY ZenonT(60), <1>1, <2>1, <2>2, EvaluatePolyIs
<1>6. SumMod(g, N) \in Residues /\ SumMod(g, N) \in Int
  <2> HIDE DEF g
  <2> QED  BY ZenonT(60), <1>1, <1>5, SumType
<1> QED  BY ZenonT(60), <1>4, <1>6

Constants(polys) == SumMod([n \in 1..N |-> polys[n][0]], N)

\* The shares of any Degree + 1 nodes give Lagrange the sum of the constant terms.
LEMMA SharesGive ==
  ASSUME SeedsInv, phase # "start", NEW polys \in [1..N -> AllPolys], NEW o \in Orders,
         NEW v, \A i \in 1..N : v[i] = Share(polys, i)
  PROVE  /\ Lagrange([a \in DOMAIN o |-> v[o[a]]], SeedsOf(seen, o)) = Constants(polys)
         /\ Constants(polys) \in Residues
<1> DEFINE x == SeedsOf(seen, o)
           u == [a \in DOMAIN o |-> v[o[a]]]
<1>0. Points(x, Degree + 1) /\ DOMAIN o = 1..(Degree + 1)
      /\ \A a \in 1..(Degree + 1) : o[a] \in 1..N /\ x[a] = drawn[o[a]]
  BY ZenonT(60), SeedsArePoints
<1>1. N \in Nat /\ \A n \in 1..N : IntPoly(polys[n])
  BY PolysAreInt, GroupAssumption
<1>2. u = [a \in 1..(Degree + 1) |-> v[o[a]]]
  BY <1>0
<1> HIDE DEF x, u
<1>3. ASSUME NEW a \in 1..(Degree + 1) PROVE u[a] = Shares(polys, x, N)[a]
  <2>1. u[a] = Share(polys, o[a]) /\ o[a] \in 1..N
    BY <1>0, <1>2
  <2>2. Share(polys, o[a]) = SumMod([n \in 1..N |-> EvaluatePoly(polys[n], drawn[o[a]])], N)
    BY ZenonT(60), <2>1, SharesAre
  <2>3. x[a] = drawn[o[a]]
    BY <1>0
  <2>4. Shares(polys, x, N)[a] = SumMod([n \in 1..N |-> EvaluatePoly(polys[n], x[a])], N)
    BY ZenonT(60) DEF Shares
  <2> QED  BY ZenonT(60), <2>1, <2>2, <2>3, <2>4
<1>4. u = Shares(polys, x, N)
  <2>1. Shares(polys, x, N) = [a \in 1..(Degree + 1) |-> Shares(polys, x, N)[a]]
    BY ZenonT(60) DEF Shares
  <2>2. u = [a \in 1..(Degree + 1) |-> u[a]]
    BY <1>2
  <2> QED  BY ZenonT(60), <1>3, <2>1, <2>2
<1>5. Lagrange(u, x) = Constants(polys) /\ Ints(u, Degree + 1)
  <2>1. Lagrange(u, x) = SumMod([n \in 1..N |-> polys[n][0]], N) /\ Ints(u, Degree + 1)
    <3>1. Points(x, Degree + 1)
      BY <1>0
    <3>2. N \in Nat /\ \A p \in 1..N : IntPoly(polys[p])
      BY ZenonT(60), <1>1
    <3> DEFINE c == SumMod([p \in 1..N |-> polys[p][0]], N)
    <3>3. Lagrange(u, x) = c /\ Ints(u, Degree + 1)
      BY ZenonT(60), <1>4, <3>1, <3>2, LagrangeOfShares
    <3> QED  BY ZenonT(60), <3>3
  <2> QED  BY ZenonT(60), <2>1 DEF Constants
<1>6. Lagrange(u, x) \in Residues
  BY ZenonT(60), <1>0, <1>5, LagrangeType
<1> QED  BY <1>5, <1>6 DEF u, x

\* calculateResult of mpcPointGenerator on reduced shares v: Lagrange on v, unless
\* it ends with ErrPointZero.
LEMMA PointResultIs ==
  ASSUME SeedsInv, phase # "start", NEW o \in Orders, NEW v, \A i \in 1..N : v[i] \in Residues
  PROVE  /\ PointResult(v, seen, o) \in Residues
         /\ PointResult(v, seen, o) # NoPoint =>
              PointResult(v, seen, o) = Lagrange([a \in DOMAIN o |-> v[o[a]]], SeedsOf(seen, o))
<1> DEFINE x == SeedsOf(seen, o)
           u == [a \in DOMAIN o |-> v[o[a]]]
           g == [a \in DOMAIN o |-> ScalarBaseMult(v[o[a]])]
<1>0. Points(x, Degree + 1) /\ DOMAIN o = 1..(Degree + 1)
      /\ \A a \in 1..(Degree + 1) : o[a] \in 1..N
  BY ZenonT(60), SeedsArePoints
<1>1. \A a \in 1..(Degree + 1) : u[a] \in Residues /\ g[a] = ScalarBaseMult(u[a])
  BY <1>0
<1>2. PointResult(v, seen, o) = LagrangeECC(g, x)
  BY ZenonT(60) DEF PointResult
<1> HIDE DEF x, u, g
<1>3. /\ LagrangeECC(g, x) \in Residues
      /\ LagrangeECC(g, x) # NoPoint => LagrangeECC(g, x) = Lagrange(u, x)
  BY ZenonT(60), <1>0, <1>1, LagrangeECCIs
<1> QED  BY ZenonT(60), <1>2, <1>3 DEF u, x

\* What mpcSGenerator adds up to: the hash times the secret plus the nonce.
LEMMA SignSum ==
  ASSUME SeedsInv, phase # "start", NEW o \in Orders, NEW m \in Nat,
         NEW p, NEW r, NEW s, \A i \in 1..N : p[i] \in Residues /\ r[i] \in Residues
                                              /\ s[i] = SchnorrSign(p[i], r[i], m)
  PROVE  /\ Lagrange([a \in DOMAIN o |-> s[o[a]]], SeedsOf(seen, o)) \in Residues
         /\ Cong(Lagrange([a \in DOMAIN o |-> s[o[a]]], SeedsOf(seen, o)),
                 m * Lagrange([a \in DOMAIN o |-> p[o[a]]], SeedsOf(seen, o))
                   + 1 * Lagrange([a \in DOMAIN o |-> r[o[a]]], SeedsOf(seen, o)))
<1> DEFINE x == SeedsOf(seen, o)
           u == [a \in DOMAIN o |-> p[o[a]]]
           v == [a \in DOMAIN o |-> r[o[a]]]
           w == [a \in DOMAIN o |-> s[o[a]]]
<1>0. Points(x, Degree + 1) /\ DOMAIN o = 1..(Degree + 1)
      /\ \A a \in 1..(Degree + 1) : o[a] \in 1..N
  BY ZenonT(60), SeedsArePoints
<1>1. m \in Int /\ 1 \in Int /\ Residues \subseteq Int
  BY SchnorrAssumption DEF Residues
<1>2. \A a \in 1..(Degree + 1) : u[a] = p[o[a]] /\ v[a] = r[o[a]] /\ w[a] = s[o[a]]
  BY <1>0
<1> HIDE DEF x, u, v, w
<1>3. ASSUME NEW a \in 1..(Degree + 1)
      PROVE  u[a] \in Int /\ v[a] \in Int /\ w[a] \in Int /\ Cong(w[a], m * u[a] + 1 * v[a])
  <2>1. u[a] \in Int /\ v[a] \in Int /\ w[a] = SchnorrSign(u[a], v[a], m)
    BY ZenonT(60), <1>0, <1>1, <1>2
  <2> DEFINE b == u[a]
             c == v[a]
             t == (b * m) % Order
  <2>2. b \in Int /\ c \in Int /\ w[a] = (t + c) % Order
    BY <2>1 DEF SchnorrSign, Times
  <2> HIDE DEF b, c
  <2>3. b * m \in Int
    BY <1>1, <2>2
  <2>4. t \in Int /\ Cong(t, b * m)
    BY ZenonT(60), <1>1, <2>3, Reduced
  <2> HIDE DEF t
  <2>5. t + c \in Int /\ Cong(c, c) /\ m * b + 1 * c = b * m + c
    BY <1>1, <2>2, <2>4 DEF Cong
  <2>6. Cong(t + c, b * m + c)
    BY ZenonT(60), <2>2, <2>3, <2>4, <2>5, CongOps
  <2>7. w[a] \in Int /\ Cong(w[a], t + c)
    BY ZenonT(60), <1>1, <2>2, <2>5, Reduced
  <2> QED  BY <2>1, <2>5, <2>6, <2>7 DEF Cong, b, c
<1>4. Ints(u, Degree + 1) /\ Ints(v, Degree + 1) /\ Ints(w, Degree + 1)
  BY ZenonT(60), <1>3 DEF Ints
<1>5. Cong(Lagrange(w, x), m * Lagrange(u, x) + 1 * Lagrange(v, x))
  BY ZenonT(60), <1>0, <1>1, <1>3, <1>4, LagrangeLinear
<1>6. Lagrange(w, x) \in Residues
  BY ZenonT(60), <1>0, <1>4, LagrangeType
<1> QED  BY ZenonT(60), <1>5, <1>6 DEF u, v, w, x

\* The inductive invariant: from the moment they exist the shares are shares of the
\* secret, the key is the one of the secret and a signature one under the key.
KeyInv ==
  /\ SeedsInv
  /\ phase = "start" => drawn = <<>> /\ peers = <<>> /\ seen = <<>>
  /\ secret \in Residues /\ psk \in [1..N -> Residues] /\ gpk \in Residues
  /\ waddress \in [1..WAddressLength -> 0..255]
  /\ sig.r \in Residues /\ sig.s \in Residues /\ sig.m \in {0} \cup Hashes
  /\ phase \in {"shared", "stored", "loaded", "signed"} =>
       \A o \in Orders : Lagrange([a \in DOMAIN o |-> psk[o[a]]], SeedsOf(seen, o)) = secret
  /\ phase \in {"stored", "loaded", "signed"} => gpk = ScalarBaseMult(secret)
  /\ phase = "signed" => Verifies(sig.r, sig.s, sig.m, gpk)

\* The bytes of a keystore are bytes.
LEMMA KeystoreBytes ==
  ASSUME N <= 22, NEW x \in [1..N -> Seeds]
  PROVE  newMpcKey(x) \in [1..WAddressLength -> 0..255]
<1>1. N \in Nat /\ Len(x) = N
  BY GroupAssumption
<1>2. ASSUME NEW k \in 1..WAddressLength
      PROVE  newMpcKey(x)[k] \in 0..255
  <2> DEFINE i == (k - 1) \div 3 + 1
             j == 1 + ((k - 1) % 3)
  <2>1. newMpcKey(x)[k] = IF i <= N THEN Low3(x[i])[j] ELSE 0
    BY <1>1 DEF newMpcKey
  <2>2. j \in 1..3 /\ i \in Nat /\ i >= 1
    BY DEF WAddressLength
  <2> HIDE DEF i, j
  <2>3. i <= N => x[i] \in Seeds
    BY <1>1, <2>2
  <2>4. i <= N => Low3(x[i])[j] \in 0..255
    BY ZenonT(60), <2>2, <2>3, Low3Inverse
  <2>5. 0 \in 0..255
    OBVIOUS
  <2> QED  BY ZenonT(60), <2>1, <2>4, <2>5
<1>3. newMpcKey(x) = [k \in 1..WAddressLength |-> newMpcKey(x)[k]]
  BY ZenonT(60) DEF newMpcKey
<1> QED  BY <1>2, <1>3

\* MpcSKShareStep makes shares of the secret.
LEMMA KeyInvShareKey ==
  ASSUME KeyInv, SeedsInv', ShareKey
  PROVE  KeyInv'
<1>0. SeedsInv /\ phase = "requested" /\ phase' = "shared" /\ phase # "start"
      /\ UNCHANGED <<drawn, peers, seen, gpk, waddress, sig>>
  BY DEF KeyInv, ShareKey
<1>1. PICK polys \in [1..N -> KeyPolys] :
        psk' = [i \in 1..N |-> Share(polys, i)] /\ secret' = Constants(polys)
  BY ZenonT(60) DEF ShareKey, Constants
<1>2. polys \in [1..N -> AllPolys]
  BY DEF AllPolys
<1>3. psk' \in [1..N -> Residues] /\ \A i \in 1..N : psk'[i] = Share(polys, i)
  <2>1. \A i \in 1..N : Share(polys, i) \in Residues
    BY ZenonT(60), <1>0, <1>2, SharesAre
  <2> QED  BY <1>1, <2>1
<1>4. ASSUME NEW o \in Orders
      PROVE  Lagrange([a \in DOMAIN o |-> psk'[o[a]]], SeedsOf(seen, o)) = secret'
  <2> DEFINE v == psk'
  <2>1. \A i \in 1..N : v[i] = Share(polys, i)
    BY <1>3
  <2> HIDE DEF v
  <2>2. Lagrange([a \in DOMAIN o |-> v[o[a]]], SeedsOf(seen, o)) = Constants(polys)
    BY ZenonT(60), <1>0, <1>2, <2>1, SharesGive
  <2> QED  BY <1>1, <2>2 DEF v
<1>5. secret' \in Residues
  <2>1. ASSUME NEW n \in 1..N PROVE polys[n][0] \in Int
    <3>1. IntPoly(polys[n])
      BY <1>2, PolysAreInt
    <3> QED  BY <3>1, SchnorrAssumption DEF IntPoly
  <2> DEFINE h == [n \in 1..N |-> polys[n][0]]
  <2>2. \A n \in 1..N : h[n] \in Int
    BY <2>1
  <2>3. secret' = SumMod(h, N)
    BY <1>1 DEF Constants
  <2> HIDE DEF h
  <2> QED  BY <2>2, <2>3, SumType, GroupAssumption
<1>7. \A o \in Orders : Lagrange([a \in DOMAIN o |-> psk'[o[a]]], SeedsOf(seen', o)) = secret'
  BY ZenonT(60), <1>0, <1>4
<1> QED  BY ZenonT(60), <1>0, <1>3, <1>5, <1>7 DEF KeyInv, SeedsOf

\* MpcGPKStep and CreateKeystore store the key of the secret.
LEMMA KeyInvStoreKey ==
  ASSUME N <= 22, KeyInv, SeedsInv', StoreKey
  PROVE  KeyInv'
<1>0. SeedsInv /\ phase = "shared" /\ phase # "start"
      /\ UNCHANGED <<drawn, peers, seen, secret, psk, sig>>
  BY DEF KeyInv, StoreKey
<1>1. phase' \in {"stored", "panic"} /\ phase' # "panic"
  <2>1. phase' \in {"stored", "panic"}
    BY DEF StoreKey
  <2> QED  BY <2>1 DEF SeedsInv
<1>2. PICK o \in Orders :
        PointResult(psk, seen, o) # NoPoint /\ gpk' = PointResult(psk, seen, o)
  BY <1>1 DEF StoreKey
<1>3. \A i \in 1..N : psk[i] \in Residues
  BY DEF KeyInv
<1>4. /\ PointResult(psk, seen, o) \in Residues
      /\ PointResult(psk, seen, o) = Lagrange([a \in DOMAIN o |-> psk[o[a]]], SeedsOf(seen, o))
  BY ZenonT(60), <1>0, <1>2, <1>3, PointResultIs
<1>5. gpk' = secret /\ secret # NoPoint /\ secret \in Residues
  BY ZenonT(60), <1>0, <1>2, <1>4 DEF KeyInv
<1>6. gpk' = ScalarBaseMult(secret) /\ gpk' \in Residues
  <2>1. secret \in 1..(Order - 1) /\ 1 * secret = secret /\ secret \in Int /\ 1 # NoPoint
    BY <1>5, SchnorrAssumption DEF Residues, NoPoint
  <2>2. ScalarBaseMult(secret) = (1 * secret) % Order
    BY <2>1 DEF ScalarBaseMult, ScalarMult, Times
  <2> QED  BY <1>5, <2>1, <2>2, Reduced
<1>7. waddress' \in [1..WAddressLength -> 0..255]
  <2>1. drawn \in [1..N -> Seeds]
    BY <1>0, KeyMaterialAssumption DEF SeedsInv
  <2>2. waddress' = newMpcKey(drawn)
    BY <1>0, <1>1 DEF SeedsInv
  <2> QED  BY ZenonT(60), <2>1, <2>2, KeystoreBytes
<1>8. \A q \in Orders : Lagrange([a \in DOMAIN q |-> psk[q[a]]], SeedsOf(seen, q)) = secret
  BY <1>0 DEF KeyInv
<1>9. /\ secret \in Residues /\ psk \in [1..N -> Residues]
      /\ sig.r \in Residues /\ sig.s \in Residues /\ sig.m \in {0} \cup Hashes
  BY DEF KeyInv
<1> QED  BY ZenonT(60), <1>0, <1>1, <1>6, <1>7, <1>8, <1>9 DEF KeyInv, SeedsOf

\* MpcSStep makes a signature under the key.
LEMMA KeyInvSign ==
  ASSUME KeyInv, SeedsInv', Sign
  PROVE  KeyInv'
<1>0. SeedsInv /\ phase = "loaded" /\ phase # "start" /\ phase' \in {"signed", "stored"}
      /\ UNCHANGED <<drawn, peers, seen, secret, psk, gpk, waddress>>
  BY DEF KeyInv, Sign
<1>1. /\ secret \in Residues /\ psk \in [1..N -> Residues] /\ gpk \in Residues
      /\ waddress \in [1..WAddressLength -> 0..255] /\ gpk = ScalarBaseMult(secret)
      /\ \A o \in Orders : Lagrange([a \in DOMAIN o |-> psk[o[a]]], SeedsOf(seen, o)) = secret
  BY <1>0 DEF KeyInv
<1>2. PICK polys \in [1..N -> NoncePolys], m \in Hashes, ro \in Orders, so \in Orders :
        LET rsk == [i \in 1..N |-> Share(polys, i)]
            r   == PointResult(rsk, seen, ro)
            s   == [i \in 1..N |-> SchnorrSign(psk[i], rsk[i], m)]
            sum == Lagrange([a \in DOMAIN so |-> s[so[a]]], SeedsOf(seen, so))
        IN  IF r # NoPoint /\ CanVerify(r, sum, m, gpk)
            THEN phase' = "signed" /\ sig' = [r |-> r, s |-> sum, m |-> m]
            ELSE phase' = "stored" /\ UNCHANGED sig
  BY ZenonT(60) DEF Sign
<1> DEFINE rsk == [i \in 1..N |-> Share(polys, i)]
           r   == PointResult(rsk, seen, ro)
           s   == [i \in 1..N |-> SchnorrSign(psk[i], rsk[i], m)]
           x   == SeedsOf(seen, so)
           sum == Lagrange([a \in DOMAIN so |-> s[so[a]]], x)
<1>3. \/ r # NoPoint /\ CanVerify(r, sum, m, gpk) /\ phase' = "signed"
         /\ sig' = [r |-> r, s |-> sum, m |-> m]
      \/ phase' = "stored" /\ sig' = sig
  BY ZenonT(60), <1>2
<1>4. polys \in [1..N -> AllPolys] /\ m \in Nat
  BY KeyMaterialAssumption DEF AllPolys
<1>5. \A i \in 1..N : rsk[i] = Share(polys, i) /\ s[i] = SchnorrSign(psk[i], rsk[i], m)
  OBVIOUS
<1> HIDE DEF rsk, s
<1>6. \A i \in 1..N : psk[i] \in Residues /\ rsk[i] \in Residues
  <2>1. \A i \in 1..N : Share(polys, i) \in Residues
    BY ZenonT(60), <1>0, <1>4, SharesAre
  <2> QED  BY <1>1, <1>5, <2>1
<1>7. ASSUME NEW o \in Orders
      PROVE  /\ Lagrange([a \in DOMAIN o |-> rsk[o[a]]], SeedsOf(seen, o)) = Constants(polys)
             /\ Constants(polys) \in Residues
  BY ZenonT(60), <1>0, <1>4, <1>5, SharesGive
<1>8. r \in Residues /\ (r # NoPoint => r = Constants(polys))
  BY ZenonT(60), <1>0, <1>6, <1>7, PointResultIs
<1>9. sum \in Residues /\ Cong(sum, m * secret + 1 * Constants(polys))
  <2>1. /\ sum \in Residues
        /\ Cong(sum, m * Lagrange([a \in DOMAIN so |-> psk[so[a]]], x)
                       + 1 * Lagrange([a \in DOMAIN so |-> rsk[so[a]]], x))
    BY ZenonT(60), <1>0, <1>4, <1>5, <1>6, SignSum
  <2> QED  BY ZenonT(60), <1>1, <1>7, <2>1
<1> HIDE DEF r, sum, x
<1>10. CASE phase' = "stored" /\ sig' = sig
  <2>1. sig.r \in Residues /\ sig.s \in Residues /\ sig.m \in {0} \cup Hashes
    BY ZenonT(60) DEF KeyInv
  <2> QED  BY ZenonT(60), <1>0, <1>1, <1>10, <2>1 DEF KeyInv, SeedsOf
<1>11. CASE /\ r # NoPoint /\ CanVerify(r, sum, m, gpk) /\ phase' = "signed"
            /\ sig' = [r |-> r, s |-> sum, m |-> m]
  <2>1. r \in Residues /\ r = Constants(polys)
    BY <1>8, <1>11
  <2>2. 1 * r = r
    BY <2>1, SchnorrAssumption DEF Residues
  <2>3. Cong(sum, m * secret + r)
    BY ZenonT(60), <1>9, <2>1, <2>2
  <2>4. Verifies(r, sum, m, gpk)
    BY ZenonT(60), <1>1, <1>4, <1>9, <1>11, <2>1, <2>3, SignatureIs
  <2>5. sig'.r = r /\ sig'.s = sum /\ sig'.m = m /\ phase' = "signed" /\ gpk' = gpk
    BY <1>0, <1>11
  <2>6. Verifies(sig'.r, sig'.s, sig'.m, gpk')
    BY <2>4, <2>5
  <2>7. sig'.r \in Residues /\ sig'.s \in Residues /\ sig'.m \in {0} \cup Hashes
    BY <1>2, <1>9, <2>1, <2>5
  <2>8. Verifies(sig.r, sig.s, sig.m, gpk)'
    BY <2>6 DEF Verifies, ScalarBaseMult, ScalarMult, Add, Times, NoPoint
  <2>9. \A o \in Orders : Lagrange([a \in DOMAIN o |-> psk'[o[a]]], SeedsOf(seen', o)) = secret'
    BY <1>0, <1>1
  <2> QED  BY <1>0, <1>1, <2>5, <2>7, <2>8, <2>9 DEF KeyInv, SeedsOf
<1> QED  BY <1>3, <1>10, <1>11

\* No step of a group of up to 22 nodes breaks what ties shares, key and signature.
LEMMA KeyInvStep ==
  ASSUME N <= 22, KeyInv, [Next]_vars
  PROVE  KeyInv'
<1>0. SeedsInv /\ SeedsInv'
  BY SeedsInvStep DEF KeyInv
<1>1. CASE RequestGPK
  BY ZenonT(60), <1>0, <1>1 DEF KeyInv, RequestGPK
<1>2. CASE ShareKey
  BY <1>0, <1>2, KeyInvShareKey
<1>3. CASE StoreKey
  BY <1>0, <1>3, KeyInvStoreKey
<1>4. CASE StoreKeyFails
  <2>1. 0 \in Residues
    BY SchnorrAssumption DEF Residues
  <2> QED  BY <1>0, <1>4, <2>1 DEF KeyInv, StoreKeyFails
<1>5. CASE RequestSign
  <2>1. phase \in {"stored", "signed"} /\ phase' = "loaded" /\ sig' = NoSig
        /\ UNCHANGED <<drawn, secret, psk, gpk, waddress>>
    BY <1>5 DEF RequestSign
  <2>2. seen' = seen
    BY ZenonT(60), <1>0, <2>1 DEF SeedsInv, PeersWith
  <2>3. NoSig.r \in Residues /\ NoSig.s \in Residues /\ NoSig.m \in {0} \cup Hashes
    BY SchnorrAssumption DEF NoSig, Residues, NoPoint
  <2>4. /\ secret \in Residues /\ psk \in [1..N -> Residues] /\ gpk \in Residues
        /\ waddress \in [1..WAddressLength -> 0..255] /\ gpk = ScalarBaseMult(secret)
        /\ \A o \in Orders : Lagrange([a \in DOMAIN o |-> psk[o[a]]], SeedsOf(seen, o)) = secret
    BY ZenonT(60), <2>1 DEF KeyInv
  <2> QED  BY <1>0, <2>1, <2>2, <2>3, <2>4 DEF KeyInv, SeedsOf
<1>6. CASE Sign
  BY <1>0, <1>6, KeyInvSign
<1>7. CASE UNCHANGED vars
  BY ZenonT(60), <1>0, <1>7 DEF vars, KeyInv, SeedsOf
<1> QED  BY <1>1, <1>2, <1>3, <1>4, <1>5, <1>6, <1>7 DEF Next

\* A group of up to 22 nodes has its shares, its key and its signatures tied together
\* all the time.
LEMMA KeyInvHolds ==
  ASSUME N <= 22
  PROVE  Spec => []KeyInv
<1>1. Init => KeyInv
  <2> SUFFICES ASSUME Init PROVE KeyInv
    OBVIOUS
  <2>1. SeedsInv
    BY DEF Init, SeedsInv
  <2>2. 0 \in Residues /\ NoPoint = 0
    BY SchnorrAssumption DEF Residues, NoPoint
  <2> QED  BY <2>1, <2>2 DEF Init, KeyInv, NoSig
<1>2. KeyInv /\ [Next]_vars => KeyInv'
  BY KeyInvStep
<1> QED  BY <1>1, <1>2, PTL DEF Spec

\* Shares, keys and signatures stay reduced, and the lists of peers complete.
THEOREM KeyMaterialTypeCorrect ==
  ASSUME N <= 22
  PROVE  Spec => []TypeOK
<1>1. KeyInv => TypeOK
  <2> SUFFICES ASSUME KeyInv PROVE TypeOK
    OBVIOUS
  <2>1. drawn = <<>> \/ drawn \in SeedLists
    BY DEF KeyInv, SeedsInv
  <2>2. Len(peers) = Len(drawn) /\ Len(seen) = Len(drawn)
    <3>1. CASE phase = "start"
      BY <3>1 DEF KeyInv
    <3>2. CASE phase # "start"
      <4>1. N \in Nat /\ drawn \in [1..N -> Seeds]
        BY <3>2, KeyMaterialAssumption, GroupAssumption DEF KeyInv, SeedsInv
      <4>2. peers = PeersWith(drawn) /\ seen = PeersWith(drawn)
        BY <3>2 DEF KeyInv, SeedsInv
      <4>3. Len(PeersWith(drawn)) = N
        BY <4>1 DEF PeersWith
      <4>4. Len(drawn) = N
        BY <4>1
      <4> QED  BY <4>2, <4>3, <4>4
    <3> QED  BY <3>1, <3>2
  <2>3. phase \in {"start", "requested", "shared", "stored", "loaded", "signed", "panic"}
    BY DEF KeyInv, SeedsInv
  <2> QED  BY <2>1, <2>2, <2>3 DEF KeyInv, TypeOK, Residues
<1> QED  BY <1>1, KeyInvHolds, PTL

\* The key that CreateKeystore stores belongs to the shares it stores: any Degree + 1
\* of them, in any order, give Lagrange the secret, and the key is the secret times G.
THEOREM SharesAlwaysMatchKey ==
  ASSUME N <= 22
  PROVE  Spec => []SharesMatchKey
<1>1. KeyInv => SharesMatchKey
  BY ZenonT(60) DEF KeyInv, SharesMatchKey
<1> QED  BY <1>1, KeyInvHolds, PTL

\* Every signature that the nodes get out of mpcSGenerator passes verifyRS, whichever
\* Degree + 1 shares R and S were made of.
THEOREM SignaturesAlwaysVerify ==
  ASSUME N <= 22
  PROVE  Spec => []SignatureVerifies
<1>1. KeyInv => SignatureVerifies
  BY DEF KeyInv, SignatureVerifies
<1> QED  BY <1>1, KeyInvHolds, PTL

\* The seeds of different nodes are points for Lagrange, and none is 0.
LEMMA NodesArePoints ==
  ASSUME SeedsInv, phase # "start", NEW k \in Nat, NEW b \in [1..k -> 1..N],
         \A i, j \in 1..k : b[i] = b[j] => i = j
  PROVE  LET x == [i \in 1..k |-> drawn[b[i]]]
         IN  Points(x, k) /\ \A i \in 1..k : ~Cong(x[i], 0)
<1> DEFINE x == [i \in 1..k |-> drawn[b[i]]]
<1>0. 0 \in Residues /\ Residues \subseteq Int /\ 1..(Order - 1) \subseteq Residues /\ 0 \in Int
  BY SchnorrAssumption DEF Residues
<1>1. drawn \in [1..N -> Seeds \cap (1..(Order - 1))] /\ \A i, j \in 1..N : drawn[i] = drawn[j] => i = j
  BY ZenonT(60), KeyMaterialAssumption DEF SeedsInv
<1>2. ASSUME NEW i \in 1..k
      PROVE  x[i] = drawn[b[i]] /\ b[i] \in 1..N /\ x[i] \in Residues /\ x[i] \in Int /\ x[i] # 0
  <2>1. x[i] = drawn[b[i]] /\ b[i] \in 1..N
    OBVIOUS
  <2>2. drawn[b[i]] \in 1..(Order - 1)
    BY ZenonT(60), <1>1, <2>1
  <2>3. drawn[b[i]] # 0
    BY <2>2, SchnorrAssumption
  <2> QED  BY ZenonT(60), <1>0, <2>1, <2>2, <2>3
<1> HIDE DEF x
<1>3. ASSUME NEW i \in 1..k, NEW j \in 1..k, i # j PROVE ~Cong(x[i] - x[j], 0)
  <2>1. x[i] # x[j]
    BY ZenonT(60), <1>1, <1>2, <1>3
  <2> QED  BY ZenonT(60), <1>2, <2>1, DifferentResidues
<1>4. ASSUME NEW i \in 1..k PROVE ~Cong(x[i], 0)
  BY ZenonT(60), <1>0, <1>2, SameResidue
<1>5. Points(x, k)
  BY ZenonT(60), <1>2, <1>3 DEF Points, Ints
<1> QED  BY <1>4, <1>5 DEF x

\* Degree of the shares leave the secret open: for any Degree nodes and any
\* secret that RandPoly may be asked to share there is a polynomial that RandPoly may
\* return for it and that has their shares at their seeds.
THEOREM TooFewSharesNeverTell ==
  ASSUME N <= 22
  PROVE  Spec => []TooFewSharesTellNothing
<1>1. KeyInv => TooFewSharesTellNothing
  <2> SUFFICES ASSUME KeyInv, phase = "shared", NEW b \in Picks(Degree), NEW f \in KeyPolys
               PROVE  \E c \in [1..Degree -> 1..Order] :
                        \A a \in 1..Degree :
                          EvaluatePoly([d \in 0..Degree |-> IF d = 0 THEN f[0] ELSE c[d]],
                                       drawn[b[a]]) = psk[b[a]]
    BY DEF TooFewSharesTellNothing
  <2>0. Degree \in Nat /\ SeedsInv /\ phase # "start" /\ Residues \subseteq Int
    <3>1. Degree \in Nat /\ Residues \subseteq Int
      BY SchnorrAssumption DEF Residues
    <3>2. SeedsInv /\ phase # "start"
      BY DEF KeyInv
    <3> QED  BY <3>1, <3>2
  <2>1. b \in [1..Degree -> 1..N] /\ \A i, j \in 1..Degree : b[i] = b[j] => i = j
    BY DEF Picks
  <2> DEFINE x == [i \in 1..Degree |-> drawn[b[i]]]
             y == [i \in 1..Degree |-> psk[b[i]]]
  <2>2. Points(x, Degree) /\ \A i \in 1..Degree : ~Cong(x[i], 0)
    BY ZenonT(60), <2>0, <2>1, NodesArePoints
  <2>3. ASSUME NEW i \in 1..Degree
        PROVE  /\ x[i] = drawn[b[i]] /\ x[i] \in Int
               /\ y[i] = psk[b[i]] /\ y[i] \in Residues /\ y[i] \in Int
    <3>1. x[i] = drawn[b[i]] /\ y[i] = psk[b[i]] /\ b[i] \in 1..N
      BY <2>1
    <3>2. psk[b[i]] \in Residues
      BY <3>1 DEF KeyInv
    <3>3. x[i] \in Int
      BY ZenonT(60), <2>2 DEF Points, Ints
    <3> QED  BY ZenonT(60), <2>0, <3>1, <3>2, <3>3
  <2> HIDE DEF x, y
  <2>4. Ints(y, Degree)
    BY <2>3 DEF Ints
  <2>5. IntPoly(f) /\ f[0] \in Int
    <3>1. IntPoly(f)
      BY PolysAreInt DEF AllPolys
    <3> QED  BY <2>0, <3>1 DEF IntPoly
  <2>6. PICK c \in [1..Degree -> 1..Order] : \A i \in 1..Degree :
          Cong(EvaluatePoly([d \in 0..Degree |-> IF d = 0 THEN f[0] ELSE c[d]], x[i]), y[i])
    BY ZenonT(60), <2>2, <2>4, <2>5, AnyConstantTerm
  <2> DEFINE g == [d \in 0..Degree |-> IF d = 0 THEN f[0] ELSE c[d]]
  <2>7. IntPoly(g)
    <3>1. ASSUME NEW d \in 0..Degree PROVE g[d] \in Int
      BY <2>0, <2>5, SchnorrAssumption
    <3> HIDE DEF g
    <3> QED  BY <3>1 DEF IntPoly
  <2>8. \A i \in 1..Degree : Cong(EvaluatePoly(g, x[i]), y[i])
    BY <2>6
  <2> HIDE DEF g
  <2>9. ASSUME NEW i \in 1..Degree PROVE EvaluatePoly(g, drawn[b[i]]) = psk[b[i]]
    <3>1. EvaluatePoly(g, x[i]) \in Residues
      BY ZenonT(60), <2>3, <2>7, EvaluatePolyIs
    <3>2. Cong(EvaluatePoly(g, x[i]), y[i]) /\ y[i] \in Residues
      BY <2>3, <2>8
    <3>3. EvaluatePoly(g, x[i]) = y[i]
      BY ZenonT(60), <3>1, <3>2, SameResidue
    <3> QED  BY <2>3, <3>3
  <2>10. \A a \in 1..Degree :
           EvaluatePoly([d \in 0..Degree |-> IF d = 0 THEN f[0] ELSE c[d]], drawn[b[a]]) = psk[b[a]]
    BY <2>9 DEF g
  <2> QED  BY ZenonT(60), <2>6, <2>10
<1> QED  BY <1>1, KeyInvHolds, PTL
=============================================================================
