---------------------------- MODULE KeyMaterial ----------------------------
(***************************************************************************)
(* The numbers of a group key from the first request to a signature: the   *)
(* seeds the leader draws, the message that brings them to the other       *)
(* nodes, the shares, the key, the keystore, the seeds a restarted node    *)
(* reads from it, and the signatures made with them.  Who waits for whom   *)
(* is in GpkCreation and SignData; here all nodes do a step together.      *)
(***************************************************************************)
EXTENDS PeerCodec, Schnorr

CONSTANTS
  SeedLists,    \* the lists of seeds the leader may draw
  KeyPolys,     \* the polynomials that may be drawn for the key
  NoncePolys,   \* and for the nonce of a signature
  Hashes        \* what may come of hashing the message and R, not reduced

ASSUME KeyMaterialAssumption ==
  /\ \A x \in SeedLists : x \in [1..N -> Seeds \cap (1..(Order - 1))]
  /\ \A x \in SeedLists : \A i, j \in 1..N : x[i] = x[j] => i = j
  /\ Degree < N
  /\ \A f \in KeyPolys \cup NoncePolys : f \in RandPoly(f[0])
  /\ Hashes \subseteq Nat

VARIABLES
  phase,    \* "start", "requested", "shared", "stored", "loaded", "signed", or
            \* "panic" when newMpcKey has crashed the node
  drawn,    \* the seeds the leader has drawn for the key
  peers,    \* the leader's list of peers
  seen,     \* the list the other nodes have from the leader's message
  secret,   \* the sum of the constant terms, which nobody knows
  psk,      \* MpcPrivateShare of each node
  gpk,      \* PublicKeyResult
  waddress, \* the seeds in the keystore
  sig       \* the signature: [r, s, m]
vars == <<phase, drawn, peers, seen, secret, psk, gpk, waddress, sig>>

NoSig == [r |-> NoPoint, s |-> 0, m |-> 0]

Init ==
  /\ phase = "start"
  /\ drawn = <<>> /\ peers = <<>> /\ seen = <<>>
  /\ secret = 0 /\ psk = [i \in 1..N |-> 0]
  /\ gpk = NoPoint
  /\ waddress = [k \in 1..WAddressLength |-> 0]
  /\ sig = NoSig

\* RequestMpcStep.InitStep of the leader draws seeds until all are different, and
\* createMpcCtx of the others takes them from the message.
RequestGPK ==
  /\ phase = "start"
  /\ drawn' \in SeedLists
  /\ peers' = [i \in 1..N |-> [id |-> Group[i], seed |-> drawn'[i]]]
  /\ seen' = getMessagePeers(SetMessagePeers(peers'))
  /\ phase' = "requested"
  /\ UNCHANGED <<secret, psk, gpk, waddress, sig>>

\* What node n sends node i: its polynomial at the seed it has for node i.  Node 1 is
\* the leader.
PolyValue(polys, n, i) == EvaluatePoly(polys[n], IF n = 1 THEN peers[i].seed ELSE seen[i].seed)

\* Form of Share that does not reduce the last sum.
ShareUnreduced(polys, i) ==
  SumMod([n \in 1..N |-> PolyValue(polys, n, i)], N - 1) + PolyValue(polys, N, i)

\* RandomPolynomialValue: node i sums up what the nodes have sent it.
Share(polys, i) == SumMod([n \in 1..N |-> PolyValue(polys, n, i)], N)

\* MpcSKShareStep.
ShareKey ==
  /\ phase = "requested"
  /\ \E polys \in [1..N -> KeyPolys] :
       /\ psk' = [i \in 1..N |-> Share(polys, i)]
       /\ secret' = SumMod([n \in 1..N |-> polys[n][0]], N)
  /\ phase' = "shared"
  /\ UNCHANGED <<drawn, peers, seen, gpk, waddress, sig>>

\* The orders in which k of the N entries of a Go map may come.
Picks(k) == {o \in [1..k -> 1..N] : \A a, b \in 1..k : o[a] = o[b] => a = b}

\* Interpolation takes the first Degree + 1 entries.
Orders == Picks(Degree + 1)

SeedsOf(list, o) == [a \in DOMAIN o |-> list[o[a]].seed]

\* mpcPointGenerator.calculateResult on the public shares of v.
PointResult(v, list, o) ==
  LagrangeECC([a \in DOMAIN o |-> ScalarBaseMult(v[o[a]])], SeedsOf(list, o))

\* MpcGPKStep and CreateKeystore.
StoreKey ==
  /\ phase = "shared"
  /\ \E o \in Orders :
       LET point == PointResult(psk, seen, o)
           seeds == [i \in 1..N |-> seen[i].seed]
       IN  /\ point # NoPoint
           /\ IF Panics(seeds)
              THEN phase' = "panic" /\ UNCHANGED <<gpk, waddress>>
              ELSE phase' = "stored" /\ gpk' = point /\ waddress' = newMpcKey(seeds)
  /\ UNCHANGED <<drawn, peers, seen, secret, psk, sig>>

\* ErrPointZero ends the run; createGPK may be called again.
StoreKeyFails ==
  /\ phase = "shared"
  /\ \E o \in Orders : PointResult(psk, seen, o) = NoPoint
  /\ phase' = "start"
  /\ drawn' = <<>> /\ peers' = <<>> /\ seen' = <<>>
  /\ secret' = 0 /\ psk' = [i \in 1..N |-> 0]
  /\ UNCHANGED <<gpk, waddress, sig>>

\* The leader of a signature loads the key, and the others take the seeds from its
\* message again.
RequestSign ==
  /\ phase \in {"stored", "signed"}
  /\ peers' = loadStoremanAddress(waddress)
  /\ seen' = getMessagePeers(SetMessagePeers(peers'))
  /\ phase' = "loaded" /\ sig' = NoSig
  /\ UNCHANGED <<drawn, secret, psk, gpk, waddress>>

\* MpcRSKShare_Step, MpcRStep and MpcSStep, up to where verifyRS has its two points.
\* Without them the run is over.  The maps of R and of S have an order each.
Sign ==
  /\ phase = "loaded"
  /\ \E polys \in [1..N -> NoncePolys], m \in Hashes, ro, so \in Orders :
       LET rsk == [i \in 1..N |-> Share(polys, i)]
           r   == PointResult(rsk, seen, ro)
           s   == [i \in 1..N |-> SchnorrSign(psk[i], rsk[i], m)]
           sum == Lagrange([a \in DOMAIN so |-> s[so[a]]], SeedsOf(seen, so))
       IN  IF r # NoPoint /\ CanVerify(r, sum, m, gpk)
           THEN phase' = "signed" /\ sig' = [r |-> r, s |-> sum, m |-> m]
           ELSE phase' = "stored" /\ UNCHANGED sig
  /\ UNCHANGED <<drawn, peers, seen, secret, psk, gpk, waddress>>

Next == RequestGPK \/ ShareKey \/ StoreKey \/ StoreKeyFails \/ RequestSign \/ Sign

Spec == Init /\ [][Next]_vars

-----------------------------------------------------------------------------
(* Properties.                                                             *)

\* Shares, keys and signatures are reduced modulo the order, and every list has a
\* peer for each node.
TypeOK ==
  /\ phase \in {"start", "requested", "shared", "stored", "loaded", "signed", "panic"}
  /\ drawn = <<>> \/ drawn \in SeedLists
  /\ \A list \in {peers, seen} : Len(list) = Len(drawn)
  /\ secret \in 0..(Order - 1)
  /\ psk \in [1..N -> 0..(Order - 1)]
  /\ gpk \in 0..(Order - 1)
  /\ waddress \in [1..WAddressLength -> 0..255]
  /\ sig.r \in 0..(Order - 1) /\ sig.s \in 0..(Order - 1) /\ sig.m \in {0} \cup Hashes

\* Every node works with the seeds the leader drew, each for the node it was drawn
\* for: through the four bytes of a peer in a message, and through the "3 bytes for
\* every seed" (key.go) of the keystore and back.
SeedsSurvive ==
  /\ phase # "panic"
  /\ phase # "start" =>
       /\ peers = [i \in 1..N |-> [id |-> Group[i], seed |-> drawn[i]]]
       /\ seen = peers

\* The key that is stored belongs to the shares that are stored: it is the secret
\* times G, and Lagrange gives the secret for the shares of any Degree + 1 nodes in
\* any order in which a Go map may list them.
SharesMatchKey ==
  phase \in {"stored", "loaded", "signed"} =>
    /\ gpk = ScalarBaseMult(secret)
    /\ \A o \in Orders :
         Lagrange([a \in DOMAIN o |-> psk[o[a]]], SeedsOf(seen, o)) = secret

\* A signature that nodes make of correct shares passes verifyRS, whichever shares
\* they used; verifyRS gets no points to compare when the hash is not below the order.
SignatureVerifies ==
  phase = "signed" => Verifies(sig.r, sig.s, sig.m, gpk)

\* Degree shares are of no use: together with any secret they lie on a polynomial
\* that RandPoly might have returned.
TooFewSharesTellNothing ==
  phase = "shared" =>
    \A o \in Picks(Degree), f \in KeyPolys :
      \E c \in [1..Degree -> 1..Order] :
        \A a \in 1..Degree : EvaluatePoly([d \in 0..Degree |-> IF d = 0 THEN f[0] ELSE c[d]],
                                           drawn[o[a]]) = psk[o[a]]
=============================================================================
