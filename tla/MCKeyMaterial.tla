-------------------------- MODULE MCKeyMaterial --------------------------
(* Instances of KeyMaterial for TLC.                                       *)
EXTENDS KeyMaterial

\* Polynomials of degree one.  The order as a coefficient is a zero that RandPoly
\* may return.
Poly(c, d) == [i \in 0..1 |-> IF i = 0 THEN c ELSE d]

MCGroup == <<"a", "b", "c">>
MCSeedLists ==
  {x \in [1..3 -> {1, 255, 256}] : \A i, j \in 1..3 : x[i] = x[j] => i = j}
MCKeyPolys == {Poly(c, d) : c \in {0, 1, Order - 1}, d \in {1, Order}}
MCNoncePolys == {Poly(1, 1), Poly(Order - 1, 2)}
MCHashes == {1, 5, Order - 1, Order + 1}

\* The group of protocol.go: MpcSchnrNodeNumber is 50.
DefaultGroup == [i \in 1..50 |-> i]
DefaultSeedLists == {[i \in 1..50 |-> i]}
DefaultPolys == {Poly(1, 1)}
=============================================================================
