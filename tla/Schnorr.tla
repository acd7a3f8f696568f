------------------------------ MODULE Schnorr ------------------------------
(***************************************************************************)
(* The arithmetic of shcnorrmpc/basicfunc.go and of the steps that use it, *)
(* over a group of a small prime order.  A point of the curve is its       *)
(* logarithm to the base G, so that G is 1 and a multiple of a point is a  *)
(* product.  There is no usable point at infinity: the curve's Add and     *)
(* ScalarMult give coordinates that crash the program, that                *)
(* ValidatePublicKey rejects or that are on no curve, here all NoPoint.    *)
(***************************************************************************)
EXTENDS Integers, Sequences

CONSTANTS
  Order,    \* crypto.S256().Params().N, a prime
  Degree    \* MPCDegree, the threshold less one

ASSUME SchnorrAssumption ==
  /\ Order \in Nat \ {0, 1} /\ \A d \in 2..(Order - 1) : Order % d # 0
  /\ Degree \in 0..(Order - 2)

\* What RandPoly may return: each coefficient but the first is a random number
\* below the order, plus one.
RandPoly(constant) ==
  {f \in [0..Degree -> 0..Order] :
     f[0] = constant % Order /\ \A i \in 1..Degree : f[i] # 0}

\* A loop that adds up h[1], ..., h[n], reducing after each addition.
SumMod(h, n) ==
  LET sum[i \in 0..n] == IF i = 0 THEN 0 ELSE (sum[i - 1] + h[i]) % Order
  IN  sum[n]

\* A loop that multiplies h[1], ..., h[n], reducing after each multiplication.
ProdMod(h, n) ==
  LET prod[i \in 0..n] == IF i = 0 THEN 1 ELSE (prod[i - 1] * h[i]) % Order
  IN  prod[n]

\* math/big's Exp, modulo the order.
Exp(x, i) == ProdMod([j \in 1..i |-> x], i)

\* Form of EvaluatePoly whose loop ends one coefficient too soon.
EvaluatePolyShort(f, x) ==
  SumMod([i \in 1..Degree |-> (f[i - 1] * Exp(x, i - 1)) % Order], Degree)

EvaluatePoly(f, x) ==
  SumMod([i \in 1..(Degree + 1) |-> (f[i - 1] * Exp(x, i - 1)) % Order], Degree + 1)

\* math/big's ModInverse.
ModInverse(a) == CHOOSE b \in 1..(Order - 1) : (a * b) % Order = 1

\* Form of evaluateb with the difference the wrong way round.
evaluatebSwapped(x, i) ==
  ProdMod([j \in 1..(Degree + 1) |-> IF j = i THEN 1 ELSE x[j] * ModInverse(x[i] - x[j])],
          Degree + 1)

\* The weight at zero of the i-th of the points x[1], ..., x[Degree + 1].
evaluateb(x, i) ==
  ProdMod([j \in 1..(Degree + 1) |-> IF j = i THEN 1 ELSE x[j] * ModInverse(x[j] - x[i])],
          Degree + 1)

\* The value at zero of the polynomial through the points <<x[i], f[i]>>.
Lagrange(f, x) ==
  SumMod([i \in 1..(Degree + 1) |-> f[i] * evaluateb(x, i)], Degree + 1)

Times(a, b) == (a * b) % Order

NoPoint == 0

\* secp256k1_pubkey_scalar_mul takes no scalar that is zero or too large.
ScalarMult(p, k) ==
  IF p = NoPoint \/ k \notin 1..(Order - 1) THEN NoPoint ELSE Times(p, k)
ScalarBaseMult(k) == ScalarMult(1, k)

\* addJacobian has no case for points with the same x: its z is zero then.
Add(p, q) ==
  IF NoPoint \in {p, q} \/ p = q THEN NoPoint ELSE (p + q) % Order

\* Lagrange in the exponent; the sum starts with the first summand.
LagrangeECC(sig, x) ==
  LET sum[i \in 1..(Degree + 1)] ==
        LET term == ScalarMult(sig[i], evaluateb(x, i))
        IN  IF i = 1 THEN term ELSE Add(sum[i - 1], term)
  IN  sum[Degree + 1]

\* Form of SchnorrSign with the two factors of m mixed up.
SchnorrSignNonce(psk, r, m) == (Times(r, m) + psk) % Order

SchnorrSign(psk, r, m) == (Times(psk, m) + r) % Order

\* The end of verifyRS, where a comparison with NoPoint would crash.
CanVerify(r, s, m, gpk) ==
  /\ ScalarBaseMult(s) # NoPoint
  /\ Add(ScalarMult(gpk, m), r) # NoPoint
Verifies(r, s, m, gpk) == ScalarBaseMult(s) = Add(ScalarMult(gpk, m), r)
=============================================================================
