--------------------------- MODULE SchnorrProofs ---------------------------
(***************************************************************************)
(* What the loops of basicfunc.go compute, for every prime order, degree,  *)
(* and list of points.  Everything is said modulo the order (Cong).  The   *)
(* argument goes from the loops up:                                        *)
(*                                                                         *)
(*   - a loop is a function of the round, and a set that has its start and *)
(*     is closed under a round has every round (Induction);                *)
(*   - the weights of evaluateb for n points add up to 1 (WeightsSum): the *)
(*     weights of n + 2 points are combined from those without the last    *)
(*     point and those without the one before it, as in Neville's scheme;  *)
(*   - weighted with them, the powers of the points add up to 0, but the   *)
(*     power 0 to 1 (Moments), so Lagrange takes the values of a           *)
(*     polynomial to its constant term (LagrangeOfPoly), and sums of       *)
(*     values to sums of constant terms (LagrangeOfShares);                *)
(*   - LagrangeECC does the same to points (LagrangeECCIs), and what comes *)
(*     of it passes verifyRS (SignatureIs);                                *)
(*   - a polynomial passes through any points at different places          *)
(*     (Interpolation), with any constant term when there are Degree       *)
(*     points other than 0 (AnyConstantTerm).                              *)
(***************************************************************************)
EXTENDS Schnorr, WellFoundedInduction, TLAPS

\* Time limits for every step below.
USE SMTT(60), ZenonT(60)

-----------------------------------------------------------------------------
(* Induction.                                                              *)

\* A set of natural numbers has a smallest one.
LEMMA Smallest ==
  ASSUME NEW T \in SUBSET Nat, T # {}
  PROVE  \E m \in T : \A k \in T : m <= k
<1> DEFINE less == {p \in Nat \X Nat : p[1] < p[2]}
<1>1. IsWellFoundedOn(less, Nat)
  BY NatLessThanWellFounded DEF OpToRel
<1> HIDE DEF less
<1>2. PICK m \in T : \A k \in T : <<k, m>> \notin less
  BY ZenonT(60), <1>1, WFMin
<1>3. \A k \in T : ~(k < m)
  BY ZenonT(60), <1>2 DEF less
<1> QED  BY <1>3

\* What holds of b, and of i + 1 when it holds of i, holds of all numbers from b to n.
\* The set S stands for the property.
LEMMA Induction ==
  ASSUME NEW b \in Nat, NEW n \in Nat, NEW S, b \in S, \A i \in b..(n - 1) : i \in S => i + 1 \in S
  PROVE  \A i \in b..n : i \in S
<1> DEFINE T == {i \in b..n : i \notin S}
<1> SUFFICES ASSUME T # {} PROVE FALSE
  OBVIOUS
<1>1. PICK m \in T : \A k \in T : m <= k
  <2>1. T \in SUBSET Nat
    OBVIOUS
  <2> QED  BY ZenonT(60), <2>1, Smallest
<1>2. m # b /\ m - 1 \in b..(n - 1) /\ (m - 1) + 1 = m
  BY <1>1
<1>3. m - 1 \in S
  BY <1>1, <1>2
<1> QED  BY <1>1, <1>2, <1>3

\* A loop as a function: the value after round i is made of the one before it, from v
\* after round b.
Steps(b, n, V) == [V \X ((b + 1)..n) -> V]

IsLoop(g, b, n, V, v, step) ==
  /\ g \in [b..n -> V]
  /\ g[b] = v /\ \A i \in (b + 1)..n : g[i] = step[<<g[i - 1], i>>]

\* A loop has a value after every round.
LEMMA Rounds ==
  ASSUME NEW b \in Nat, NEW n \in Nat, n >= b, NEW V, NEW v \in V, NEW step \in Steps(b, n, V)
  PROVE  \E g : IsLoop(g, b, n, V, v, step)
<1> DEFINE Up(m) == \E g : IsLoop(g, b, m, V, v, step)
           S == {m \in b..n : Up(m)}
<1>1. b \in S
  <2> DEFINE g == [i \in b..b |-> v]
  <2>1. g \in [b..b -> V] /\ g[b] = v /\ (b + 1)..b = {}
    OBVIOUS
  <2> HIDE DEF g
  <2>2. IsLoop(g, b, b, V, v, step)
    BY <2>1 DEF IsLoop
  <2> QED  BY <2>2
<1>2. ASSUME NEW m \in b..(n - 1), m \in S PROVE m + 1 \in S
  <2>1. PICK g : IsLoop(g, b, m, V, v, step)
    BY <1>2
  <2>2. g \in [b..m -> V] /\ g[b] = v /\ \A i \in (b + 1)..m : g[i] = step[<<g[i - 1], i>>]
    BY <2>1 DEF IsLoop
  <2> DEFINE h == [i \in b..(m + 1) |-> IF i = m + 1 THEN step[<<g[m], m + 1>>] ELSE g[i]]
  <2>3. <<g[m], m + 1>> \in V \X ((b + 1)..n)
    BY <2>2
  <2>4. step[<<g[m], m + 1>>] \in V
    BY <2>3 DEF Steps
  <2>5. h \in [b..(m + 1) -> V] /\ h[b] = v
    BY <2>2, <2>4
  <2>6. ASSUME NEW i \in (b + 1)..(m + 1) PROVE h[i] = step[<<h[i - 1], i>>]
    <3>1. CASE i = m + 1
      <4>1. h[m + 1] = step[<<g[m], m + 1>>] /\ h[m] = g[m] /\ (m + 1) - 1 = m
        OBVIOUS
      <4> HIDE DEF h
      <4> QED  BY <3>1, <4>1
    <3>2. CASE i # m + 1
      <4>1. i \in (b + 1)..m /\ i - 1 \in b..m /\ i - 1 # m + 1 /\ i - 1 \in b..(m + 1)
        BY <3>2
      <4> QED  BY <2>2, <4>1
    <3> QED  BY <3>1, <3>2
  <2> HIDE DEF h
  <2>7. IsLoop(h, b, m + 1, V, v, step)
    BY <2>5, <2>6 DEF IsLoop
  <2> QED  BY <2>7
<1> HIDE DEF S
<1>3. n \in S
  BY <1>1, <1>2, Induction
<1> QED  BY <1>3 DEF S

\* The same as long as the values are in V.
FollowsLoop(s, b, n, V, v, step) ==
  /\ s = [i \in b..n |-> s[i]]
  /\ s[b] = v /\ \A i \in (b + 1)..n : s[i - 1] \in V => s[i] = step[<<s[i - 1], i>>]

\* And only one.
LEMMA SameLoop ==
  ASSUME NEW b \in Nat, NEW n \in Nat, n >= b, NEW V, NEW v, NEW step, NEW g,
         IsLoop(g, b, n, V, v, step), NEW s, FollowsLoop(s, b, n, V, v, step)
  PROVE  s = g
<1>0. /\ s = [i \in b..n |-> s[i]]
      /\ s[b] = v /\ \A i \in (b + 1)..n : s[i - 1] \in V => s[i] = step[<<s[i - 1], i>>]
  BY ZenonT(60) DEF FollowsLoop
<1>1. g \in [b..n -> V] /\ g[b] = v /\ \A i \in (b + 1)..n : g[i] = step[<<g[i - 1], i>>]
  BY DEF IsLoop
<1> DEFINE S == {i \in b..n : s[i] = g[i]}
<1>2. b \in S
  BY <1>0, <1>1
<1>3. ASSUME NEW i \in b..(n - 1), i \in S PROVE i + 1 \in S
  <2>1. i + 1 \in (b + 1)..n /\ i + 1 \in b..n /\ (i + 1) - 1 = i /\ s[i] = g[i] /\ g[i] \in V
    BY <1>1, <1>3
  <2>2. g[i + 1] = step[<<g[i], i + 1>>] /\ s[i + 1] = step[<<s[i], i + 1>>]
    BY ZenonT(60), <1>0, <1>1, <2>1
  <2> QED  BY <2>1, <2>2
<1> HIDE DEF S
<1>4. \A i \in b..n : i \in S
  BY <1>2, <1>3, Induction
<1>5. \A i \in b..n : s[i] = g[i]
  BY <1>4 DEF S
<1>6. g = [i \in b..n |-> g[i]]
  BY <1>1
<1> QED  BY <1>0, <1>5, <1>6

-----------------------------------------------------------------------------
(* Numbers modulo the order.                                               *)

Cong(a, b) == a % Order = b % Order

Residues == 0..(Order - 1)

\* Division with remainder.
LEMMA Division ==
  ASSUME NEW a \in Int, NEW c \in Nat \ {0}
  PROVE  /\ a = (a \div c) * c + (a % c) /\ a \div c \in Int /\ a % c \in 0..(c - 1)
         /\ \A k \in Int, r \in 0..(c - 1) : a = k * c + r => a % c = r
<1>1. a = (a \div c) * c + (a % c) /\ a \div c \in Int /\ a % c \in 0..(c - 1)
  OBVIOUS
<1>2. ASSUME NEW k \in Int, NEW r \in 0..(c - 1), a = k * c + r PROVE a % c = r
  BY <1>2
<1> QED  BY <1>1, <1>2

\* Reducing a number changes it by a multiple of the order.
LEMMA Reduced ==
  ASSUME NEW a \in Int
  PROVE  a % Order \in Residues /\ Cong(a % Order, a) /\ (a \in Residues => a % Order = a)
<1>1. Order \in Nat \ {0}
  BY SchnorrAssumption
<1> QED  BY <1>1 DEF Residues, Cong

\* Two numbers are congruent when their difference is a multiple of the order.
LEMMA CongMultiple ==
  ASSUME NEW a \in Int, NEW b \in Int
  PROVE  Cong(a, b) <=> \E k \in Int : a = b + k * Order
<1>1. Order \in Nat \ {0}
  BY SchnorrAssumption
<1>2. PICK m \in Int, r \in 0..(Order - 1) : a = m * Order + r /\ a % Order = r
  BY ZenonT(60), <1>1, Division
<1>3. PICK n \in Int, s \in 0..(Order - 1) : b = n * Order + s /\ b % Order = s
  BY ZenonT(60), <1>1, Division
<1>4. ASSUME Cong(a, b) PROVE \E k \in Int : a = b + k * Order
  <2>1. a = b + (m - n) * Order /\ m - n \in Int
    BY <1>1, <1>2, <1>3, <1>4 DEF Cong
  <2> QED  BY ZenonT(60), <2>1
<1>5. ASSUME NEW k \in Int, a = b + k * Order PROVE Cong(a, b)
  <2>1. a = (k + n) * Order + s /\ k + n \in Int
    BY <1>1, <1>3, <1>5
  <2>2. a % Order = s
    BY ZenonT(60), <1>1, <2>1, Division
  <2> QED  BY <1>3, <2>2 DEF Cong
<1> QED  BY <1>4, <1>5

\* Congruent numbers may replace each other in sums and products.
LEMMA CongOps ==
  ASSUME NEW a \in Int, NEW b \in Int, NEW c \in Int, NEW d \in Int, Cong(a, b), Cong(c, d)
  PROVE  Cong(a + c, b + d) /\ Cong(a - c, b - d) /\ Cong(a * c, b * d)
<1>1. Order \in Nat \ {0}
  BY SchnorrAssumption
<1>2. PICK k \in Int : a = b + k * Order
  BY CongMultiple
<1>3. PICK l \in Int : c = d + l * Order
  BY CongMultiple
<1>4. a + c = (b + d) + (k + l) * Order
  BY <1>1, <1>2, <1>3
<1>5. a - c = (b - d) + (k - l) * Order
  BY <1>1, <1>2, <1>3
<1>6. a * c = b * d + (b * l + k * d + k * l * Order) * Order
  BY <1>1, <1>2, <1>3
<1>7. k + l \in Int /\ k - l \in Int /\ b * l + k * d + k * l * Order \in Int
  BY <1>1
<1> QED  BY <1>4, <1>5, <1>6, <1>7, CongMultiple

\* A number that the order does not divide has an inverse: the remainder of the order
\* by it has one, and is smaller.
LEMMA SmallInverse ==
  ASSUME NEW a \in 1..(Order - 1)
  PROVE  \E b \in Int : Cong(a * b, 1)
<1> DEFINE T == {c \in 1..(Order - 1) : ~\E b \in Int : Cong(c * b, 1)}
           q == Order
<1>1. q \in Nat /\ q > 1 /\ \A d \in 2..(q - 1) : q % d # 0
  BY SchnorrAssumption
<1> SUFFICES ASSUME T # {} PROVE FALSE
  BY ZenonT(60)
<1>2. PICK c \in T : \A e \in T : c <= e
  <2>1. T \in SUBSET Nat
    BY <1>1
  <2> HIDE DEF T
  <2> QED  BY <2>1, Smallest
<1>3. c # 1
  <2>1. 1 * 1 = 1
    OBVIOUS
  <2> QED  BY <2>1 DEF Cong
<1>4. c \in 2..(q - 1) /\ c \in Nat \ {0}
  BY <1>1, <1>3
<1>5. PICK t \in Int, r \in 1..(c - 1) : q = t * c + r
  <2>1. q % c # 0
    BY ZenonT(60), <1>1, <1>4
  <2>2. q \in Int
    BY <1>1
  <2>3. q = (q \div c) * c + (q % c) /\ q \div c \in Int /\ q % c \in 0..(c - 1)
    BY ZenonT(60), <1>4, <2>2, Division
  <2>4. q % c \in 1..(c - 1)
    BY <1>4, <2>1, <2>3
  <2> QED  BY ZenonT(60), <2>3, <2>4
<1>6. PICK e \in Int : Cong(r * e, 1)
  <2>1. r \in 1..(q - 1) /\ ~(c <= r)
    BY <1>4, <1>5
  <2> QED  BY ZenonT(60), <1>2, <2>1
<1>7. PICK k \in Int : r * e = 1 + k * q
  <2>1. r * e \in Int
    BY <1>4, <1>5
  <2> QED  BY <1>6, <2>1, CongMultiple
<1>8. c * (0 - t * e) = 1 + (k - e) * q
  <2>1. c * (0 - t * e) = 0 - e * (t * c)
    BY <1>1, <1>4, <1>5
  <2>2. e * (t * c) = e * q - e * r
    BY <1>1, <1>4, <1>5
  <2> QED  BY <1>1, <1>5, <1>7, <2>1, <2>2
<1>9. Cong(c * (0 - t * e), 1)
  <2>1. c * (0 - t * e) \in Int /\ k - e \in Int
    BY <1>1, <1>4, <1>5
  <2> QED  BY <1>8, <2>1, CongMultiple
<1>10. 0 - t * e \in Int
  BY <1>5
<1> QED  BY ZenonT(60), <1>2, <1>9, <1>10

\* One is not zero.
LEMMA OneReduced == 1 % Order = 1 /\ 0 % Order = 0
<1>1. 1 \in Residues /\ 0 \in Residues
  BY SchnorrAssumption DEF Residues
<1> QED  BY <1>1, Reduced

\* ModInverse finds an inverse of every number that is not zero.
LEMMA ModInverseIs ==
  ASSUME NEW a \in Int, ~Cong(a, 0)
  PROVE  ModInverse(a) \in 1..(Order - 1) /\ Cong(a * ModInverse(a), 1)
<1>1. Order \in Nat /\ Order > 1
  BY SchnorrAssumption
<1> DEFINE r == a % Order
<1>2. r \in 1..(Order - 1) /\ Cong(r, a)
  <2>1. r \in Residues /\ Cong(r, a) /\ r # 0
    BY Reduced, OneReduced DEF Cong
  <2> QED  BY <1>1, <2>1 DEF Residues
<1> HIDE DEF r
<1>3. PICK b \in Int : Cong(r * b, 1)
  BY <1>2, SmallInverse
<1> DEFINE c == b % Order
<1>4. c \in Residues /\ Cong(c, b)
  BY Reduced
<1> HIDE DEF c
<1>5. r \in Int /\ c \in Int /\ a * c \in Int
  BY <1>1, <1>2, <1>4 DEF Residues
<1>6. Cong(r * b, a * c)
  <2>1. Cong(b, c)
    BY <1>4 DEF Cong
  <2> QED  BY <1>2, <1>5, <2>1, CongOps
<1>7. (a * c) % Order = 1
  BY <1>3, <1>6, OneReduced DEF Cong
<1>8. c # 0
  <2>1. a * 0 = 0
    OBVIOUS
  <2> QED  BY <1>7, <2>1, OneReduced
<1>9. c \in 1..(Order - 1)
  BY <1>1, <1>4, <1>8 DEF Residues
<1>10. \E d \in 1..(Order - 1) : (a * d) % Order = 1
  BY ZenonT(60), <1>7, <1>9
<1>11. ModInverse(a) \in 1..(Order - 1) /\ (a * ModInverse(a)) % Order = 1
  BY ZenonT(60), <1>10 DEF ModInverse
<1> QED  BY <1>11, OneReduced DEF Cong

\* A factor that is not zero may be cancelled.
LEMMA Cancel ==
  ASSUME NEW a \in Int, NEW b \in Int, NEW c \in Int, ~Cong(a, 0), Cong(a * b, a * c)
  PROVE  Cong(b, c)
<1>1. PICK e \in Int : Cong(a * e, 1)
  <2>1. 1..(Order - 1) \subseteq Int
    BY SchnorrAssumption
  <2> QED  BY ZenonT(60), <2>1, ModInverseIs
<1>2. PICK k \in Int : a * e = 1 + k * Order
  BY <1>1, CongMultiple
<1>3. PICK l \in Int : a * b = a * c + l * Order
  BY CongMultiple
<1>4. Order \in Int
  BY SchnorrAssumption
<1>5. b = c + (e * l - k * b + k * c) * Order
  <2>1. (a * e) * b = b + (k * b) * Order
    BY <1>2, <1>4
  <2>2. (a * e) * c = c + (k * c) * Order
    BY <1>2, <1>4
  <2>3. (a * e) * b = (a * e) * c + (e * l) * Order
    <3>1. e * (a * b) = e * (a * c) + e * (l * Order)
      BY <1>3, <1>4
    <3> QED  BY <1>4, <3>1
  <2> QED  BY <1>4, <2>1, <2>2, <2>3
<1>6. e * l - k * b + k * c \in Int
  OBVIOUS
<1> QED  BY <1>5, <1>6, CongMultiple

-----------------------------------------------------------------------------
(* Sums and products.                                                      *)

\* The loop of SumMod, round by round.
SumLoop(s, h, n) ==
  /\ s \in [0..n -> Residues]
  /\ s[0] = 0 /\ \A i \in 1..n : s[i] = (s[i - 1] + h[i]) % Order

\* SumMod returns the value after the last round.
LEMMA SumRounds ==
  ASSUME NEW n \in Nat, NEW h, \A i \in 1..n : h[i] \in Int
  PROVE  \E s : SumLoop(s, h, n) /\ SumMod(h, n) = s[n]
<1> DEFINE Is(s) == s = [i \in 0..n |-> IF i = 0 THEN 0 ELSE (s[i - 1] + h[i]) % Order]
           step == [p \in Residues \X (1..n) |-> (p[1] + h[p[2]]) % Order]
<1>1. 0 \in Residues /\ Residues \subseteq Int
  BY SchnorrAssumption DEF Residues
<1>2. \A v \in Residues, i \in 1..n : (v + h[i]) % Order \in Residues
  BY <1>1, Reduced
<1>3. step \in Steps(0, n, Residues)
  BY <1>2 DEF Steps
<1>4. \A v \in Residues, i \in 1..n : step[<<v, i>>] = (v + h[i]) % Order
  OBVIOUS
<1> HIDE DEF step
<1>5. 0 \in Nat /\ n >= 0 /\ 0 \in 0..n
  OBVIOUS
<1>6. PICK g : IsLoop(g, 0, n, Residues, 0, step)
  BY <1>1, <1>3, <1>5, Rounds
<1>7. g \in [0..n -> Residues] /\ g[0] = 0 /\ \A i \in 1..n : g[i] = step[<<g[i - 1], i>>]
  BY <1>6 DEF IsLoop
<1>8. ASSUME NEW i \in 1..n PROVE g[i] = (g[i - 1] + h[i]) % Order
  <2>1. i - 1 \in 0..n
    OBVIOUS
  <2>2. g[i - 1] \in Residues
    BY <1>7, <2>1
  <2> QED  BY ZenonT(60), <1>4, <1>7, <2>2
<1>9. Is(g)
  <2> DEFINE f == [i \in 0..n |-> IF i = 0 THEN 0 ELSE (g[i - 1] + h[i]) % Order]
  <2>1. ASSUME NEW i \in 0..n PROVE g[i] = f[i]
    BY <1>7, <1>8
  <2> HIDE DEF f
  <2>2. f = [i \in 0..n |-> f[i]]
    BY DEF f
  <2>3. g = [i \in 0..n |-> g[i]]
    BY <1>7
  <2>4. g = f
    BY <2>1, <2>2, <2>3
  <2> QED  BY <2>4 DEF f
<1> HIDE DEF Is
<1> DEFINE s == CHOOSE s : Is(s)
<1>10. Is(s) /\ SumMod(h, n) = s[n]
  <2>1. Is(s)
    BY <1>9
  <2> QED  BY ZenonT(60), <2>1 DEF SumMod, Is
<1> HIDE DEF s
<1>11. /\ s = [i \in 0..n |-> s[i]]
       /\ \A i \in 0..n : s[i] = IF i = 0 THEN 0 ELSE (s[i - 1] + h[i]) % Order
  BY <1>10 DEF Is
<1>12. s[0] = 0
  BY ZenonT(60), <1>5, <1>11
<1>13. ASSUME NEW i \in (0 + 1)..n, s[i - 1] \in Residues PROVE s[i] = step[<<s[i - 1], i>>]
  <2>1. i \in 1..n /\ i \in 0..n /\ i # 0
    OBVIOUS
  <2> QED  BY ZenonT(60), <1>4, <1>11, <1>13, <2>1
<1>14. s = g
  <2>1. FollowsLoop(s, 0, n, Residues, 0, step)
    BY ZenonT(60), <1>11, <1>12, <1>13 DEF FollowsLoop
  <2> QED  BY <1>5, <1>6, <2>1, SameLoop
<1>15. SumLoop(s, h, n)
  BY <1>7, <1>8, <1>14 DEF SumLoop
<1> QED  BY ZenonT(60), <1>10, <1>15

\* The loop of ProdMod, round by round.
ProdLoop(s, h, n) ==
  /\ s \in [0..n -> Residues]
  /\ s[0] = 1 /\ \A i \in 1..n : s[i] = (s[i - 1] * h[i]) % Order

\* ProdMod returns the value after the last round.
LEMMA ProdRounds ==
  ASSUME NEW n \in Nat, NEW h, \A i \in 1..n : h[i] \in Int
  PROVE  \E s : ProdLoop(s, h, n) /\ ProdMod(h, n) = s[n]
<1> DEFINE Is(s) == s = [i \in 0..n |-> IF i = 0 THEN 1 ELSE (s[i - 1] * h[i]) % Order]
           step == [p \in Residues \X (1..n) |-> (p[1] * h[p[2]]) % Order]
<1>1. 1 \in Residues /\ Residues \subseteq Int
  BY SchnorrAssumption DEF Residues
<1>2. \A v \in Residues, i \in 1..n : (v * h[i]) % Order \in Residues
  BY <1>1, Reduced
<1>3. step \in Steps(0, n, Residues)
  BY <1>2 DEF Steps
<1>4. \A v \in Residues, i \in 1..n : step[<<v, i>>] = (v * h[i]) % Order
  OBVIOUS
<1> HIDE DEF step
<1>5. 0 \in Nat /\ n >= 0 /\ 0 \in 0..n
  OBVIOUS
<1>6. PICK g : IsLoop(g, 0, n, Residues, 1, step)
  BY <1>1, <1>3, <1>5, Rounds
<1>7. g \in [0..n -> Residues] /\ g[0] = 1 /\ \A i \in 1..n : g[i] = step[<<g[i - 1], i>>]
  BY <1>6 DEF IsLoop
<1>8. ASSUME NEW i \in 1..n PROVE g[i] = (g[i - 1] * h[i]) % Order
  <2>1. i - 1 \in 0..n
    OBVIOUS
  <2>2. g[i - 1] \in Residues
    BY <1>7, <2>1
  <2> QED  BY ZenonT(60), <1>4, <1>7, <2>2
<1>9. Is(g)
  <2> DEFINE f == [i \in 0..n |-> IF i = 0 THEN 1 ELSE (g[i - 1] * h[i]) % Order]
  <2>1. ASSUME NEW i \in 0..n PROVE g[i] = f[i]
    BY <1>7, <1>8
  <2> HIDE DEF f
  <2>2. f = [i \in 0..n |-> f[i]]
    BY DEF f
  <2>3. g = [i \in 0..n |-> g[i]]
    BY <1>7
  <2>4. g = f
    BY <2>1, <2>2, <2>3
  <2> QED  BY <2>4 DEF f
<1> HIDE DEF Is
<1> DEFINE s == CHOOSE s : Is(s)
<1>10. Is(s) /\ ProdMod(h, n) = s[n]
  <2>1. Is(s)
    BY <1>9
  <2> QED  BY ZenonT(60), <2>1 DEF ProdMod, Is
<1> HIDE DEF s
<1>11. /\ s = [i \in 0..n |-> s[i]]
       /\ \A i \in 0..n : s[i] = IF i = 0 THEN 1 ELSE (s[i - 1] * h[i]) % Order
  BY <1>10 DEF Is
<1>12. s[0] = 1
  BY ZenonT(60), <1>5, <1>11
<1>13. ASSUME NEW i \in (0 + 1)..n, s[i - 1] \in Residues PROVE s[i] = step[<<s[i - 1], i>>]
  <2>1. i \in 1..n /\ i \in 0..n /\ i # 0
    OBVIOUS
  <2> QED  BY ZenonT(60), <1>4, <1>11, <1>13, <2>1
<1>14. s = g
  <2>1. FollowsLoop(s, 0, n, Residues, 1, step)
    BY ZenonT(60), <1>11, <1>12, <1>13 DEF FollowsLoop
  <2> QED  BY <1>5, <1>6, <2>1, SameLoop
<1>15. ProdLoop(s, h, n)
  BY <1>7, <1>8, <1>14 DEF ProdLoop
<1> QED  BY ZenonT(60), <1>10, <1>15

\* Another round adds the next number to what the rounds before it gave.
LEMMA SumNext ==
  ASSUME NEW n \in Nat, NEW h, \A i \in 1..(n + 1) : h[i] \in Int
  PROVE  SumMod(h, n + 1) = (SumMod(h, n) + h[n + 1]) % Order
<1>0. n + 1 \in Nat /\ (\A i \in 1..n : h[i] \in Int) /\ 0 \in 0..n /\ n \in 0..n
  OBVIOUS
<1>1. PICK s : SumLoop(s, h, n) /\ SumMod(h, n) = s[n]
  BY ZenonT(60), <1>0, SumRounds
<1>2. PICK t : SumLoop(t, h, n + 1) /\ SumMod(h, n + 1) = t[n + 1]
  BY ZenonT(60), <1>0, SumRounds
<1> DEFINE S == {i \in 0..n : s[i] = t[i]}
<1>3. 0 \in S
  BY <1>0, <1>1, <1>2 DEF SumLoop
<1>4. ASSUME NEW i \in 0..(n - 1), i \in S PROVE i + 1 \in S
  <2>1. i + 1 \in 0..n /\ i + 1 \in 1..n /\ i + 1 \in 1..(n + 1) /\ (i + 1) - 1 = i /\ s[i] = t[i]
    BY <1>4
  <2>2. s[i + 1] = (s[i] + h[i + 1]) % Order /\ t[i + 1] = (t[i] + h[i + 1]) % Order
    BY ZenonT(60), <1>1, <1>2, <2>1 DEF SumLoop
  <2> QED  BY <2>1, <2>2
<1> HIDE DEF S
<1>5. \A i \in 0..n : i \in S
  BY <1>3, <1>4, Induction
<1>6. s[n] = t[n]
  BY <1>0, <1>5 DEF S
<1>7. n + 1 \in 1..(n + 1) /\ (n + 1) - 1 = n
  OBVIOUS
<1>8. t[n + 1] = (t[n] + h[n + 1]) % Order
  BY ZenonT(60), <1>2, <1>7 DEF SumLoop
<1> QED  BY <1>1, <1>2, <1>6, <1>8

\* What a loop of no rounds and what one of n rounds returns.
LEMMA SumType ==
  ASSUME NEW n \in Nat, NEW h, \A i \in 1..n : h[i] \in Int
  PROVE  SumMod(h, n) \in Residues /\ SumMod(h, n) \in Int /\ SumMod(h, 0) = 0
<1>1. PICK s : SumLoop(s, h, n) /\ SumMod(h, n) = s[n]
  BY SumRounds
<1>2. SumMod(h, n) \in Residues
  BY <1>1 DEF SumLoop
<1>3. SumMod(h, 0) = 0
  <2>1. 0 \in Nat /\ \A i \in 1..0 : h[i] \in Int
    OBVIOUS
  <2> QED  BY ZenonT(60), <2>1, SumRounds DEF SumLoop
<1>4. Residues \subseteq Int
  BY SchnorrAssumption DEF Residues
<1> QED  BY ZenonT(60), <1>2, <1>3, <1>4

\* Another round multiplies the next number to what the rounds before it gave.
LEMMA ProdNext ==
  ASSUME NEW n \in Nat, NEW h, \A i \in 1..(n + 1) : h[i] \in Int
  PROVE  ProdMod(h, n + 1) = (ProdMod(h, n) * h[n + 1]) % Order
<1>0. n + 1 \in Nat /\ (\A i \in 1..n : h[i] \in Int) /\ 0 \in 0..n /\ n \in 0..n
  OBVIOUS
<1>1. PICK s : ProdLoop(s, h, n) /\ ProdMod(h, n) = s[n]
  BY ZenonT(60), <1>0, ProdRounds
<1>2. PICK t : ProdLoop(t, h, n + 1) /\ ProdMod(h, n + 1) = t[n + 1]
  BY ZenonT(60), <1>0, ProdRounds
<1> DEFINE S == {i \in 0..n : s[i] = t[i]}
<1>3. 0 \in S
  BY <1>0, <1>1, <1>2 DEF ProdLoop
<1>4. ASSUME NEW i \in 0..(n - 1), i \in S PROVE i + 1 \in S
  <2>1. i + 1 \in 0..n /\ i + 1 \in 1..n /\ i + 1 \in 1..(n + 1) /\ (i + 1) - 1 = i /\ s[i] = t[i]
    BY <1>4
  <2>2. s[i + 1] = (s[i] * h[i + 1]) % Order /\ t[i + 1] = (t[i] * h[i + 1]) % Order
    BY ZenonT(60), <1>1, <1>2, <2>1 DEF ProdLoop
  <2> QED  BY <2>1, <2>2
<1> HIDE DEF S
<1>5. \A i \in 0..n : i \in S
  BY <1>3, <1>4, Induction
<1>6. s[n] = t[n]
  BY <1>0, <1>5 DEF S
<1>7. n + 1 \in 1..(n + 1) /\ (n + 1) - 1 = n
  OBVIOUS
<1>8. t[n + 1] = (t[n] * h[n + 1]) % Order
  BY ZenonT(60), <1>2, <1>7 DEF ProdLoop
<1> QED  BY <1>1, <1>2, <1>6, <1>8

\* What a loop of no rounds and what one of n rounds returns.
LEMMA ProdType ==
  ASSUME NEW n \in Nat, NEW h, \A i \in 1..n : h[i] \in Int
  PROVE  ProdMod(h, n) \in Residues /\ ProdMod(h, n) \in Int /\ ProdMod(h, 0) = 1
<1>1. PICK s : ProdLoop(s, h, n) /\ ProdMod(h, n) = s[n]
  BY ProdRounds
<1>2. ProdMod(h, n) \in Residues
  BY <1>1 DEF ProdLoop
<1>3. ProdMod(h, 0) = 1
  <2>1. 0 \in Nat /\ \A i \in 1..0 : h[i] \in Int
    OBVIOUS
  <2> QED  BY ZenonT(60), <2>1, ProdRounds DEF ProdLoop
<1>4. Residues \subseteq Int
  BY SchnorrAssumption DEF Residues
<1> QED  BY ZenonT(60), <1>2, <1>3, <1>4

\* Reduced numbers that are congruent are equal.
LEMMA SameResidue ==
  ASSUME NEW a \in Residues, NEW b \in Residues, Cong(a, b)
  PROVE  a = b
<1>1. a \in Int /\ b \in Int
  BY SchnorrAssumption DEF Residues
<1> QED  BY <1>1, Reduced DEF Cong

\* The arithmetic of a round of SumLinear.
LEMMA LinearRound ==
  ASSUME NEW a \in Int, NEW b \in Int, NEW K \in Int, NEW H \in Int, NEW G \in Int,
         NEW x \in Int, NEW y \in Int, NEW z \in Int,
         Cong(K, a * H + b * G), Cong(x, a * y + b * z)
  PROVE  Cong((K + x) % Order, a * ((H + y) % Order) + b * ((G + z) % Order))
<1> DEFINE h == (H + y) % Order
           g == (G + z) % Order
<1>1. h \in Int /\ Cong(h, H + y) /\ g \in Int /\ Cong(g, G + z) /\ Cong((K + x) % Order, K + x)
  <2>1. Residues \subseteq Int /\ H + y \in Int /\ G + z \in Int /\ K + x \in Int
    BY SchnorrAssumption DEF Residues
  <2> QED  BY ZenonT(60), <2>1, Reduced
<1> HIDE DEF h, g
<1>2. Cong(a * h, a * (H + y)) /\ Cong(b * g, b * (G + z))
  <2>1. Cong(a, a) /\ Cong(b, b) /\ H + y \in Int /\ G + z \in Int
    BY DEF Cong
  <2> QED  BY <1>1, <2>1, CongOps
<1>3. Cong(a * h + b * g, a * (H + y) + b * (G + z))
  <2>1. a * h \in Int /\ b * g \in Int /\ a * (H + y) \in Int /\ b * (G + z) \in Int
    BY <1>1
  <2> QED  BY <1>2, <2>1, CongOps
<1>4. Cong(K + x, (a * H + b * G) + (a * y + b * z))
  <2>1. a * H + b * G \in Int /\ a * y + b * z \in Int
    OBVIOUS
  <2> QED  BY <2>1, CongOps
<1>5. (a * H + b * G) + (a * y + b * z) = a * (H + y) + b * (G + z)
  OBVIOUS
<1> QED  BY <1>1, <1>3, <1>4, <1>5 DEF Cong, h, g

Ints(h, n) == \A i \in 1..n : h[i] \in Int

\* Sums are linear.
LEMMA SumLinear ==
  ASSUME NEW n \in Nat, NEW a \in Int, NEW b \in Int, NEW h, NEW g, NEW k,
         Ints(h, n), Ints(g, n), Ints(k, n),
         \A i \in 1..n : Cong(k[i], a * h[i] + b * g[i])
  PROVE  Cong(SumMod(k, n), a * SumMod(h, n) + b * SumMod(g, n))
<1> DEFINE P(m) == Cong(SumMod(k, m), a * SumMod(h, m) + b * SumMod(g, m))
           S == {m \in 0..n : P(m)}
<1>1. ASSUME NEW m \in 0..n, NEW f, Ints(f, n)
      PROVE  SumMod(f, m) \in Int /\ SumMod(f, 0) = 0
  <2>1. m \in Nat /\ \A i \in 1..m : f[i] \in Int
    BY <1>1 DEF Ints
  <2> QED  BY ZenonT(60), <2>1, SumType
<1>2. ASSUME NEW m \in 0..(n - 1), NEW f, Ints(f, n)
      PROVE  SumMod(f, m + 1) = (SumMod(f, m) + f[m + 1]) % Order /\ f[m + 1] \in Int
  <2>1. m \in Nat /\ m + 1 \in 1..n /\ \A i \in 1..(m + 1) : f[i] \in Int
    BY <1>2 DEF Ints
  <2> QED  BY ZenonT(60), <1>2, <2>1, SumNext DEF Ints
<1>3. 0 \in S
  <2>1. 0 \in 0..n /\ a * 0 + b * 0 = 0
    OBVIOUS
  <2>2. SumMod(k, 0) = 0 /\ SumMod(h, 0) = 0 /\ SumMod(g, 0) = 0
    BY ZenonT(60), <1>1, <2>1
  <2> QED  BY <2>1, <2>2 DEF Cong
<1>4. ASSUME NEW m \in 0..(n - 1), m \in S PROVE m + 1 \in S
  <2>1. m \in 0..n /\ m + 1 \in 0..n /\ m + 1 \in 1..n
    OBVIOUS
  <2>2. SumMod(k, m) \in Int /\ SumMod(h, m) \in Int /\ SumMod(g, m) \in Int
    BY ZenonT(60), <1>1, <2>1
  <2>3. k[m + 1] \in Int /\ h[m + 1] \in Int /\ g[m + 1] \in Int
        /\ Cong(k[m + 1], a * h[m + 1] + b * g[m + 1])
    BY ZenonT(60), <1>2, <2>1
  <2>4. Cong((SumMod(k, m) + k[m + 1]) % Order,
             a * ((SumMod(h, m) + h[m + 1]) % Order) + b * ((SumMod(g, m) + g[m + 1]) % Order))
    BY ZenonT(60), <1>4, <2>2, <2>3, LinearRound
  <2>5. P(m + 1)
    BY ZenonT(60), <1>2, <2>4
  <2> QED  BY <2>1, <2>5
<1> HIDE DEF P, S
<1>5. \A m \in 0..n : m \in S
  BY <1>3, <1>4, Induction
<1>6. P(n)
  BY <1>5 DEF S
<1> QED  BY <1>6 DEF P

\* Congruent summands have the same sum.
LEMMA SumCong ==
  ASSUME NEW n \in Nat, NEW h, NEW k, Ints(h, n), Ints(k, n), \A i \in 1..n : Cong(k[i], h[i])
  PROVE  SumMod(k, n) = SumMod(h, n)
<1>1. SumMod(k, n) \in Residues /\ SumMod(h, n) \in Residues /\ SumMod(h, n) \in Int
  BY ZenonT(60), SumType DEF Ints
<1>2. \A i \in 1..n : Cong(k[i], 1 * h[i] + 0 * h[i])
  <2>1. \A i \in 1..n : 1 * h[i] + 0 * h[i] = h[i]
    BY DEF Ints
  <2> QED  BY <2>1
<1>3. Cong(SumMod(k, n), 1 * SumMod(h, n) + 0 * SumMod(h, n))
  <2>1. 1 \in Int /\ 0 \in Int
    OBVIOUS
  <2> QED  BY ZenonT(60), <1>2, <2>1, SumLinear
<1>4. 1 * SumMod(h, n) + 0 * SumMod(h, n) = SumMod(h, n)
  BY <1>1
<1>5. Cong(SumMod(k, n), SumMod(h, n))
  BY <1>3, <1>4
<1> QED  BY <1>1, <1>5, SameResidue

\* Congruent factors have the same product.
LEMMA ProdCong ==
  ASSUME NEW n \in Nat, NEW h, NEW k, Ints(h, n), Ints(k, n), \A i \in 1..n : Cong(k[i], h[i])
  PROVE  ProdMod(k, n) = ProdMod(h, n)
<1> DEFINE P(m) == ProdMod(k, m) = ProdMod(h, m)
           S == {m \in 0..n : P(m)}
<1>1. ASSUME NEW m \in 0..n, NEW f, Ints(f, n)
      PROVE  ProdMod(f, m) \in Int /\ ProdMod(f, 0) = 1
  <2>1. m \in Nat /\ \A i \in 1..m : f[i] \in Int
    BY <1>1 DEF Ints
  <2> QED  BY ZenonT(60), <2>1, ProdType
<1>2. ASSUME NEW m \in 0..(n - 1), NEW f, Ints(f, n)
      PROVE  ProdMod(f, m + 1) = (ProdMod(f, m) * f[m + 1]) % Order /\ f[m + 1] \in Int
  <2>1. m \in Nat /\ m + 1 \in 1..n /\ \A i \in 1..(m + 1) : f[i] \in Int
    BY <1>2 DEF Ints
  <2> QED  BY ZenonT(60), <1>2, <2>1, ProdNext DEF Ints
<1>3. 0 \in S
  <2>1. 0 \in 0..n
    OBVIOUS
  <2>2. ProdMod(k, 0) = 1 /\ ProdMod(h, 0) = 1
    BY ZenonT(60), <1>1, <2>1
  <2> QED  BY <2>1, <2>2
<1>4. ASSUME NEW m \in 0..(n - 1), m \in S PROVE m + 1 \in S
  <2>1. m \in 0..n /\ m + 1 \in 0..n /\ m + 1 \in 1..n
    OBVIOUS
  <2>2. ProdMod(k, m) \in Int /\ ProdMod(h, m) \in Int /\ Cong(ProdMod(k, m), ProdMod(h, m))
    BY ZenonT(60), <1>1, <1>4, <2>1 DEF Cong
  <2>3. k[m + 1] \in Int /\ h[m + 1] \in Int /\ Cong(k[m + 1], h[m + 1])
    BY ZenonT(60), <1>2, <2>1
  <2>4. Cong(ProdMod(k, m) * k[m + 1], ProdMod(h, m) * h[m + 1])
    BY ZenonT(60), <2>2, <2>3, CongOps
  <2>5. P(m + 1)
    BY ZenonT(60), <1>2, <2>4 DEF Cong
  <2> QED  BY <2>1, <2>5
<1> HIDE DEF P, S
<1>5. \A m \in 0..n : m \in S
  BY <1>3, <1>4, Induction
<1>6. P(n)
  BY <1>5 DEF S
<1> QED  BY <1>6 DEF P

-----------------------------------------------------------------------------
(* The weights of evaluateb.                                               *)

\* Points that are different modulo the order.
Points(x, n) ==
  /\ Ints(x, n)
  /\ \A i, j \in 1..n : i # j => ~Cong(x[i] - x[j], 0)

\* evaluateb for any number of points, and for a point t that is not among them.
Weight(x, n, i) ==
  ProdMod([j \in 1..n |-> IF j = i THEN 1 ELSE x[j] * ModInverse(x[j] - x[i])], n)
Against(x, n, t) ==
  ProdMod([j \in 1..n |-> x[j] * ModInverse(x[j] - t)], n)

\* The arithmetic of a factor of a weight.
LEMMA FactorOf ==
  ASSUME NEW w \in Int, NEW b \in Int, NEW v \in Int, NEW d \in Int, NEW W \in Int,
         Cong(W, w * (b * v)), Cong(d * v, 1)
  PROVE  Cong(W * d, w * b)
<1>0. Order \in Int /\ w * (b * v) \in Int /\ d * v \in Int /\ 1 \in Int
  BY SchnorrAssumption
<1>1. PICK k \in Int : W = w * (b * v) + k * Order
  BY ZenonT(60), <1>0, CongMultiple
<1>2. PICK l \in Int : d * v = 1 + l * Order
  BY ZenonT(60), <1>0, CongMultiple
<1>3. W * d = w * b + (w * b * l + k * d) * Order
  <2>1. W * d = (w * b) * (d * v) + (k * d) * Order
    BY <1>0, <1>1
  <2>2. (w * b) * (d * v) = w * b + (w * b * l) * Order
    BY <1>0, <1>2
  <2> QED  BY <1>0, <2>1, <2>2
<1>4. W * d \in Int /\ w * b \in Int /\ w * b * l + k * d \in Int
  OBVIOUS
<1> QED  BY <1>3, <1>4, CongMultiple

\* The inverse of the difference of two points.
LEMMA Difference ==
  ASSUME NEW a \in Int, NEW t \in Int, ~Cong(a - t, 0)
  PROVE  ModInverse(a - t) \in Int /\ Cong((a - t) * ModInverse(a - t), 1)
         /\ a * ModInverse(a - t) \in Int
<1>1. a - t \in Int /\ 1..(Order - 1) \subseteq Int
  BY SchnorrAssumption
<1>2. ModInverse(a - t) \in Int /\ Cong((a - t) * ModInverse(a - t), 1)
  BY <1>1, ModInverseIs
<1> QED  BY <1>2

\* Another point multiplies the product by its factor.
LEMMA AgainstStep ==
  ASSUME NEW n \in Nat, NEW x, Ints(x, n + 1), NEW t \in Int,
         \A j \in 1..(n + 1) : ~Cong(x[j] - t, 0)
  PROVE  /\ Cong(Against(x, n + 1, t) * (x[n + 1] - t), Against(x, n, t) * x[n + 1])
         /\ Against(x, n + 1, t) \in Residues /\ Against(x, n, t) \in Residues
<1> DEFINE h == [j \in 1..(n + 1) |-> x[j] * ModInverse(x[j] - t)]
           g == [j \in 1..n |-> x[j] * ModInverse(x[j] - t)]
<1>0. n + 1 \in Nat /\ n + 1 \in 1..(n + 1) /\ 1..n \subseteq 1..(n + 1)
  OBVIOUS
<1>1. \A j \in 1..(n + 1) : h[j] = x[j] * ModInverse(x[j] - t) /\ h[j] \in Int
  <2>1. ASSUME NEW j \in 1..(n + 1) PROVE x[j] * ModInverse(x[j] - t) \in Int
    BY ZenonT(60), Difference DEF Ints
  <2> QED  BY <2>1
<1>2. \A j \in 1..n : g[j] = h[j]
  BY <1>0
<1>3. Against(x, n + 1, t) = ProdMod(h, n + 1) /\ Against(x, n, t) = ProdMod(g, n)
  BY ZenonT(60) DEF Against
<1> HIDE DEF h, g
<1>4. Ints(h, n) /\ Ints(g, n) /\ Ints(h, n + 1) /\ \A j \in 1..n : Cong(h[j], g[j])
  BY <1>0, <1>1, <1>2 DEF Ints, Cong
<1>5. ProdMod(h, n) = ProdMod(g, n)
  BY ZenonT(60), <1>4, ProdCong
<1>6. ProdMod(h, n + 1) = (ProdMod(h, n) * h[n + 1]) % Order
  BY ZenonT(60), <1>4, ProdNext DEF Ints
<1>7. ProdMod(h, n + 1) \in Residues /\ ProdMod(h, n) \in Residues
  BY ZenonT(60), <1>0, <1>4, ProdType DEF Ints
<1>8. Residues \subseteq Int
  BY SchnorrAssumption DEF Residues
<1>9. Cong(ProdMod(h, n + 1), ProdMod(h, n) * (x[n + 1] * ModInverse(x[n + 1] - t)))
  <2>0. ProdMod(h, n) \in Int /\ h[n + 1] \in Int
    BY ZenonT(60), <1>0, <1>1, <1>7, <1>8
  <2>1. ProdMod(h, n) * h[n + 1] \in Int
    BY <2>0
  <2> QED  BY <1>0, <1>1, <1>6, <2>1, Reduced
<1>10. x[n + 1] \in Int /\ ~Cong(x[n + 1] - t, 0) /\ x[n + 1] - t \in Int
  BY <1>0 DEF Ints
<1>11. Cong(ProdMod(h, n + 1) * (x[n + 1] - t), ProdMod(h, n) * x[n + 1])
  <2>1. ModInverse(x[n + 1] - t) \in Int /\ Cong((x[n + 1] - t) * ModInverse(x[n + 1] - t), 1)
    BY ZenonT(60), <1>10, Difference
  <2>2. ProdMod(h, n + 1) \in Int /\ ProdMod(h, n) \in Int
    BY ZenonT(60), <1>7, <1>8
  <2> QED  BY ZenonT(60), <1>9, <1>10, <2>1, <2>2, FactorOf
<1> QED  BY ZenonT(60), <1>3, <1>5, <1>7, <1>11

\* The weight of a point among n others is made of their factors, and another point
\* multiplies it by its own.
LEMMA WeightStep ==
  ASSUME NEW n \in Nat, NEW x, Points(x, n + 1), NEW i \in 1..n
  PROVE  /\ Cong(Weight(x, n + 1, i) * (x[n + 1] - x[i]), Weight(x, n, i) * x[n + 1])
         /\ Weight(x, n + 1, i) \in Residues /\ Weight(x, n, i) \in Residues
<1> DEFINE h == [j \in 1..(n + 1) |-> IF j = i THEN 1 ELSE x[j] * ModInverse(x[j] - x[i])]
           g == [j \in 1..n |-> IF j = i THEN 1 ELSE x[j] * ModInverse(x[j] - x[i])]
           t == x[i]
<1>0. n + 1 \in Nat /\ n + 1 \in 1..(n + 1) /\ 1..n \subseteq 1..(n + 1) /\ n + 1 # i
  OBVIOUS
<1>1. \A j \in 1..(n + 1) : h[j] \in Int
  <2>1. ASSUME NEW j \in 1..(n + 1), j # i PROVE x[j] * ModInverse(x[j] - x[i]) \in Int
    BY ZenonT(60), <1>0, <2>1, Difference DEF Points, Ints
  <2> QED  BY <2>1
<1>2. (\A j \in 1..n : g[j] = h[j]) /\ h[n + 1] = x[n + 1] * ModInverse(x[n + 1] - t)
  BY <1>0
<1>3. Weight(x, n + 1, i) = ProdMod(h, n + 1) /\ Weight(x, n, i) = ProdMod(g, n)
  BY ZenonT(60) DEF Weight
<1> HIDE DEF h, g
<1>4. Ints(h, n) /\ Ints(g, n) /\ Ints(h, n + 1) /\ \A j \in 1..n : Cong(h[j], g[j])
  BY <1>0, <1>1, <1>2 DEF Ints, Cong
<1>5. ProdMod(h, n) = ProdMod(g, n)
  BY ZenonT(60), <1>4, ProdCong
<1>6. ProdMod(h, n + 1) = (ProdMod(h, n) * h[n + 1]) % Order
  BY ZenonT(60), <1>4, ProdNext DEF Ints
<1>7. ProdMod(h, n + 1) \in Residues /\ ProdMod(h, n) \in Residues
  BY ZenonT(60), <1>0, <1>4, ProdType DEF Ints
<1>8. Residues \subseteq Int
  BY SchnorrAssumption DEF Residues
<1>9. Cong(ProdMod(h, n + 1), ProdMod(h, n) * (x[n + 1] * ModInverse(x[n + 1] - t)))
  <2>0. ProdMod(h, n) \in Int /\ h[n + 1] \in Int
    BY ZenonT(60), <1>0, <1>1, <1>7, <1>8
  <2>1. ProdMod(h, n) * h[n + 1] \in Int
    BY <2>0
  <2> QED  BY <1>0, <1>2, <1>6, <2>1, Reduced
<1>10. x[n + 1] \in Int /\ t \in Int /\ ~Cong(x[n + 1] - t, 0) /\ x[n + 1] - t \in Int
  BY <1>0 DEF Points, Ints
<1>11. Cong(ProdMod(h, n + 1) * (x[n + 1] - t), ProdMod(h, n) * x[n + 1])
  <2>1. ModInverse(x[n + 1] - t) \in Int /\ Cong((x[n + 1] - t) * ModInverse(x[n + 1] - t), 1)
    BY ZenonT(60), <1>10, Difference
  <2>2. ProdMod(h, n + 1) \in Int /\ ProdMod(h, n) \in Int
    BY ZenonT(60), <1>7, <1>8
  <2> QED  BY ZenonT(60), <1>9, <1>10, <2>1, <2>2, FactorOf
<1> QED  BY ZenonT(60), <1>3, <1>5, <1>7, <1>11

\* The weight of the last point is made of the factors of the others.
LEMMA WeightLast ==
  ASSUME NEW n \in Nat, NEW x, Points(x, n + 1)
  PROVE  Weight(x, n + 1, n + 1) = Against(x, n, x[n + 1]) /\ Weight(x, n + 1, n + 1) \in Residues
<1> DEFINE h == [j \in 1..(n + 1) |->
                   IF j = n + 1 THEN 1 ELSE x[j] * ModInverse(x[j] - x[n + 1])]
           g == [j \in 1..n |-> x[j] * ModInverse(x[j] - x[n + 1])]
<1>0. n + 1 \in Nat /\ n + 1 \in 1..(n + 1) /\ 1..n \subseteq 1..(n + 1) /\ n + 1 \notin 1..n
      /\ \A j \in 1..(n + 1) : j # n + 1 => j \in 1..n
  OBVIOUS
<1>1. \A j \in 1..(n + 1) : h[j] \in Int
  <2>1. ASSUME NEW j \in 1..(n + 1), j # n + 1 PROVE x[j] * ModInverse(x[j] - x[n + 1]) \in Int
    BY ZenonT(60), <1>0, <2>1, Difference DEF Points, Ints
  <2> QED  BY <2>1
<1>2. (\A j \in 1..n : g[j] = h[j]) /\ h[n + 1] = 1
  BY <1>0
<1>3. Weight(x, n + 1, n + 1) = ProdMod(h, n + 1) /\ Against(x, n, x[n + 1]) = ProdMod(g, n)
  BY ZenonT(60) DEF Weight, Against
<1> HIDE DEF h, g
<1>4. Ints(h, n) /\ Ints(g, n) /\ Ints(h, n + 1) /\ \A j \in 1..n : Cong(h[j], g[j])
  BY <1>0, <1>1, <1>2 DEF Ints, Cong
<1>5. ProdMod(h, n) = ProdMod(g, n)
  BY ZenonT(60), <1>4, ProdCong
<1>6. ProdMod(h, n + 1) = (ProdMod(h, n) * h[n + 1]) % Order
  BY ZenonT(60), <1>4, ProdNext DEF Ints
<1>7. ProdMod(h, n) \in Residues
  BY ZenonT(60), <1>0, <1>4, ProdType DEF Ints
<1>8. ProdMod(h, n) * 1 = ProdMod(h, n) /\ ProdMod(h, n) \in Int
  BY <1>7, SchnorrAssumption DEF Residues
<1>9. ProdMod(h, n + 1) = ProdMod(h, n)
  BY <1>2, <1>6, <1>7, <1>8, Reduced
<1> QED  BY ZenonT(60), <1>3, <1>5, <1>7, <1>9

\* Weights depend on the points alone.
LEMMA WeightSame ==
  ASSUME NEW n \in Nat, NEW x, NEW y, \A j \in 1..n : x[j] = y[j], NEW i \in 1..n
  PROVE  Weight(x, n, i) = Weight(y, n, i)
<1> DEFINE f == [j \in 1..n |-> IF j = i THEN 1 ELSE x[j] * ModInverse(x[j] - x[i])]
           g == [j \in 1..n |-> IF j = i THEN 1 ELSE y[j] * ModInverse(y[j] - y[i])]
<1>1. f = g
  OBVIOUS
<1> QED  BY ZenonT(60), <1>1 DEF Weight

\* And so do the products against a point.
LEMMA AgainstSame ==
  ASSUME NEW n \in Nat, NEW x, NEW y, \A j \in 1..n : x[j] = y[j], NEW t
  PROVE  Against(x, n, t) = Against(y, n, t)
<1> DEFINE f == [j \in 1..n |-> x[j] * ModInverse(x[j] - t)]
           g == [j \in 1..n |-> y[j] * ModInverse(y[j] - t)]
<1>1. f = g
  OBVIOUS
<1> QED  BY ZenonT(60), <1>1 DEF Against

\* The arithmetic of NevilleWeights.
LEMMA NevilleFactors ==
  ASSUME NEW A \in Int, NEW B \in Int, NEW C \in Int, NEW D \in Int,
         NEW a \in Int, NEW b \in Int, NEW p \in Int, ~Cong(b - p, 0),
         Cong(A * (b - p), B * b), Cong(B * (a - p), D * a), Cong(C * (b - p), D * b)
  PROVE  Cong((b - a) * A, b * B - a * C)
<1>0. Order \in Int
  BY SchnorrAssumption
<1>1. PICK k \in Int : A * (b - p) = B * b + k * Order
  <2>1. A * (b - p) \in Int /\ B * b \in Int
    OBVIOUS
  <2> QED  BY <2>1, CongMultiple
<1>2. PICK l \in Int : B * (a - p) = D * a + l * Order
  <2>1. B * (a - p) \in Int /\ D * a \in Int
    OBVIOUS
  <2> QED  BY <2>1, CongMultiple
<1>3. PICK m \in Int : C * (b - p) = D * b + m * Order
  <2>1. C * (b - p) \in Int /\ D * b \in Int
    OBVIOUS
  <2> QED  BY <2>1, CongMultiple
<1>4. (b - p) * ((b - a) * A) = (b - p) * (b * B - a * C) + ((b - a) * k - b * l + a * m) * Order
  <2>1. (b - p) * ((b - a) * A) = (b - a) * (B * b) + ((b - a) * k) * Order
    <3>1. (b - p) * ((b - a) * A) = (b - a) * (A * (b - p))
      OBVIOUS
    <3> QED  BY <1>0, <1>1, <3>1
  <2>2. (b - p) * (b * B - a * C) = (b - p) * (b * B) - a * (D * b) - (a * m) * Order
    <3>1. (b - p) * (b * B - a * C) = (b - p) * (b * B) - a * (C * (b - p))
      OBVIOUS
    <3> QED  BY <1>0, <1>3, <3>1
  <2>3. b * (D * a) = b * (B * (a - p)) - (b * l) * Order
    BY <1>0, <1>2
  <2>4. a * (D * b) = b * (D * a)
    OBVIOUS
  <2>5. (b - p) * (b * B) - b * (B * (a - p)) = (b - a) * (B * b)
    OBVIOUS
  <2> QED  BY <1>0, <2>1, <2>2, <2>3, <2>4, <2>5
<1>5. Cong((b - p) * ((b - a) * A), (b - p) * (b * B - a * C))
  <2>1. (b - p) * ((b - a) * A) \in Int /\ (b - p) * (b * B - a * C) \in Int
        /\ (b - a) * k - b * l + a * m \in Int
    OBVIOUS
  <2> QED  BY <1>4, <2>1, CongMultiple
<1>6. b - p \in Int /\ (b - a) * A \in Int /\ b * B - a * C \in Int
  OBVIOUS
<1> QED  BY <1>5, <1>6, Cancel

\* The last two of m + 2 points taken in turns: the weights among all of them, from
\* those without the one and without the other.
Without(x, m) == [j \in 1..(m + 1) |-> IF j = m + 1 THEN x[m + 2] ELSE x[j]]

\* The weights of evaluateb among m + 2 points are combinations of those among m + 1.
LEMMA NevilleWeights ==
  ASSUME NEW m \in Nat, NEW x, Points(x, m + 2), NEW y, y = Without(x, m)
  PROVE  /\ Points(y, m + 1) /\ Points(x, m + 1)
         /\ \A i \in 1..m :
              Cong((x[m + 2] - x[m + 1]) * Weight(x, m + 2, i),
                   x[m + 2] * Weight(x, m + 1, i) - x[m + 1] * Weight(y, m + 1, i))
         /\ Cong((x[m + 2] - x[m + 1]) * Weight(x, m + 2, m + 1),
                 x[m + 2] * Weight(x, m + 1, m + 1))
         /\ Cong((x[m + 2] - x[m + 1]) * Weight(x, m + 2, m + 2),
                 0 - x[m + 1] * Weight(y, m + 1, m + 1))
<1> DEFINE a == x[m + 1]
           b == x[m + 2]
<1>0. /\ m + 1 \in Nat /\ (m + 1) + 1 = m + 2 /\ m + 1 \in 1..(m + 1) /\ m + 1 \in 1..(m + 2)
      /\ m + 2 \in 1..(m + 2) /\ m + 1 # m + 2 /\ Residues \subseteq Int
      /\ 1..m \subseteq 1..(m + 1) /\ 1..(m + 1) \subseteq 1..(m + 2)
      /\ (\A i \in 1..m : i # m + 1 /\ i # m + 2) /\ m + 2 \notin 1..(m + 1)
      /\ \A i \in 1..(m + 1) : i # m + 1 => i \in 1..m
  BY SchnorrAssumption DEF Residues
<1>1. (\A j \in 1..m : y[j] = x[j]) /\ y[m + 1] = b
  BY <1>0 DEF Without
<1>2. Points(x, m + 1)
  BY ZenonT(60), <1>0 DEF Points, Ints
<1>3. Points(y, m + 1)
  <2> DEFINE at == [j \in 1..(m + 1) |-> IF j = m + 1 THEN m + 2 ELSE j]
  <2>1. \A j \in 1..(m + 1) : at[j] \in 1..(m + 2) /\ y[j] = x[at[j]]
    BY <1>0, <1>1
  <2>2. \A i, j \in 1..(m + 1) : i # j => at[i] # at[j]
    BY <1>0
  <2> HIDE DEF at
  <2> QED  BY ZenonT(60), <2>1, <2>2 DEF Points, Ints
<1>4. a \in Int /\ b \in Int /\ b - a \in Int /\ a - b \in Int /\ ~Cong(b - a, 0)
  BY <1>0 DEF Points, Ints
<1>5. Points(x, (m + 1) + 1)
  BY <1>0
<1>6. ASSUME NEW i \in 1..m
      PROVE  Cong((b - a) * Weight(x, m + 2, i), b * Weight(x, m + 1, i) - a * Weight(y, m + 1, i))
  <2> DEFINE p == x[i]
  <2>0. p \in Int /\ ~Cong(b - p, 0) /\ i \in 1..(m + 1)
    BY ZenonT(60), <1>0 DEF Points, Ints
  <2>1. /\ Cong(Weight(x, m + 2, i) * (b - p), Weight(x, m + 1, i) * b)
        /\ Weight(x, m + 2, i) \in Int /\ Weight(x, m + 1, i) \in Int
    <3>1. /\ Cong(Weight(x, (m + 1) + 1, i) * (x[(m + 1) + 1] - x[i]), Weight(x, m + 1, i) * x[(m + 1) + 1])
          /\ Weight(x, (m + 1) + 1, i) \in Residues /\ Weight(x, m + 1, i) \in Residues
      BY ZenonT(60), <1>0, <1>5, <2>0, WeightStep
    <3> QED  BY ZenonT(60), <1>0, <3>1
  <2>2. /\ Cong(Weight(x, m + 1, i) * (a - p), Weight(x, m, i) * a)
        /\ Weight(x, m, i) \in Int
    BY ZenonT(60), <1>0, <1>2, WeightStep
  <2>3. /\ Cong(Weight(y, m + 1, i) * (b - p), Weight(x, m, i) * b)
        /\ Weight(y, m + 1, i) \in Int
    <3>1. /\ Cong(Weight(y, m + 1, i) * (y[m + 1] - y[i]), Weight(y, m, i) * y[m + 1])
          /\ Weight(y, m + 1, i) \in Residues
      BY ZenonT(60), <1>3, WeightStep
    <3>2. Weight(y, m, i) = Weight(x, m, i)
      BY ZenonT(60), <1>1, WeightSame
    <3> QED  BY ZenonT(60), <1>0, <1>1, <3>1, <3>2
  <2> HIDE DEF a, b, p
  <2> QED  BY ZenonT(60), <1>4, <2>0, <2>1, <2>2, <2>3, NevilleFactors
<1>7. Cong((b - a) * Weight(x, m + 2, m + 1), b * Weight(x, m + 1, m + 1))
  <2>1. /\ Cong(Weight(x, (m + 1) + 1, m + 1) * (x[(m + 1) + 1] - x[m + 1]),
                Weight(x, m + 1, m + 1) * x[(m + 1) + 1])
        /\ Weight(x, (m + 1) + 1, m + 1) \in Residues /\ Weight(x, m + 1, m + 1) \in Residues
    BY ZenonT(60), <1>0, <1>5, WeightStep
  <2>2. /\ Cong(Weight(x, m + 2, m + 1) * (b - a), Weight(x, m + 1, m + 1) * b)
        /\ Weight(x, m + 2, m + 1) \in Int /\ Weight(x, m + 1, m + 1) \in Int
    BY ZenonT(60), <1>0, <2>1
  <2> HIDE DEF a, b
  <2>3. Weight(x, m + 2, m + 1) * (b - a) = (b - a) * Weight(x, m + 2, m + 1)
        /\ Weight(x, m + 1, m + 1) * b = b * Weight(x, m + 1, m + 1)
    BY <1>4, <2>2
  <2> QED  BY <2>2, <2>3
<1>8. Cong((b - a) * Weight(x, m + 2, m + 2), 0 - a * Weight(y, m + 1, m + 1))
  <2>1. Weight(x, m + 2, m + 2) = Against(x, m + 1, b) /\ Weight(x, m + 2, m + 2) \in Int
    <3>1. /\ Weight(x, (m + 1) + 1, (m + 1) + 1) = Against(x, m + 1, x[(m + 1) + 1])
          /\ Weight(x, (m + 1) + 1, (m + 1) + 1) \in Residues
      BY ZenonT(60), <1>0, <1>5, WeightLast
    <3> QED  BY ZenonT(60), <1>0, <3>1
  <2>2. Weight(y, m + 1, m + 1) = Against(x, m, b) /\ Weight(y, m + 1, m + 1) \in Int
    <3>1. Weight(y, m + 1, m + 1) = Against(y, m, y[m + 1]) /\ Weight(y, m + 1, m + 1) \in Residues
      BY ZenonT(60), <1>3, WeightLast
    <3>2. Against(y, m, y[m + 1]) = Against(x, m, y[m + 1])
      BY <1>1, AgainstSame
    <3> QED  BY ZenonT(60), <1>0, <1>1, <3>1, <3>2
  <2>3. Cong(Against(x, m + 1, b) * (a - b), Against(x, m, b) * a)
    <3>0. \A j \in 1..(m + 1) : j # m + 2
      OBVIOUS
    <3>1. Ints(x, m + 1) /\ \A j \in 1..(m + 1) : ~Cong(x[j] - b, 0)
      BY ZenonT(60), <1>0, <1>2, <3>0 DEF Points
    <3> QED  BY ZenonT(60), <1>4, <3>1, AgainstStep
  <2> HIDE DEF a, b
  <2> DEFINE u == Weight(x, m + 2, m + 2)
             v == Weight(y, m + 1, m + 1)
  <2>4. u \in Int /\ v \in Int /\ Cong(u * (a - b), v * a)
    BY ZenonT(60), <2>1, <2>2, <2>3
  <2> HIDE DEF u, v
  <2>5. Cong(0 - u * (a - b), 0 - v * a)
    <3>1. Cong(0, 0) /\ 0 \in Int /\ u * (a - b) \in Int /\ v * a \in Int
      BY <1>4, <2>4 DEF Cong
    <3> QED  BY ZenonT(60), <2>4, <3>1, CongOps
  <2>6. 0 - u * (a - b) = (b - a) * u /\ 0 - v * a = 0 - a * v
    BY <1>4, <2>4
  <2> QED  BY <2>5, <2>6 DEF u, v
<1> QED  BY ZenonT(60), <1>2, <1>3, <1>6, <1>7, <1>8

\* Two rounds of a sum.
LEMMA SumTwo ==
  ASSUME NEW n \in Nat, NEW h, Ints(h, n + 2)
  PROVE  /\ Cong(SumMod(h, n + 1), SumMod(h, n) + h[n + 1])
         /\ Cong(SumMod(h, n + 2), SumMod(h, n) + h[n + 1] + h[n + 2])
         /\ SumMod(h, n) \in Int /\ SumMod(h, n + 1) \in Int /\ SumMod(h, n + 2) \in Residues
<1>0. /\ n + 1 \in Nat /\ n + 2 \in Nat /\ (n + 1) + 1 = n + 2 /\ Residues \subseteq Int
      /\ 1..n \subseteq 1..(n + 2) /\ 1..(n + 1) \subseteq 1..(n + 2)
      /\ n + 1 \in 1..(n + 2) /\ n + 2 \in 1..(n + 2)
  BY SchnorrAssumption DEF Residues
<1>1. Ints(h, n) /\ Ints(h, n + 1) /\ Ints(h, (n + 1) + 1) /\ h[n + 1] \in Int /\ h[n + 2] \in Int
  BY ZenonT(60), <1>0 DEF Ints
<1>2. SumMod(h, n + 1) = (SumMod(h, n) + h[n + 1]) % Order
  BY ZenonT(60), <1>1, SumNext DEF Ints
<1>3. SumMod(h, n + 2) = (SumMod(h, n + 1) + h[n + 2]) % Order
  <2>1. SumMod(h, (n + 1) + 1) = (SumMod(h, n + 1) + h[(n + 1) + 1]) % Order
    BY ZenonT(60), <1>0, <1>1, SumNext DEF Ints
  <2> QED  BY ZenonT(60), <1>0, <2>1
<1>4. SumMod(h, n) \in Int /\ SumMod(h, n + 1) \in Int /\ SumMod(h, n + 2) \in Residues
  BY ZenonT(60), <1>0, <1>1, SumType DEF Ints
<1>5. Cong(SumMod(h, n + 1), SumMod(h, n) + h[n + 1])
  <2>1. SumMod(h, n) + h[n + 1] \in Int
    BY <1>1, <1>4
  <2> QED  BY <1>2, <2>1, Reduced
<1>6. Cong(SumMod(h, n + 2), SumMod(h, n + 1) + h[n + 2])
  <2>1. SumMod(h, n + 1) + h[n + 2] \in Int
    BY <1>1, <1>4
  <2> QED  BY <1>3, <2>1, Reduced
<1>7. Cong(SumMod(h, n + 1) + h[n + 2], (SumMod(h, n) + h[n + 1]) + h[n + 2])
  <2>1. SumMod(h, n) + h[n + 1] \in Int /\ Cong(h[n + 2], h[n + 2])
    BY <1>1, <1>4 DEF Cong
  <2> QED  BY ZenonT(60), <1>1, <1>4, <1>5, <2>1, CongOps
<1> QED  BY <1>4, <1>5, <1>6, <1>7 DEF Cong

\* The arithmetic of WeightsSum.
Neville(a, b, H, F, G, h1, h2, f1, g1) ==
  /\ {a, b, H, F, G, h1, h2, f1, g1} \subseteq Int /\ ~Cong(b - a, 0)
  /\ Cong((b - a) * H, b * F - a * G) /\ Cong((b - a) * h1, b * f1)
  /\ Cong((b - a) * h2, 0 - a * g1) /\ Cong(F + f1, 1) /\ Cong(G + g1, 1)

\* Combinations of weights that add up to one add up to one.
LEMMA NevilleSum ==
  ASSUME NEW a, NEW b, NEW H, NEW F, NEW G, NEW h1, NEW h2, NEW f1, NEW g1,
         Neville(a, b, H, F, G, h1, h2, f1, g1)
  PROVE  Cong(H + h1 + h2, 1)
<1>0. Order \in Int
  BY SchnorrAssumption
<1> SUFFICES ASSUME a \in Int, b \in Int, ~Cong(b - a, 0), H \in Int, F \in Int, G \in Int,
                    h1 \in Int, h2 \in Int, f1 \in Int, g1 \in Int,
                    Cong((b - a) * H, b * F - a * G), Cong((b - a) * h1, b * f1),
                    Cong((b - a) * h2, 0 - a * g1), Cong(F + f1, 1), Cong(G + g1, 1)
             PROVE  Cong(H + h1 + h2, 1)
  BY DEF Neville
<1>1. PICK k \in Int : (b - a) * H = b * F - a * G + k * Order
  <2>1. (b - a) * H \in Int /\ b * F - a * G \in Int
    OBVIOUS
  <2> QED  BY <2>1, CongMultiple
<1>2. PICK l \in Int : (b - a) * h1 = b * f1 + l * Order
  <2>1. (b - a) * h1 \in Int /\ b * f1 \in Int
    OBVIOUS
  <2> QED  BY <2>1, CongMultiple
<1>3. PICK m \in Int : (b - a) * h2 = 0 - a * g1 + m * Order
  <2>1. (b - a) * h2 \in Int /\ 0 - a * g1 \in Int
    OBVIOUS
  <2> QED  BY <2>1, CongMultiple
<1>4. PICK u \in Int : F + f1 = 1 + u * Order
  <2>1. F + f1 \in Int /\ 1 \in Int
    OBVIOUS
  <2> QED  BY <2>1, CongMultiple
<1>5. PICK v \in Int : G + g1 = 1 + v * Order
  <2>1. G + g1 \in Int /\ 1 \in Int
    OBVIOUS
  <2> QED  BY <2>1, CongMultiple
<1>6. (b - a) * (H + h1 + h2) = (b - a) * 1 + (b * u - a * v + k + l + m) * Order
  <2>1. (b - a) * (H + h1 + h2) = (b - a) * H + (b - a) * h1 + (b - a) * h2
    OBVIOUS
  <2>2. (b - a) * (H + h1 + h2) = b * (F + f1) - a * (G + g1) + (k + l + m) * Order
    BY <1>0, <1>1, <1>2, <1>3, <2>1
  <2>3. b * (F + f1) = b + (b * u) * Order /\ a * (G + g1) = a + (a * v) * Order
    BY <1>0, <1>4, <1>5
  <2> QED  BY <1>0, <2>2, <2>3
<1>7. Cong((b - a) * (H + h1 + h2), (b - a) * 1)
  <2>1. (b - a) * (H + h1 + h2) \in Int /\ (b - a) * 1 \in Int /\ b * u - a * v + k + l + m \in Int
    OBVIOUS
  <2> QED  BY <1>6, <2>1, CongMultiple
<1>8. b - a \in Int /\ H + h1 + h2 \in Int /\ 1 \in Int
  OBVIOUS
<1> QED  BY <1>7, <1>8, Cancel

WeightSum(x, n) == SumMod([i \in 1..n |-> Weight(x, n, i)], n)

\* A weight is a reduced number.
LEMMA WeightType ==
  ASSUME NEW n \in Nat, NEW x, Points(x, n), NEW i \in 1..n
  PROVE  Weight(x, n, i) \in Residues /\ Weight(x, n, i) \in Int
<1> DEFINE h == [j \in 1..n |-> IF j = i THEN 1 ELSE x[j] * ModInverse(x[j] - x[i])]
<1>1. \A j \in 1..n : h[j] \in Int
  <2>1. ASSUME NEW j \in 1..n, j # i PROVE x[j] * ModInverse(x[j] - x[i]) \in Int
    BY ZenonT(60), <2>1, Difference DEF Points, Ints
  <2> QED  BY <2>1
<1>2. Weight(x, n, i) = ProdMod(h, n)
  BY ZenonT(60) DEF Weight
<1> HIDE DEF h
<1> QED  BY ZenonT(60), <1>1, <1>2, ProdType

\* The round of the induction of WeightsSum.
LEMMA NevilleRound ==
  ASSUME NEW m \in Nat, NEW x, Points(x, m + 2), NEW y, y = Without(x, m),
         WeightSum(x, m + 1) = 1, WeightSum(y, m + 1) = 1
  PROVE  WeightSum(x, m + 2) = 1
<1> DEFINE a == x[m + 1]
           b == x[m + 2]
           h == [i \in 1..(m + 2) |-> Weight(x, m + 2, i)]
           f == [i \in 1..(m + 1) |-> Weight(x, m + 1, i)]
           g == [i \in 1..(m + 1) |-> Weight(y, m + 1, i)]
           k == [i \in 1..m |-> (b - a) * h[i]]
<1>0. /\ m + 1 \in Nat /\ m + 2 \in Nat /\ m + 1 \in 1..(m + 1) /\ m + 1 \in 1..(m + 2)
      /\ m + 2 \in 1..(m + 2) /\ m + 1 # m + 2 /\ 1..m \subseteq 1..(m + 1)
      /\ 1..m \subseteq 1..(m + 2)
  OBVIOUS
<1>1. Points(x, m + 1) /\ Points(y, m + 1)
  BY ZenonT(60), NevilleWeights
<1>2. a \in Int /\ b \in Int /\ b - a \in Int /\ 0 - a \in Int /\ ~Cong(b - a, 0)
  BY <1>0 DEF Points, Ints
<1>3. /\ \A i \in 1..m : Cong((b - a) * h[i], b * f[i] - a * g[i])
      /\ Cong((b - a) * h[m + 1], b * f[m + 1])
      /\ Cong((b - a) * h[m + 2], 0 - a * g[m + 1])
  <2>1. /\ \A i \in 1..m : h[i] = Weight(x, m + 2, i) /\ f[i] = Weight(x, m + 1, i)
                                                      /\ g[i] = Weight(y, m + 1, i)
        /\ h[m + 1] = Weight(x, m + 2, m + 1) /\ h[m + 2] = Weight(x, m + 2, m + 2)
        /\ f[m + 1] = Weight(x, m + 1, m + 1) /\ g[m + 1] = Weight(y, m + 1, m + 1)
    BY <1>0
  <2> HIDE DEF h, f, g
  <2> QED  BY ZenonT(60), <2>1, NevilleWeights
<1>4. Ints(h, m + 2) /\ Ints(f, m + 1) /\ Ints(g, m + 1)
  <2>1. /\ \A i \in 1..(m + 2) : Weight(x, m + 2, i) \in Int
        /\ \A i \in 1..(m + 1) : Weight(x, m + 1, i) \in Int /\ Weight(y, m + 1, i) \in Int
    BY ZenonT(60), <1>0, <1>1, WeightType
  <2> QED  BY <2>1 DEF Ints
<1>5. SumMod(h, m + 2) = WeightSum(x, m + 2) /\ SumMod(f, m + 1) = 1 /\ SumMod(g, m + 1) = 1
  BY ZenonT(60) DEF WeightSum
<1>6. \A i \in 1..m : k[i] = (b - a) * h[i]
  BY <1>0
<1> HIDE DEF a, b, h, f, g, k
<1>7. Ints(h, m) /\ Ints(f, m) /\ Ints(g, m)
  BY ZenonT(60), <1>0, <1>4 DEF Ints
<1>8. Ints(k, m)
  BY <1>2, <1>6, <1>7 DEF Ints
<1>9. Cong(SumMod(k, m), b * SumMod(f, m) + (0 - a) * SumMod(g, m))
  <2>1. \A i \in 1..m : Cong(k[i], b * f[i] + (0 - a) * g[i])
    <3>1. \A i \in 1..m : b * f[i] + (0 - a) * g[i] = b * f[i] - a * g[i]
      BY <1>2, <1>7 DEF Ints
    <3> QED  BY ZenonT(60), <1>3, <1>6, <3>1
  <2> QED  BY ZenonT(60), <1>2, <1>7, <1>8, <2>1, SumLinear
<1>10. Cong(SumMod(k, m), (b - a) * SumMod(h, m) + 0 * SumMod(h, m))
  <2>1. \A i \in 1..m : Cong(k[i], (b - a) * h[i] + 0 * h[i])
    <3>1. \A i \in 1..m : (b - a) * h[i] + 0 * h[i] = (b - a) * h[i]
      BY <1>2, <1>7 DEF Ints
    <3> QED  BY ZenonT(60), <1>6, <3>1 DEF Cong
  <2>2. 0 \in Int
    OBVIOUS
  <2> QED  BY ZenonT(60), <1>2, <1>7, <1>8, <2>1, <2>2, SumLinear
<1> DEFINE H == SumMod(h, m)
           F == SumMod(f, m)
           G == SumMod(g, m)
<1>11. /\ H \in Int /\ F \in Int /\ G \in Int /\ h[m + 1] \in Int /\ h[m + 2] \in Int
       /\ f[m + 1] \in Int /\ g[m + 1] \in Int
  <2>1. H \in Int /\ F \in Int /\ G \in Int
    BY ZenonT(60), <1>7, SumType DEF Ints
  <2> QED  BY ZenonT(60), <1>0, <1>4, <2>1 DEF Ints
<1>12. Cong(H + h[m + 1] + h[m + 2], WeightSum(x, m + 2)) /\ WeightSum(x, m + 2) \in Residues
  BY ZenonT(60), <1>4, <1>5, SumTwo DEF Cong
<1>13. Cong(F + f[m + 1], 1) /\ Cong(G + g[m + 1], 1)
  <2>1. 1 = (F + f[m + 1]) % Order /\ 1 = (G + g[m + 1]) % Order
    BY ZenonT(60), <1>4, <1>5, SumNext DEF Ints
  <2> QED  BY <2>1, OneReduced DEF Cong
<1> HIDE DEF H, F, G
<1>14. Cong((b - a) * H, b * F - a * G)
  <2>1. (b - a) * H + 0 * H = (b - a) * H /\ b * F + (0 - a) * G = b * F - a * G
    BY <1>2, <1>11
  <2> QED  BY <1>9, <1>10, <2>1 DEF Cong, H, F, G
<1>15. Cong(H + h[m + 1] + h[m + 2], 1)
  <2>1. Neville(a, b, H, F, G, h[m + 1], h[m + 2], f[m + 1], g[m + 1])
    BY <1>2, <1>3, <1>11, <1>13, <1>14 DEF Neville
  <2> QED  BY ZenonT(60), <2>1, NevilleSum
<1>16. Cong(WeightSum(x, m + 2), 1) /\ 1 \in Residues
  BY <1>12, <1>15, SchnorrAssumption DEF Cong, Residues
<1> QED  BY <1>12, <1>16, SameResidue

\* The weights of n points add up to one.
LEMMA WeightsSum ==
  ASSUME NEW n \in Nat, n >= 1, NEW x, Points(x, n)
  PROVE  WeightSum(x, n) = 1
<1> DEFINE P(m) == \A y : Points(y, m) => WeightSum(y, m) = 1
           S == {m \in 1..n : P(m)}
<1>1. P(1)
  <2> SUFFICES ASSUME NEW y, Points(y, 1) PROVE WeightSum(y, 1) = 1
    OBVIOUS
  <2> DEFINE h == [i \in 1..1 |-> Weight(y, 1, i)]
             e == [j \in 1..0 |-> y[j] * ModInverse(y[j] - y[1])]
  <2>1. 0 \in Nat /\ 0 + 1 = 1 /\ 1 \in 1..1 /\ (\A i \in 1..0 : e[i] \in Int) /\ 1 \in Nat
    OBVIOUS
  <2>2. Weight(y, 1, 1) = Against(y, 0, y[1])
    <3>1. Weight(y, 0 + 1, 0 + 1) = Against(y, 0, y[0 + 1])
      BY ZenonT(60), <2>1, WeightLast
    <3> QED  BY <2>1, <3>1
  <2>3. Against(y, 0, y[1]) = 1
    BY ZenonT(60), <2>1, ProdType DEF Against
  <2>4. h[1] = 1 /\ \A i \in 1..1 : h[i] \in Int
    BY <2>2, <2>3
  <2>5. WeightSum(y, 1) = SumMod(h, 1)
    BY ZenonT(60) DEF WeightSum
  <2> HIDE DEF h, e
  <2>6. SumMod(h, 0 + 1) = (SumMod(h, 0) + h[0 + 1]) % Order
    <3>1. \A i \in 1..(0 + 1) : h[i] \in Int
      BY <2>1, <2>4
    <3> QED  BY ZenonT(60), <2>1, <3>1, SumNext
  <2>7. SumMod(h, 0) = 0
    BY ZenonT(60), <2>1, <2>4, SumType
  <2> QED  BY <2>1, <2>4, <2>5, <2>6, <2>7, OneReduced
<1>2. ASSUME NEW m \in 1..(n - 1), P(m) PROVE P(m + 1)
  <2> SUFFICES ASSUME NEW y, Points(y, m + 1) PROVE WeightSum(y, m + 1) = 1
    OBVIOUS
  <2> DEFINE l == m - 1
             z == Without(y, l)
  <2>1. l \in Nat /\ l + 1 = m /\ l + 2 = m + 1
    OBVIOUS
  <2> HIDE DEF l
  <2>2. Points(y, l + 2)
    BY <2>1
  <2>3. Points(y, l + 1) /\ Points(z, l + 1)
    BY ZenonT(60), <2>1, <2>2, NevilleWeights
  <2>4. WeightSum(y, l + 1) = 1 /\ WeightSum(z, l + 1) = 1
    BY ZenonT(60), <1>2, <2>1, <2>3
  <2>5. WeightSum(y, l + 2) = 1
    BY ZenonT(60), <2>1, <2>2, <2>4, NevilleRound
  <2> QED  BY <2>1, <2>5
<1> HIDE DEF P
<1>3. 1 \in S /\ 1 \in Nat
  BY <1>1
<1>4. ASSUME NEW m \in 1..(n - 1), m \in S PROVE m + 1 \in S
  BY <1>2, <1>4
<1> HIDE DEF S
<1>5. \A m \in 1..n : m \in S
  BY <1>3, <1>4, Induction
<1>6. P(n)
  BY <1>5 DEF S
<1> QED  BY <1>6 DEF P

-----------------------------------------------------------------------------
(* Lagrange takes a polynomial to its constant term.                       *)

\* Another factor of a power.
LEMMA ExpNext ==
  ASSUME NEW x \in Int, NEW k \in Nat
  PROVE  /\ Exp(x, 0) = 1 /\ Exp(x, k) \in Residues /\ Exp(x, k) \in Int
         /\ Cong(Exp(x, k + 1), Exp(x, k) * x)
<1> DEFINE h == [j \in 1..(k + 1) |-> x]
           g == [j \in 1..k |-> x]
           e == [j \in 1..0 |-> x]
<1>0. 0 \in Nat /\ k + 1 \in 1..(k + 1) /\ 1..k \subseteq 1..(k + 1)
  OBVIOUS
<1>1. h[k + 1] = x /\ Ints(h, k + 1) /\ Ints(h, k) /\ Ints(g, k) /\ Ints(e, 0)
      /\ \A j \in 1..k : Cong(h[j], g[j])
  BY <1>0 DEF Ints, Cong
<1>2. Exp(x, k + 1) = ProdMod(h, k + 1) /\ Exp(x, k) = ProdMod(g, k) /\ Exp(x, 0) = ProdMod(e, 0)
  BY ZenonT(60) DEF Exp
<1> HIDE DEF h, g, e
<1>3. ProdMod(h, k + 1) = (ProdMod(h, k) * h[k + 1]) % Order
  BY ZenonT(60), <1>1, ProdNext DEF Ints
<1>4. ProdMod(h, k) = ProdMod(g, k)
  BY ZenonT(60), <1>1, ProdCong
<1>5. ProdMod(g, k) \in Residues /\ ProdMod(g, k) \in Int /\ ProdMod(e, 0) = 1
  BY ZenonT(60), <1>0, <1>1, ProdType DEF Ints
<1>6. Exp(x, k + 1) = (Exp(x, k) * x) % Order
  BY ZenonT(60), <1>1, <1>2, <1>3, <1>4
<1>7. Exp(x, k) \in Residues /\ Exp(x, k) \in Int /\ Exp(x, 0) = 1
  BY ZenonT(60), <1>2, <1>5
<1>8. Exp(x, k) * x \in Int
  BY <1>7
<1> QED  BY <1>6, <1>7, <1>8, Reduced

\* What the weights of n points make of the k-th power.
Moment(x, n, k) == SumMod([i \in 1..n |-> Weight(x, n, i) * Exp(x[i], k)], n)

\* The arithmetic of MomentNext: V, W are weights, b, p points, E a power of p.
LEMMA MomentTerm ==
  ASSUME NEW V \in Int, NEW W \in Int, NEW b \in Int, NEW p \in Int, NEW E \in Int, NEW D \in Int,
         Cong(V * (b - p), W * b), Cong(D, E * p)
  PROVE  Cong(V * D, b * (V * E) + (0 - b) * (W * E))
<1>0. Order \in Int
  BY SchnorrAssumption
<1>1. PICK k \in Int : V * (b - p) = W * b + k * Order
  <2>1. V * (b - p) \in Int /\ W * b \in Int
    OBVIOUS
  <2> QED  BY <2>1, CongMultiple
<1>2. PICK l \in Int : D = E * p + l * Order
  <2>1. E * p \in Int
    OBVIOUS
  <2> QED  BY <2>1, CongMultiple
<1>3. V * D = (b * (V * E) + (0 - b) * (W * E)) + (V * l - E * k) * Order
  <2>1. V * D = E * (V * p) + (V * l) * Order
    BY <1>0, <1>2
  <2>2. V * p = V * b - W * b - k * Order
    BY <1>0, <1>1
  <2>3. E * (V * p) = E * (V * b) - E * (W * b) - (E * k) * Order
    BY <1>0, <2>2
  <2>4. E * (V * b) - E * (W * b) = b * (V * E) + (0 - b) * (W * E)
    OBVIOUS
  <2> QED  BY <1>0, <2>1, <2>3, <2>4
<1>4. V * D \in Int /\ b * (V * E) + (0 - b) * (W * E) \in Int /\ V * l - E * k \in Int
  OBVIOUS
<1> QED  BY <1>3, <1>4, CongMultiple

\* The end of the arithmetic of MomentNext.
LEMMA MomentSum ==
  ASSUME NEW M \in Int, NEW H \in Int, NEW G \in Int, NEW K \in Int, NEW b \in Int,
         NEW h \in Int, NEW k \in Int, NEW L \in Int,
         Cong(K, b * H + (0 - b) * G), Cong(k, b * h), Cong(L, K + k), Cong(M, H + h)
  PROVE  Cong(L, b * (M - G))
<1>0. Order \in Int
  BY SchnorrAssumption
<1>1. PICK r \in Int : K = b * H + (0 - b) * G + r * Order
  <2>1. b * H + (0 - b) * G \in Int
    OBVIOUS
  <2> QED  BY <2>1, CongMultiple
<1>2. PICK s \in Int : k = b * h + s * Order
  <2>1. b * h \in Int
    OBVIOUS
  <2> QED  BY <2>1, CongMultiple
<1>3. PICK t \in Int : L = K + k + t * Order
  <2>1. K + k \in Int
    OBVIOUS
  <2> QED  BY <2>1, CongMultiple
<1>4. PICK u \in Int : M = H + h + u * Order
  <2>1. H + h \in Int
    OBVIOUS
  <2> QED  BY <2>1, CongMultiple
<1>5. L = b * (M - G) + (r + s + t - b * u) * Order
  <2>1. b * (M - G) = b * H + b * h - b * G + (b * u) * Order
    BY <1>0, <1>4
  <2> QED  BY <1>0, <1>1, <1>2, <1>3, <2>1
<1>6. b * (M - G) \in Int /\ r + s + t - b * u \in Int
  OBVIOUS
<1> QED  BY <1>5, <1>6, CongMultiple

\* The next power, from the last point and from the others.
LEMMA MomentNext ==
  ASSUME NEW n \in Nat, NEW x, Points(x, n + 1), NEW k \in Nat
  PROVE  /\ Cong(Moment(x, n + 1, k + 1), x[n + 1] * (Moment(x, n + 1, k) - Moment(x, n, k)))
         /\ Moment(x, n + 1, k + 1) \in Residues
<1> DEFINE b == x[n + 1]
           h == [i \in 1..(n + 1) |-> Weight(x, n + 1, i) * Exp(x[i], k)]
           d == [i \in 1..(n + 1) |-> Weight(x, n + 1, i) * Exp(x[i], k + 1)]
           g == [i \in 1..n |-> Weight(x, n, i) * Exp(x[i], k)]
<1>0. /\ n + 1 \in Nat /\ k + 1 \in Nat /\ n + 1 \in 1..(n + 1) /\ 1..n \subseteq 1..(n + 1)
      /\ Residues \subseteq Int
  BY SchnorrAssumption DEF Residues
<1>1. Points(x, n) /\ b \in Int /\ 0 - b \in Int
  BY <1>0 DEF Points, Ints
<1>2. ASSUME NEW i \in 1..(n + 1)
      PROVE  /\ x[i] \in Int /\ Exp(x[i], k) \in Int /\ Exp(x[i], k + 1) \in Int
             /\ Cong(Exp(x[i], k + 1), Exp(x[i], k) * x[i])
             /\ Weight(x, n + 1, i) \in Int
  <2>1. x[i] \in Int
    BY DEF Points, Ints
  <2> QED  BY ZenonT(60), <1>0, <2>1, ExpNext, WeightType
<1>3. ASSUME NEW i \in 1..n
      PROVE  /\ Cong(Weight(x, n + 1, i) * (b - x[i]), Weight(x, n, i) * b)
             /\ Weight(x, n, i) \in Int
  BY ZenonT(60), <1>0, WeightStep
<1>4. ASSUME NEW i \in 1..n PROVE Cong(d[i], b * h[i] + (0 - b) * g[i])
  <2>1. i \in 1..(n + 1)
    OBVIOUS
  <2>2. /\ d[i] = Weight(x, n + 1, i) * Exp(x[i], k + 1)
        /\ h[i] = Weight(x, n + 1, i) * Exp(x[i], k)
        /\ g[i] = Weight(x, n, i) * Exp(x[i], k)
    BY <2>1
  <2> HIDE DEF h, d, g, b
  <2>3. Cong(Weight(x, n + 1, i) * Exp(x[i], k + 1),
             b * (Weight(x, n + 1, i) * Exp(x[i], k)) + (0 - b) * (Weight(x, n, i) * Exp(x[i], k)))
    BY ZenonT(60), <1>1, <1>2, <1>3, <2>1, MomentTerm
  <2> QED  BY <2>2, <2>3
<1>5. Cong(d[n + 1], b * h[n + 1])
  <2> DEFINE w == Weight(x, n + 1, n + 1)
             E == Exp(x[n + 1], k)
             D == Exp(x[n + 1], k + 1)
  <2>1. d[n + 1] = w * D /\ h[n + 1] = w * E
    BY <1>0
  <2>2. w \in Int /\ E \in Int /\ D \in Int /\ Cong(D, E * b)
    BY ZenonT(60), <1>0, <1>2
  <2> HIDE DEF d, h, w, E, D, b
  <2>3. Cong(w * D, w * (E * b))
    <3>1. Cong(w, w) /\ E * b \in Int
      BY <1>1, <2>2 DEF Cong
    <3> QED  BY ZenonT(60), <2>2, <3>1, CongOps
  <2>4. w * (E * b) = b * (w * E)
    BY <1>1, <2>2
  <2> QED  BY <2>1, <2>3, <2>4
<1>6. Ints(h, n + 1) /\ Ints(d, n + 1) /\ Ints(g, n)
  <2>1. \A i \in 1..(n + 1) : h[i] \in Int /\ d[i] \in Int
    BY <1>2
  <2>2. \A i \in 1..n : g[i] \in Int
    BY <1>0, <1>2, <1>3
  <2> QED  BY <2>1, <2>2 DEF Ints
<1>7. /\ Moment(x, n + 1, k) = SumMod(h, n + 1) /\ Moment(x, n + 1, k + 1) = SumMod(d, n + 1)
      /\ Moment(x, n, k) = SumMod(g, n)
  BY ZenonT(60) DEF Moment
<1> HIDE DEF h, d, g, b
<1>8. Ints(h, n) /\ Ints(d, n) /\ h[n + 1] \in Int /\ d[n + 1] \in Int
  BY ZenonT(60), <1>0, <1>6 DEF Ints
<1>9. Cong(SumMod(d, n), b * SumMod(h, n) + (0 - b) * SumMod(g, n))
  BY ZenonT(60), <1>1, <1>4, <1>6, <1>8, SumLinear
<1>10. /\ SumMod(h, n) \in Int /\ SumMod(d, n) \in Int /\ SumMod(g, n) \in Int
  BY ZenonT(60), <1>6, <1>8, SumType DEF Ints
<1>11. SumMod(h, n + 1) \in Int /\ SumMod(d, n + 1) \in Residues
  BY ZenonT(60), <1>0, <1>6, SumType DEF Ints
<1>12. /\ Cong(SumMod(h, n + 1), SumMod(h, n) + h[n + 1])
       /\ Cong(SumMod(d, n + 1), SumMod(d, n) + d[n + 1])
  <2>1. /\ SumMod(h, n + 1) = (SumMod(h, n) + h[n + 1]) % Order
        /\ SumMod(d, n + 1) = (SumMod(d, n) + d[n + 1]) % Order
    BY ZenonT(60), <1>6, SumNext DEF Ints
  <2>2. SumMod(h, n) + h[n + 1] \in Int /\ SumMod(d, n) + d[n + 1] \in Int
    BY <1>8, <1>10
  <2> QED  BY <2>1, <2>2, Reduced
<1>13. Cong(SumMod(d, n + 1), b * (SumMod(h, n + 1) - SumMod(g, n)))
  BY ZenonT(60), <1>0, <1>1, <1>5, <1>8, <1>9, <1>10, <1>11, <1>12, MomentSum
<1> QED  BY ZenonT(60), <1>7, <1>11, <1>13 DEF b

\* The weights take all powers below n to zero, but one to one.
LEMMA Moments ==
  ASSUME NEW n \in Nat, n >= 1, NEW x, Points(x, n)
  PROVE  \A k \in 0..(n - 1) : Moment(x, n, k) = IF k = 0 THEN 1 ELSE 0
<1> DEFINE val == [k \in Nat |-> IF k = 0 THEN 1 ELSE 0]
           P(m) == \A k \in 0..(m - 1) : Moment(x, m, k) = val[k]
           S == {m \in 1..n : P(m)}
<1>0. val[0] = 1 /\ (\A k \in Nat : val[k + 1] = 0) /\ 0 \in Residues /\ Residues \subseteq Int
      /\ \A k \in Nat : val[k] \in Int
  BY SchnorrAssumption DEF Residues
<1>1. ASSUME NEW m \in 1..n PROVE Points(x, m) /\ Moment(x, m, 0) = 1
  <2>1. Points(x, m)
    <3>1. 1..m \subseteq 1..n
      OBVIOUS
    <3> QED  BY ZenonT(60), <3>1 DEF Points, Ints
  <2> DEFINE f == [i \in 1..m |-> Weight(x, m, i) * Exp(x[i], 0)]
             g == [i \in 1..m |-> Weight(x, m, i)]
  <2>2. ASSUME NEW i \in 1..m PROVE Weight(x, m, i) * Exp(x[i], 0) = Weight(x, m, i)
    <3>1. Weight(x, m, i) \in Int
      <4>1. m \in Nat
        OBVIOUS
      <4> QED  BY ZenonT(60), <2>1, <4>1, WeightType
    <3>2. Exp(x[i], 0) = 1
      BY ZenonT(60), <2>1, ExpNext DEF Points, Ints
    <3> QED  BY <3>1, <3>2
  <2>3. f = g
    BY <2>2
  <2>4. Moment(x, m, 0) = WeightSum(x, m)
    BY ZenonT(60), <2>3 DEF Moment, WeightSum
  <2>5. m \in Nat /\ m >= 1
    OBVIOUS
  <2> QED  BY <2>1, <2>4, <2>5, WeightsSum
<1> HIDE DEF val
<1>2. P(1)
  <2>1. 1 \in 1..n /\ \A k \in 0..(1 - 1) : k = 0
    OBVIOUS
  <2>2. Moment(x, 1, 0) = val[0]
    BY ZenonT(60), <1>0, <1>1, <2>1
  <2> QED  BY ZenonT(60), <2>1, <2>2
<1>3. ASSUME NEW m \in 1..(n - 1), P(m) PROVE P(m + 1)
  <2> DEFINE Q(k) == Moment(x, m + 1, k) = val[k]
             T == {k \in 0..m : Q(k)}
  <2>0. m + 1 \in 1..n /\ m \in Nat /\ 0 \in Nat /\ 0 \in 0..m /\ (m + 1) - 1 = m
    OBVIOUS
  <2>1. Q(0)
    BY ZenonT(60), <1>0, <1>1, <2>0
  <2>2. ASSUME NEW k \in 0..(m - 1), Q(k) PROVE Q(k + 1)
    <3>1. k \in Nat /\ k + 1 \in Nat
      OBVIOUS
    <3>2. /\ Cong(Moment(x, m + 1, k + 1), x[m + 1] * (Moment(x, m + 1, k) - Moment(x, m, k)))
          /\ Moment(x, m + 1, k + 1) \in Residues
      BY ZenonT(60), <1>1, <2>0, <3>1, MomentNext
    <3>3. Moment(x, m + 1, k) = val[k] /\ Moment(x, m, k) = val[k] /\ val[k + 1] = 0
      BY ZenonT(60), <1>0, <1>3, <2>2, <3>1
    <3>4. x[m + 1] \in Int /\ val[k] \in Int
      <4>1. m + 1 \in 1..(m + 1)
        OBVIOUS
      <4> QED  BY ZenonT(60), <1>0, <1>1, <2>0, <3>1, <4>1 DEF Points, Ints
    <3>5. x[m + 1] * (val[k] - val[k]) = 0
      BY <3>4
    <3>6. Cong(Moment(x, m + 1, k + 1), 0)
      BY ZenonT(60), <3>2, <3>3, <3>5
    <3> QED  BY ZenonT(60), <1>0, <3>2, <3>3, <3>6, SameResidue
  <2> HIDE DEF Q
  <2>3. 0 \in T
    BY <2>0, <2>1
  <2>4. ASSUME NEW k \in 0..(m - 1), k \in T PROVE k + 1 \in T
    BY <2>2, <2>4
  <2> HIDE DEF T
  <2>5. \A k \in 0..m : k \in T
    BY <2>0, <2>3, <2>4, Induction
  <2> QED  BY ZenonT(60), <2>0, <2>5 DEF T, Q
<1> HIDE DEF P
<1>4. 1 \in S /\ 1 \in Nat
  BY <1>2
<1>5. ASSUME NEW m \in 1..(n - 1), m \in S PROVE m + 1 \in S
  BY <1>3, <1>5
<1> HIDE DEF S
<1>6. \A m \in 1..n : m \in S
  BY <1>4, <1>5, Induction
<1>7. P(n)
  BY <1>6 DEF S
<1> QED  BY <1>7 DEF P, val

\* The polynomial with the coefficients c[1], ..., c[k] at t.
Poly(c, k, t) == SumMod([j \in 1..k |-> c[j] * Exp(t, j - 1)], k)

\* Another coefficient.
LEMMA PolyNext ==
  ASSUME NEW k \in Nat, NEW c, Ints(c, k + 1), NEW t \in Int
  PROVE  /\ Poly(c, 0, t) = 0 /\ Poly(c, k, t) \in Residues /\ Poly(c, k, t) \in Int
         /\ Cong(Poly(c, k + 1, t), Poly(c, k, t) + c[k + 1] * Exp(t, k))
         /\ Poly(c, k + 1, t) \in Residues
<1> DEFINE h == [j \in 1..(k + 1) |-> c[j] * Exp(t, j - 1)]
           g == [j \in 1..k |-> c[j] * Exp(t, j - 1)]
           e == [j \in 1..0 |-> c[j] * Exp(t, j - 1)]
<1>0. 0 \in Nat /\ k + 1 \in Nat /\ k + 1 \in 1..(k + 1) /\ 1..k \subseteq 1..(k + 1) /\ (k + 1) - 1 = k
      /\ \A j \in 1..(k + 1) : j - 1 \in Nat
  OBVIOUS
<1>1. \A j \in 1..(k + 1) : c[j] * Exp(t, j - 1) \in Int
  <2>1. ASSUME NEW j \in 1..(k + 1) PROVE c[j] \in Int /\ Exp(t, j - 1) \in Int
    BY ZenonT(60), <1>0, ExpNext DEF Ints
  <2> QED  BY <2>1
<1>2. h[k + 1] = c[k + 1] * Exp(t, k) /\ Ints(h, k + 1) /\ Ints(h, k) /\ Ints(g, k) /\ Ints(e, 0)
      /\ \A j \in 1..k : Cong(h[j], g[j])
  BY <1>0, <1>1 DEF Ints, Cong
<1>3. Poly(c, k + 1, t) = SumMod(h, k + 1) /\ Poly(c, k, t) = SumMod(g, k)
      /\ Poly(c, 0, t) = SumMod(e, 0)
  BY ZenonT(60) DEF Poly
<1> HIDE DEF h, g, e
<1>4. SumMod(h, k + 1) = (SumMod(h, k) + h[k + 1]) % Order
  BY ZenonT(60), <1>2, SumNext DEF Ints
<1>5. SumMod(h, k) = SumMod(g, k)
  BY ZenonT(60), <1>2, SumCong
<1>6. SumMod(g, k) \in Residues /\ SumMod(g, k) \in Int /\ SumMod(e, 0) = 0
      /\ SumMod(h, k + 1) \in Residues
  BY ZenonT(60), <1>0, <1>2, SumType DEF Ints
<1>7. SumMod(g, k) + c[k + 1] * Exp(t, k) \in Int
  BY <1>0, <1>1, <1>6
<1>8. Cong(SumMod(h, k + 1), SumMod(g, k) + c[k + 1] * Exp(t, k))
  BY <1>2, <1>4, <1>5, <1>7, Reduced
<1> QED  BY ZenonT(60), <1>3, <1>6, <1>8

\* What the weights of n points make of the polynomial.
PolyMoment(c, k, x, n) == SumMod([i \in 1..n |-> Poly(c, k, x[i]) * Weight(x, n, i)], n)

\* Another coefficient adds its share of a moment.
LEMMA PolyMomentNext ==
  ASSUME NEW n \in Nat, NEW x, Points(x, n), NEW k \in Nat, NEW c, Ints(c, k + 1)
  PROVE  /\ PolyMoment(c, 0, x, n) = 0 /\ PolyMoment(c, k, x, n) \in Residues
         /\ Cong(PolyMoment(c, k + 1, x, n), PolyMoment(c, k, x, n) + c[k + 1] * Moment(x, n, k))
         /\ PolyMoment(c, k + 1, x, n) \in Residues
<1> DEFINE h == [i \in 1..n |-> Poly(c, k + 1, x[i]) * Weight(x, n, i)]
           g == [i \in 1..n |-> Poly(c, k, x[i]) * Weight(x, n, i)]
           e == [i \in 1..n |-> Poly(c, 0, x[i]) * Weight(x, n, i)]
           f == [i \in 1..n |-> Weight(x, n, i) * Exp(x[i], k)]
<1>0. Residues \subseteq Int /\ k + 1 \in Nat /\ k + 1 \in 1..(k + 1) /\ 1 \in Int /\ 0 \in Int
  BY SchnorrAssumption DEF Residues
<1>1. ASSUME NEW i \in 1..n
      PROVE  /\ x[i] \in Int /\ Weight(x, n, i) \in Int /\ Exp(x[i], k) \in Int
             /\ Poly(c, 0, x[i]) = 0 /\ Poly(c, k, x[i]) \in Int /\ Poly(c, k + 1, x[i]) \in Int
             /\ Cong(Poly(c, k + 1, x[i]), Poly(c, k, x[i]) + c[k + 1] * Exp(x[i], k))
  <2>1. x[i] \in Int
    BY DEF Points, Ints
  <2>2. Weight(x, n, i) \in Int /\ Exp(x[i], k) \in Int
    BY ZenonT(60), <2>1, ExpNext, WeightType
  <2> QED  BY ZenonT(60), <1>0, <2>1, <2>2, PolyNext
<1>2. c[k + 1] \in Int
  BY <1>0 DEF Ints
<1>3. ASSUME NEW i \in 1..n PROVE Cong(h[i], 1 * g[i] + c[k + 1] * f[i])
  <2> DEFINE V == Poly(c, k + 1, x[i])
             U == Poly(c, k, x[i])
             W == Weight(x, n, i)
             E == Exp(x[i], k)
             a == c[k + 1]
  <2>1. V \in Int /\ U \in Int /\ W \in Int /\ E \in Int /\ a \in Int /\ Cong(V, U + a * E)
    BY ZenonT(60), <1>1, <1>2
  <2>2. h[i] = V * W /\ g[i] = U * W /\ f[i] = W * E
    OBVIOUS
  <2> HIDE DEF V, U, W, E, a, h, g, f
  <2>3. Cong(V * W, (U + a * E) * W)
    <3>1. Cong(W, W) /\ U + a * E \in Int
      BY <2>1 DEF Cong
    <3> QED  BY ZenonT(60), <2>1, <3>1, CongOps
  <2>4. (U + a * E) * W = 1 * (U * W) + a * (W * E)
    BY <2>1
  <2> QED  BY ZenonT(60), <2>2, <2>3, <2>4 DEF a
<1>4. Ints(h, n) /\ Ints(g, n) /\ Ints(f, n) /\ Ints(e, n) /\ \A i \in 1..n : e[i] = 0
  BY <1>1 DEF Ints
<1>5. /\ PolyMoment(c, k + 1, x, n) = SumMod(h, n) /\ PolyMoment(c, k, x, n) = SumMod(g, n)
      /\ PolyMoment(c, 0, x, n) = SumMod(e, n) /\ Moment(x, n, k) = SumMod(f, n)
  BY ZenonT(60) DEF PolyMoment, Moment
<1> HIDE DEF h, g, e, f
<1>6. Cong(SumMod(h, n), 1 * SumMod(g, n) + c[k + 1] * SumMod(f, n))
  BY ZenonT(60), <1>0, <1>2, <1>3, <1>4, SumLinear
<1>7. /\ SumMod(h, n) \in Residues /\ SumMod(g, n) \in Residues /\ SumMod(g, n) \in Int
      /\ SumMod(e, n) \in Residues /\ SumMod(e, n) \in Int /\ SumMod(f, n) \in Int
  BY ZenonT(60), <1>4, SumType DEF Ints
<1>8. SumMod(e, n) = 0
  <2>1. Cong(SumMod(e, n), 0 * SumMod(e, n) + 0 * SumMod(e, n))
    <3>1. \A i \in 1..n : Cong(e[i], 0 * e[i] + 0 * e[i])
      <4>1. 0 * 0 + 0 * 0 = 0
        OBVIOUS
      <4> QED  BY <1>4, <4>1 DEF Cong
    <3> QED  BY ZenonT(60), <1>0, <1>4, <3>1, SumLinear
  <2>2. 0 * SumMod(e, n) + 0 * SumMod(e, n) = 0 /\ 0 \in Residues
    BY <1>7, SchnorrAssumption DEF Residues
  <2>3. Cong(SumMod(e, n), 0)
    BY <2>1, <2>2
  <2> QED  BY <1>7, <2>2, <2>3, SameResidue
<1>9. 1 * SumMod(g, n) = SumMod(g, n)
  BY <1>7
<1>10. Cong(SumMod(h, n), SumMod(g, n) + c[k + 1] * SumMod(f, n))
  BY <1>6, <1>9
<1> QED  BY ZenonT(60), <1>5, <1>7, <1>8, <1>10

\* The weights take a polynomial with at most n coefficients to the first of them.
LEMMA PolyAtZero ==
  ASSUME NEW n \in Nat, n >= 1, NEW x, Points(x, n), NEW c, Ints(c, n)
  PROVE  PolyMoment(c, n, x, n) = c[1] % Order
<1> DEFINE P(m) == PolyMoment(c, m, x, n) = c[1] % Order
           S == {m \in 1..n : P(m)}
<1>0. c[1] \in Int /\ c[1] % Order \in Residues /\ Residues \subseteq Int
  <2>1. 1 \in 1..n /\ Residues \subseteq Int
    BY SchnorrAssumption DEF Residues
  <2>2. c[1] \in Int
    BY <2>1 DEF Ints
  <2> QED  BY <2>1, <2>2, Reduced
<1>1. ASSUME NEW m \in 0..(n - 1)
      PROVE  /\ PolyMoment(c, 0, x, n) = 0 /\ PolyMoment(c, m, x, n) \in Residues
             /\ Cong(PolyMoment(c, m + 1, x, n), PolyMoment(c, m, x, n) + c[m + 1] * Moment(x, n, m))
             /\ PolyMoment(c, m + 1, x, n) \in Residues
             /\ Moment(x, n, m) = IF m = 0 THEN 1 ELSE 0
             /\ c[m + 1] \in Int
  <2>1. m \in Nat /\ 1..(m + 1) \subseteq 1..n /\ m + 1 \in 1..n
    OBVIOUS
  <2>2. Ints(c, m + 1) /\ c[m + 1] \in Int
    BY ZenonT(60), <2>1 DEF Ints
  <2>3. Moment(x, n, m) = IF m = 0 THEN 1 ELSE 0
    BY Moments
  <2> QED  BY ZenonT(60), <2>1, <2>2, <2>3, PolyMomentNext
<1>2. P(1)
  <2>1. 0 \in 0..(n - 1) /\ 0 + 1 = 1
    OBVIOUS
  <2>2. Cong(PolyMoment(c, 0 + 1, x, n), PolyMoment(c, 0, x, n) + c[0 + 1] * Moment(x, n, 0))
        /\ PolyMoment(c, 0, x, n) = 0 /\ Moment(x, n, 0) = 1 /\ PolyMoment(c, 0 + 1, x, n) \in Residues
    BY <1>1, <2>1
  <2>3. Cong(PolyMoment(c, 1, x, n), 0 + c[1] * 1) /\ PolyMoment(c, 1, x, n) \in Residues
    BY ZenonT(60), <2>1, <2>2
  <2>4. 0 + c[1] * 1 = c[1]
    BY <1>0
  <2>5. Cong(PolyMoment(c, 1, x, n), c[1] % Order)
    BY <1>0, <2>3, <2>4, Reduced DEF Cong
  <2> QED  BY ZenonT(60), <1>0, <2>3, <2>5, SameResidue
<1>3. ASSUME NEW m \in 1..(n - 1), P(m) PROVE P(m + 1)
  <2>1. m \in 0..(n - 1) /\ m # 0
    OBVIOUS
  <2>2. /\ Cong(PolyMoment(c, m + 1, x, n), PolyMoment(c, m, x, n) + c[m + 1] * 0)
        /\ PolyMoment(c, m + 1, x, n) \in Residues /\ c[m + 1] \in Int
    BY ZenonT(60), <1>1, <2>1
  <2>3. PolyMoment(c, m, x, n) + c[m + 1] * 0 = c[1] % Order
    <3>1. PolyMoment(c, m, x, n) = c[1] % Order /\ c[1] % Order \in Int
      BY ZenonT(60), <1>0, <1>3
    <3> QED  BY <2>2, <3>1
  <2>4. Cong(PolyMoment(c, m + 1, x, n), c[1] % Order)
    BY <2>2, <2>3
  <2> QED  BY ZenonT(60), <1>0, <2>2, <2>4, SameResidue
<1> HIDE DEF P
<1>4. 1 \in S /\ 1 \in Nat
  BY <1>2
<1>5. ASSUME NEW m \in 1..(n - 1), m \in S PROVE m + 1 \in S
  BY <1>3, <1>5
<1> HIDE DEF S
<1>6. \A m \in 1..n : m \in S
  BY <1>4, <1>5, Induction
<1>7. P(n)
  BY <1>6 DEF S
<1> QED  BY <1>7 DEF P

IntPoly(f) == \A d \in 0..Degree : f[d] \in Int

\* EvaluatePoly is the polynomial with the coefficients f[0], ..., f[Degree].
LEMMA EvaluatePolyIs ==
  ASSUME NEW f, IntPoly(f), NEW c, c = [j \in 1..(Degree + 1) |-> f[j - 1]], NEW t \in Int
  PROVE  /\ EvaluatePoly(f, t) = Poly(c, Degree + 1, t) /\ Ints(c, Degree + 1)
         /\ EvaluatePoly(f, t) \in Residues
<1> DEFINE g == [i \in 1..(Degree + 1) |-> (f[i - 1] * Exp(t, i - 1)) % Order]
           h == [i \in 1..(Degree + 1) |-> c[i] * Exp(t, i - 1)]
<1>0. Degree \in Nat /\ Degree + 1 \in Nat /\ Residues \subseteq Int
      /\ \A i \in 1..(Degree + 1) : i - 1 \in Nat /\ i - 1 \in 0..Degree
  BY SchnorrAssumption DEF Residues
<1>1. ASSUME NEW i \in 1..(Degree + 1)
      PROVE  c[i] = f[i - 1] /\ c[i] \in Int /\ Exp(t, i - 1) \in Int /\ c[i] * Exp(t, i - 1) \in Int
             /\ (c[i] * Exp(t, i - 1)) % Order \in Int
             /\ Cong((c[i] * Exp(t, i - 1)) % Order, c[i] * Exp(t, i - 1))
  <2>1. c[i] = f[i - 1]
    OBVIOUS
  <2>2. c[i] \in Int /\ Exp(t, i - 1) \in Int
    BY ZenonT(60), <1>0, <2>1, ExpNext DEF IntPoly
  <2>3. c[i] * Exp(t, i - 1) \in Int
    BY <2>2
  <2> QED  BY ZenonT(60), <1>0, <2>1, <2>2, <2>3, Reduced
<1>2. \A i \in 1..(Degree + 1) : g[i] = (c[i] * Exp(t, i - 1)) % Order /\ h[i] = c[i] * Exp(t, i - 1)
  BY <1>1
<1>3. EvaluatePoly(f, t) = SumMod(g, Degree + 1) /\ Poly(c, Degree + 1, t) = SumMod(h, Degree + 1)
  BY ZenonT(60) DEF EvaluatePoly, Poly
<1> HIDE DEF g, h
<1>4. Ints(g, Degree + 1) /\ Ints(h, Degree + 1) /\ Ints(c, Degree + 1)
      /\ \A i \in 1..(Degree + 1) : Cong(g[i], h[i])
  BY ZenonT(60), <1>1, <1>2 DEF Ints
<1>5. SumMod(g, Degree + 1) = SumMod(h, Degree + 1)
  BY ZenonT(60), <1>0, <1>4, SumCong
<1>6. SumMod(g, Degree + 1) \in Residues
  BY ZenonT(60), <1>0, <1>4, SumType DEF Ints
<1> QED  BY ZenonT(60), <1>3, <1>4, <1>5, <1>6

\* The values of a polynomial at any Degree + 1 different points give Lagrange its
\* constant term.
LEMMA LagrangeOfPoly ==
  ASSUME NEW f, IntPoly(f), NEW x, Points(x, Degree + 1), NEW v,
         \A i \in 1..(Degree + 1) : v[i] = EvaluatePoly(f, x[i])
  PROVE  Lagrange(v, x) = f[0] % Order
<1> DEFINE c == [j \in 1..(Degree + 1) |-> f[j - 1]]
           n == Degree + 1
           g == [i \in 1..(Degree + 1) |-> v[i] * evaluateb(x, i)]
           h == [i \in 1..n |-> Poly(c, n, x[i]) * Weight(x, n, i)]
<1>0. n \in Nat /\ n >= 1 /\ 1 \in 1..(Degree + 1) /\ 1 - 1 = 0
  BY SchnorrAssumption
<1>1. c[1] = f[0]
  BY <1>0
<1> HIDE DEF c
<1>2. ASSUME NEW i \in 1..(Degree + 1)
      PROVE  v[i] = Poly(c, n, x[i]) /\ evaluateb(x, i) = Weight(x, n, i)
  <2>1. x[i] \in Int
    BY DEF Points, Ints
  <2>2. EvaluatePoly(f, x[i]) = Poly(c, Degree + 1, x[i])
    BY ZenonT(60), <2>1, EvaluatePolyIs DEF c
  <2>3. evaluateb(x, i) = Weight(x, n, i)
    BY ZenonT(60) DEF evaluateb, Weight
  <2> QED  BY ZenonT(60), <2>2, <2>3
<1>3. g = h
  BY <1>2
<1>4. Lagrange(v, x) = PolyMoment(c, n, x, n)
  BY ZenonT(60), <1>3 DEF Lagrange, PolyMoment
<1>5. Ints(c, n)
  BY SchnorrAssumption DEF c, Ints, IntPoly
<1> HIDE DEF n
<1>6. Points(x, n)
  BY DEF n
<1>7. PolyMoment(c, n, x, n) = c[1] % Order
  BY ZenonT(60), <1>0, <1>5, <1>6, PolyAtZero
<1> QED  BY <1>1, <1>4, <1>7

\* Lagrange is linear.
LEMMA LagrangeLinear ==
  ASSUME NEW x, Points(x, Degree + 1), NEW a \in Int, NEW b \in Int, NEW u, NEW v, NEW w,
         Ints(u, Degree + 1), Ints(v, Degree + 1), Ints(w, Degree + 1),
         \A i \in 1..(Degree + 1) : Cong(w[i], a * u[i] + b * v[i])
  PROVE  Cong(Lagrange(w, x), a * Lagrange(u, x) + b * Lagrange(v, x))
<1> DEFINE n == Degree + 1
           e == [i \in 1..n |-> evaluateb(x, i)]
           h == [i \in 1..(Degree + 1) |-> u[i] * evaluateb(x, i)]
           g == [i \in 1..(Degree + 1) |-> v[i] * evaluateb(x, i)]
           k == [i \in 1..(Degree + 1) |-> w[i] * evaluateb(x, i)]
<1>0. n \in Nat
  BY SchnorrAssumption
<1>1. Lagrange(u, x) = SumMod(h, n) /\ Lagrange(v, x) = SumMod(g, n) /\ Lagrange(w, x) = SumMod(k, n)
  BY ZenonT(60) DEF Lagrange
<1>2. \A i \in 1..n : h[i] = u[i] * e[i] /\ g[i] = v[i] * e[i] /\ k[i] = w[i] * e[i]
  OBVIOUS
<1>3. ASSUME NEW i \in 1..n PROVE e[i] \in Int
  <2>1. e[i] = Weight(x, n, i)
    <3>1. e[i] = evaluateb(x, i)
      OBVIOUS
    <3> QED  BY ZenonT(60), <3>1 DEF evaluateb, Weight
  <2> QED  BY ZenonT(60), <1>0, <2>1, WeightType
<1>4. ASSUME NEW i \in 1..n PROVE u[i] \in Int /\ v[i] \in Int /\ w[i] \in Int
  BY DEF Ints
<1> HIDE DEF h, g, k, e
<1>5. Ints(h, n) /\ Ints(g, n) /\ Ints(k, n)
  BY <1>2, <1>3, <1>4 DEF Ints
<1>6. ASSUME NEW i \in 1..n PROVE Cong(k[i], a * h[i] + b * g[i])
  <2>1. Cong(w[i] * e[i], (a * u[i] + b * v[i]) * e[i])
    <3>1. Cong(e[i], e[i]) /\ a * u[i] + b * v[i] \in Int
      BY <1>4 DEF Cong
    <3> QED  BY ZenonT(60), <1>3, <1>4, <3>1, CongOps
  <2>2. (a * u[i] + b * v[i]) * e[i] = a * (u[i] * e[i]) + b * (v[i] * e[i])
    BY <1>3, <1>4
  <2> QED  BY ZenonT(60), <1>2, <2>1, <2>2
<1> HIDE DEF n
<1> QED  BY ZenonT(60), <1>0, <1>1, <1>5, <1>6, SumLinear

\* What Lagrange returns is reduced.
LEMMA LagrangeType ==
  ASSUME NEW x, Points(x, Degree + 1), NEW v, Ints(v, Degree + 1)
  PROVE  Lagrange(v, x) \in Residues
<1> DEFINE n == Degree + 1
           g == [i \in 1..(Degree + 1) |-> v[i] * evaluateb(x, i)]
<1>0. n \in Nat
  BY SchnorrAssumption
<1>1. Lagrange(v, x) = SumMod(g, n)
  BY ZenonT(60) DEF Lagrange
<1>2. ASSUME NEW i \in 1..n PROVE g[i] \in Int
  <2>1. evaluateb(x, i) = Weight(x, n, i)
    BY ZenonT(60) DEF evaluateb, Weight
  <2>2. evaluateb(x, i) \in Int
    BY ZenonT(60), <1>0, <2>1, WeightType
  <2> QED  BY <2>2 DEF Ints
<1> HIDE DEF g, n
<1> QED  BY ZenonT(60), <1>0, <1>1, <1>2, SumType

\* The shares of m polynomials, added up, at the points x.
Shares(fs, x, m) == [i \in 1..(Degree + 1) |-> SumMod([p \in 1..m |-> EvaluatePoly(fs[p], x[i])], m)]

\* A share is a sum of reduced values, and another polynomial adds its own.
LEMMA SharesNext ==
  ASSUME NEW x, Points(x, Degree + 1), NEW m \in Nat, NEW fs,
         \A p \in 1..(m + 1) : IntPoly(fs[p])
  PROVE  /\ Ints(Shares(fs, x, m), Degree + 1) /\ Ints(Shares(fs, x, m + 1), Degree + 1)
         /\ \A i \in 1..(Degree + 1) :
              /\ Shares(fs, x, 0)[i] = 0 /\ EvaluatePoly(fs[m + 1], x[i]) \in Int
              /\ Cong(Shares(fs, x, m + 1)[i], Shares(fs, x, m)[i] + EvaluatePoly(fs[m + 1], x[i]))
<1>0. /\ 0 \in Nat /\ m + 1 \in Nat /\ 1..m \subseteq 1..(m + 1) /\ m + 1 \in 1..(m + 1)
      /\ Residues \subseteq Int
  BY SchnorrAssumption DEF Residues
<1> SUFFICES ASSUME NEW i \in 1..(Degree + 1)
             PROVE  /\ Shares(fs, x, m)[i] \in Int /\ Shares(fs, x, m + 1)[i] \in Int
                    /\ Shares(fs, x, 0)[i] = 0 /\ EvaluatePoly(fs[m + 1], x[i]) \in Int
                    /\ Cong(Shares(fs, x, m + 1)[i],
                            Shares(fs, x, m)[i] + EvaluatePoly(fs[m + 1], x[i]))
  BY DEF Ints
<1> DEFINE h == [p \in 1..(m + 1) |-> EvaluatePoly(fs[p], x[i])]
           g == [p \in 1..m |-> EvaluatePoly(fs[p], x[i])]
           e == [p \in 1..0 |-> EvaluatePoly(fs[p], x[i])]
<1>1. ASSUME NEW p \in 1..(m + 1) PROVE EvaluatePoly(fs[p], x[i]) \in Int
  <2>1. x[i] \in Int
    BY DEF Points, Ints
  <2> QED  BY ZenonT(60), <1>0, <2>1, EvaluatePolyIs
<1>2. /\ h[m + 1] = EvaluatePoly(fs[m + 1], x[i]) /\ Ints(h, m + 1) /\ Ints(h, m) /\ Ints(g, m)
      /\ Ints(e, 0) /\ \A p \in 1..m : Cong(h[p], g[p])
  BY <1>0, <1>1 DEF Ints, Cong
<1>3. /\ Shares(fs, x, m + 1)[i] = SumMod(h, m + 1) /\ Shares(fs, x, m)[i] = SumMod(g, m)
      /\ Shares(fs, x, 0)[i] = SumMod(e, 0)
  BY ZenonT(60) DEF Shares
<1> HIDE DEF h, g, e
<1>4. SumMod(h, m + 1) = (SumMod(h, m) + h[m + 1]) % Order
  BY ZenonT(60), <1>2, SumNext DEF Ints
<1>5. SumMod(h, m) = SumMod(g, m)
  BY ZenonT(60), <1>2, SumCong
<1>6. SumMod(g, m) \in Int /\ SumMod(e, 0) = 0
  BY ZenonT(60), <1>0, <1>2, SumType DEF Ints
<1>7. SumMod(h, m + 1) \in Int
  BY ZenonT(60), <1>0, <1>2, SumType DEF Ints
<1>8. EvaluatePoly(fs[m + 1], x[i]) \in Int
  BY <1>0, <1>1
<1>9. Cong(SumMod(h, m + 1), SumMod(g, m) + EvaluatePoly(fs[m + 1], x[i]))
  <2>1. SumMod(g, m) + EvaluatePoly(fs[m + 1], x[i]) \in Int
    BY <1>6, <1>8
  <2> QED  BY <1>2, <1>4, <1>5, <2>1, Reduced
<1> QED  BY ZenonT(60), <1>3, <1>6, <1>7, <1>8, <1>9

\* Any Degree + 1 shares give Lagrange the sum of the constant terms.
THEOREM LagrangeOfShares ==
  ASSUME NEW x, Points(x, Degree + 1), NEW n \in Nat, NEW fs, \A p \in 1..n : IntPoly(fs[p]),
         NEW v, v = Shares(fs, x, n)
  PROVE  /\ Lagrange(v, x) = SumMod([p \in 1..n |-> fs[p][0]], n)
         /\ Ints(v, Degree + 1)
<1> DEFINE c == [p \in 1..n |-> fs[p][0]]
           sh(m) == Shares(fs, x, m)
           P(m) == Lagrange(sh(m), x) = SumMod(c, m) /\ Ints(sh(m), Degree + 1)
           S == {m \in 0..n : P(m)}
<1>0. 0 \in Nat /\ 0 \in 0..n /\ 0 \in Residues /\ Residues \subseteq Int /\ Degree + 1 \in Nat
      /\ 0 \in Int /\ 1 \in Int /\ 0 \in 0..Degree
  BY SchnorrAssumption DEF Residues
<1>1. Ints(c, n) /\ \A p \in 1..n : c[p] = fs[p][0]
  BY <1>0 DEF Ints, IntPoly
<1> HIDE DEF c
<1>2. P(0)
  <2>1. \A i \in 1..(Degree + 1) : sh(0)[i] = 0
    <3>1. ASSUME NEW i \in 1..(Degree + 1) PROVE sh(0)[i] = 0
      <4> DEFINE e == [p \in 1..0 |-> EvaluatePoly(fs[p], x[i])]
      <4>1. sh(0)[i] = SumMod(e, 0) /\ \A p \in 1..0 : e[p] \in Int
        BY DEF Shares
      <4> HIDE DEF e
      <4> QED  BY ZenonT(60), <1>0, <4>1, SumType
    <3> QED  BY <3>1
  <2>2. Ints(sh(0), Degree + 1)
    BY <2>1 DEF Ints
  <2> DEFINE L == Lagrange(sh(0), x)
  <2>3. \A i \in 1..(Degree + 1) : Cong(sh(0)[i], 0 * sh(0)[i] + 0 * sh(0)[i])
    <3>1. 0 * 0 + 0 * 0 = 0
      OBVIOUS
    <3> QED  BY <2>1, <3>1 DEF Cong
  <2>4. L \in Residues /\ Cong(L, 0 * L + 0 * L)
    BY ZenonT(60), <1>0, <2>2, <2>3, LagrangeLinear, LagrangeType
  <2> HIDE DEF L
  <2>5. 0 * L + 0 * L = 0
    BY <1>0, <2>4
  <2>6. L = 0
    BY <1>0, <2>4, <2>5, SameResidue
  <2>7. SumMod(c, 0) = 0
    BY ZenonT(60), <1>1, SumType DEF Ints
  <2> QED  BY <2>2, <2>6, <2>7 DEF L
<1>3. ASSUME NEW m \in 0..(n - 1), P(m) PROVE P(m + 1)
  <2> DEFINE w == [i \in 1..(Degree + 1) |-> EvaluatePoly(fs[m + 1], x[i])]
  <2>0. m \in Nat /\ m + 1 \in 1..n /\ 1..(m + 1) \subseteq 1..n
    OBVIOUS
  <2>1. /\ Ints(sh(m + 1), Degree + 1)
        /\ \A i \in 1..(Degree + 1) :
             /\ EvaluatePoly(fs[m + 1], x[i]) \in Int
             /\ Cong(sh(m + 1)[i], sh(m)[i] + EvaluatePoly(fs[m + 1], x[i]))
    BY ZenonT(60), <2>0, SharesNext
  <2>2. \A i \in 1..(Degree + 1) : w[i] = EvaluatePoly(fs[m + 1], x[i])
    OBVIOUS
  <2> HIDE DEF w
  <2>3. Ints(w, Degree + 1)
    BY <2>1, <2>2 DEF Ints
  <2>4. \A i \in 1..(Degree + 1) : Cong(sh(m + 1)[i], 1 * sh(m)[i] + 1 * w[i])
    <3>1. \A i \in 1..(Degree + 1) : 1 * sh(m)[i] + 1 * w[i] = sh(m)[i] + w[i]
      <4> HIDE DEF sh
      <4> QED  BY <1>3, <2>3 DEF Ints
    <3> QED  BY ZenonT(60), <2>1, <2>2, <3>1
  <2>5. Cong(Lagrange(sh(m + 1), x), 1 * Lagrange(sh(m), x) + 1 * Lagrange(w, x))
    BY ZenonT(60), <1>0, <1>3, <2>1, <2>3, <2>4, LagrangeLinear
  <2>6. Lagrange(w, x) = fs[m + 1][0] % Order
    BY ZenonT(60), <2>0, <2>2, LagrangeOfPoly
  <2>7. Lagrange(sh(m + 1), x) \in Residues
    BY ZenonT(60), <2>1, LagrangeType
  <2>8. SumMod(c, m + 1) = (SumMod(c, m) + c[m + 1]) % Order
    BY ZenonT(60), <1>1, <2>0, SumNext DEF Ints
  <2>9. SumMod(c, m) \in Int /\ c[m + 1] \in Int /\ c[m + 1] = fs[m + 1][0]
    <3>1. 1..m \subseteq 1..n
      OBVIOUS
    <3> QED  BY ZenonT(60), <1>1, <2>0, <3>1, SumType DEF Ints
  <2> DEFINE A == SumMod(c, m)
             a == c[m + 1]
  <2>10. Cong(Lagrange(sh(m + 1), x), 1 * A + 1 * (a % Order))
    BY ZenonT(60), <1>3, <2>5, <2>6, <2>9
  <2>11. A \in Int /\ a \in Int
    BY <2>9
  <2> HIDE DEF A, a, P, sh
  <2>12. a % Order \in Int /\ Cong(a % Order, a) /\ A + a \in Int /\ (A + a) % Order \in Residues
         /\ Cong((A + a) % Order, A + a)
    <3>1. A + a \in Int
      BY <2>11
    <3> QED  BY ZenonT(60), <1>0, <2>11, <3>1, Reduced
  <2>13. Cong(1 * A + 1 * (a % Order), A + a)
    <3>1. 1 * A + 1 * (a % Order) = A + (a % Order)
      BY <2>11, <2>12
    <3>2. Cong(A, A)
      BY DEF Cong
    <3>3. Cong(A + (a % Order), A + a)
      BY ZenonT(60), <2>11, <2>12, <3>2, CongOps
    <3> QED  BY <3>1, <3>3
  <2>14. Cong(Lagrange(sh(m + 1), x), (A + a) % Order)
    BY ZenonT(60), <2>10, <2>12, <2>13 DEF Cong
  <2>15. Lagrange(sh(m + 1), x) = (A + a) % Order
    BY ZenonT(60), <2>7, <2>12, <2>14, SameResidue
  <2> QED  BY ZenonT(60), <2>1, <2>8, <2>15 DEF P, A, a
<1> HIDE DEF P
<1>4. 0 \in S
  BY <1>0, <1>2
<1>5. ASSUME NEW m \in 0..(n - 1), m \in S PROVE m + 1 \in S
  BY <1>3, <1>5
<1> HIDE DEF S
<1>6. \A m \in 0..n : m \in S
  BY <1>0, <1>4, <1>5, Induction
<1>7. P(n)
  BY <1>6 DEF S
<1> QED  BY ZenonT(60), <1>7 DEF P, c

-----------------------------------------------------------------------------
(* Points of the curve.                                                    *)

\* The loop of LagrangeECC over the summands t, round by round.
PointLoop(s, t, n) ==
  /\ s \in [1..n -> Residues]
  /\ s[1] = t[1] /\ \A i \in 2..n : s[i] = Add(s[i - 1], t[i])

\* LagrangeECC returns the value after the last round.
LEMMA PointRounds ==
  ASSUME NEW sg, NEW x, NEW t, t \in [1..(Degree + 1) -> Residues],
         \A i \in 1..(Degree + 1) : t[i] = ScalarMult(sg[i], evaluateb(x, i))
  PROVE  \E s : PointLoop(s, t, Degree + 1) /\ LagrangeECC(sg, x) = s[Degree + 1]
<1> DEFINE n == Degree + 1
           Is(s) == s = [i \in 1..(Degree + 1) |->
                           IF i = 1 THEN ScalarMult(sg[i], evaluateb(x, i))
                           ELSE Add(s[i - 1], ScalarMult(sg[i], evaluateb(x, i)))]
           step == [p \in Residues \X (2..n) |-> Add(p[1], t[p[2]])]
<1>1. Residues \subseteq Int /\ NoPoint \in Residues /\ n \in Nat /\ 1 \in 1..n /\ n >= 1 /\ 1 \in Nat
      /\ 1 + 1 = 2
  BY SchnorrAssumption DEF Residues, NoPoint
<1>2. \A v \in Residues, i \in 2..n : Add(v, t[i]) \in Residues
  <2>1. ASSUME NEW v \in Residues, NEW q \in Residues PROVE Add(v, q) \in Residues
    <3>1. v + q \in Int
      BY <1>1
    <3>2. (v + q) % Order \in Residues
      BY <3>1, Reduced
    <3> QED  BY <1>1, <3>2 DEF Add
  <2> QED  BY <2>1
<1>3. step \in Steps(1, n, Residues)
  BY <1>2 DEF Steps
<1>4. \A v \in Residues, i \in 2..n : step[<<v, i>>] = Add(v, t[i])
  OBVIOUS
<1> HIDE DEF step
<1>5. t[1] \in Residues
  BY <1>1
<1>6. PICK g : IsLoop(g, 1, n, Residues, t[1], step)
  BY <1>1, <1>3, <1>5, Rounds
<1>7. g \in [1..n -> Residues] /\ g[1] = t[1] /\ \A i \in 2..n : g[i] = step[<<g[i - 1], i>>]
  BY <1>6 DEF IsLoop
<1>8. ASSUME NEW i \in 2..n PROVE g[i] = Add(g[i - 1], t[i])
  <2>1. i - 1 \in 1..n
    BY <1>1
  <2>2. g[i - 1] \in Residues
    BY <1>7, <2>1
  <2> QED  BY ZenonT(60), <1>4, <1>7, <2>2
<1>9. Is(g)
  <2> DEFINE f == [i \in 1..(Degree + 1) |->
                     IF i = 1 THEN ScalarMult(sg[i], evaluateb(x, i))
                     ELSE Add(g[i - 1], ScalarMult(sg[i], evaluateb(x, i)))]
  <2>1. ASSUME NEW i \in 1..n PROVE g[i] = f[i]
    <3>1. i \in 1..(Degree + 1) /\ (i # 1 => i \in 2..n)
      BY <1>1
    <3>2. f[i] = IF i = 1 THEN t[i] ELSE Add(g[i - 1], t[i])
      BY <3>1
    <3> QED  BY ZenonT(60), <1>7, <1>8, <3>1, <3>2
  <2> HIDE DEF f
  <2>2. f = [i \in 1..n |-> f[i]]
    BY DEF f
  <2>3. g = [i \in 1..n |-> g[i]]
    BY <1>7
  <2>4. g = f
    BY <2>1, <2>2, <2>3
  <2> QED  BY ZenonT(60), <2>4 DEF f
<1> HIDE DEF Is
<1> DEFINE s == CHOOSE s : Is(s)
<1>10. Is(s) /\ LagrangeECC(sg, x) = s[Degree + 1]
  <2>1. Is(s)
    BY <1>9
  <2> QED  BY ZenonT(60), <2>1 DEF LagrangeECC, Is
<1> HIDE DEF s
<1>11. /\ s = [i \in 1..n |-> s[i]]
       /\ \A i \in 1..n : s[i] = IF i = 1 THEN t[i] ELSE Add(s[i - 1], t[i])
  BY ZenonT(60), <1>10 DEF Is
<1>12. s[1] = t[1]
  BY ZenonT(60), <1>1, <1>11
<1>13. ASSUME NEW i \in (1 + 1)..n, s[i - 1] \in Residues PROVE s[i] = step[<<s[i - 1], i>>]
  <2>1. i \in 1..n /\ i \in 2..n /\ i # 1
    BY <1>1
  <2> QED  BY ZenonT(60), <1>4, <1>11, <1>13, <2>1
<1>14. s = g
  <2>1. FollowsLoop(s, 1, n, Residues, t[1], step)
    BY ZenonT(60), <1>11, <1>12, <1>13 DEF FollowsLoop
  <2> HIDE DEF n
  <2> QED  BY <1>1, <1>6, <2>1, SameLoop
<1>15. PointLoop(s, t, n)
  BY <1>7, <1>8, <1>14 DEF PointLoop
<1> QED  BY ZenonT(60), <1>10, <1>15

\* ScalarMult returns a point, the product when it is not NoPoint.
LEMMA ScalarMultIs ==
  ASSUME NEW p \in Residues, NEW k \in Int
  PROVE  /\ ScalarMult(p, k) \in Residues
         /\ ScalarMult(p, k) # NoPoint => ScalarMult(p, k) = (p * k) % Order
<1>1. p * k \in Int /\ NoPoint \in Residues
  BY SchnorrAssumption DEF Residues, NoPoint
<1>2. (p * k) % Order \in Residues
  BY <1>1, Reduced
<1> QED  BY <1>1, <1>2 DEF ScalarMult, Times

\* The base point times a number: the number, when it is not NoPoint.
LEMMA BaseMultIs ==
  ASSUME NEW k \in Int
  PROVE  /\ ScalarBaseMult(k) \in Residues
         /\ ScalarBaseMult(k) # NoPoint => ScalarBaseMult(k) = k /\ k \in 1..(Order - 1)
<1>1. 1 \in Residues /\ 1 * k = k
  BY SchnorrAssumption DEF Residues
<1>2. ScalarBaseMult(k) \in Residues
  BY <1>1, ScalarMultIs DEF ScalarBaseMult
<1>3. ASSUME ScalarBaseMult(k) # NoPoint PROVE ScalarBaseMult(k) = k /\ k \in 1..(Order - 1)
  <2>1. k \in 1..(Order - 1)
    BY <1>3 DEF ScalarBaseMult, ScalarMult
  <2>2. k \in Residues
    BY <2>1, SchnorrAssumption DEF Residues
  <2>3. k % Order = k
    BY <2>2, Reduced
  <2>4. ScalarBaseMult(k) = (1 * k) % Order
    BY <1>1, <1>3, ScalarMultIs DEF ScalarBaseMult
  <2> QED  BY <1>1, <2>1, <2>3, <2>4
<1> QED  BY <1>2, <1>3

\* LagrangeECC on the public shares of v is Lagrange on v, in the exponent, unless it
\* meets NoPoint on its way.
THEOREM LagrangeECCIs ==
  ASSUME NEW x, Points(x, Degree + 1), NEW v, \A i \in 1..(Degree + 1) : v[i] \in Residues,
         NEW sg, \A i \in 1..(Degree + 1) : sg[i] = ScalarBaseMult(v[i])
  PROVE  /\ LagrangeECC(sg, x) \in Residues
         /\ LagrangeECC(sg, x) # NoPoint => LagrangeECC(sg, x) = Lagrange(v, x)
<1> DEFINE n == Degree + 1
           t == [i \in 1..(Degree + 1) |-> ScalarMult(sg[i], evaluateb(x, i))]
           h == [i \in 1..(Degree + 1) |-> v[i] * evaluateb(x, i)]
<1>0. /\ n \in Nat /\ n >= 1 /\ 1 \in 1..n /\ n \in 1..n /\ 1 \in Nat /\ 0 \in Nat /\ 0 + 1 = 1
      /\ Residues \subseteq Int /\ \A i \in 1..(n - 1) : i \in 1..n /\ i + 1 \in 1..n /\ i \in Nat
  BY SchnorrAssumption DEF Residues
<1>1. ASSUME NEW i \in 1..n
      PROVE  /\ evaluateb(x, i) \in Int /\ v[i] \in Int /\ sg[i] \in Residues
             /\ sg[i] # NoPoint => sg[i] = v[i]
             /\ ScalarMult(sg[i], evaluateb(x, i)) \in Residues
             /\ ScalarMult(sg[i], evaluateb(x, i)) # NoPoint =>
                  ScalarMult(sg[i], evaluateb(x, i)) = (v[i] * evaluateb(x, i)) % Order
  <2>1. evaluateb(x, i) = Weight(x, n, i)
    BY ZenonT(60) DEF evaluateb, Weight
  <2>2. evaluateb(x, i) \in Int
    BY ZenonT(60), <1>0, <2>1, WeightType
  <2>3. v[i] \in Int
    BY ZenonT(60), <1>0
  <2>4. sg[i] \in Residues /\ (sg[i] # NoPoint => sg[i] = v[i])
    BY ZenonT(60), <2>3, BaseMultIs
  <2>5. /\ ScalarMult(sg[i], evaluateb(x, i)) \in Residues
        /\ ScalarMult(sg[i], evaluateb(x, i)) # NoPoint =>
             ScalarMult(sg[i], evaluateb(x, i)) = (sg[i] * evaluateb(x, i)) % Order
    BY ZenonT(60), <2>2, <2>4, ScalarMultIs
  <2>6. ScalarMult(sg[i], evaluateb(x, i)) # NoPoint => sg[i] # NoPoint
    BY DEF ScalarMult
  <2> QED  BY ZenonT(60), <2>2, <2>3, <2>4, <2>5, <2>6
<1>2. t \in [1..(Degree + 1) -> Residues]
  BY <1>1
<1>3. \A i \in 1..n : t[i] = ScalarMult(sg[i], evaluateb(x, i))
  OBVIOUS
<1>4. \A i \in 1..n : h[i] = v[i] * evaluateb(x, i)
  OBVIOUS
<1>5. Lagrange(v, x) = SumMod(h, n)
  BY ZenonT(60) DEF Lagrange
<1> HIDE DEF t, h
<1>6. PICK s : PointLoop(s, t, n) /\ LagrangeECC(sg, x) = s[n]
  BY ZenonT(60), <1>2, <1>3, PointRounds
<1>7. \A i \in 1..n : h[i] \in Int /\ (t[i] # NoPoint => t[i] = h[i] % Order) /\ t[i] \in Int
  <2>1. ASSUME NEW i \in 1..n PROVE h[i] \in Int
    <3>1. v[i] \in Int /\ evaluateb(x, i) \in Int
      BY ZenonT(60), <1>1
    <3>2. v[i] * evaluateb(x, i) \in Int
      BY <3>1
    <3> QED  BY <1>4, <3>2
  <2> QED  BY ZenonT(60), <1>0, <1>1, <1>3, <1>4, <2>1
<1> DEFINE P(m) == s[m] # NoPoint => s[m] = SumMod(h, m)
           S == {m \in 1..n : P(m)}
<1>8. ASSUME NEW m \in 0..(n - 1)
      PROVE  SumMod(h, m + 1) = (SumMod(h, m) + h[m + 1]) % Order /\ SumMod(h, 0) = 0
             /\ SumMod(h, m) \in Int /\ h[m + 1] \in Int
  <2>1. m \in Nat /\ m + 1 \in 1..n /\ 1..m \subseteq 1..n /\ 1..(m + 1) \subseteq 1..n
    BY <1>0
  <2>2. (\A i \in 1..m : h[i] \in Int) /\ (\A i \in 1..(m + 1) : h[i] \in Int) /\ h[m + 1] \in Int
    BY ZenonT(60), <1>7, <2>1
  <2> QED  BY ZenonT(60), <2>1, <2>2, SumNext, SumType
<1>9. P(1)
  <2>1. 0 \in 0..(n - 1)
    BY <1>0
  <2>2. SumMod(h, 0 + 1) = (SumMod(h, 0) + h[0 + 1]) % Order /\ SumMod(h, 0) = 0
    BY ZenonT(60), <1>8, <2>1
  <2>3. h[1] \in Int /\ 0 + h[1] = h[1]
    BY <1>0, <1>7
  <2>4. SumMod(h, 1) = h[1] % Order
    BY ZenonT(60), <1>0, <2>2, <2>3
  <2> QED  BY ZenonT(60), <1>0, <1>6, <1>7, <2>4 DEF PointLoop
<1>10. ASSUME NEW m \in 1..(n - 1), P(m) PROVE P(m + 1)
  <2> SUFFICES ASSUME s[m + 1] # NoPoint PROVE s[m + 1] = SumMod(h, m + 1)
    OBVIOUS
  <2>1. m + 1 \in 2..n /\ (m + 1) - 1 = m /\ m \in 0..(n - 1) /\ m + 1 \in 1..n
    BY <1>0
  <2>2. s[m + 1] = Add(s[m], t[m + 1])
    BY ZenonT(60), <1>6, <2>1 DEF PointLoop
  <2>3. s[m] # NoPoint /\ t[m + 1] # NoPoint /\ s[m + 1] = (s[m] + t[m + 1]) % Order
    BY <2>2 DEF Add
  <2> DEFINE A == SumMod(h, m)
             a == h[m + 1]
  <2>4. s[m + 1] = (A + (a % Order)) % Order
    BY ZenonT(60), <1>7, <1>10, <2>1, <2>3
  <2>5. A \in Int /\ a \in Int
    BY ZenonT(60), <1>8, <2>1
  <2> HIDE DEF A, a
  <2>6. Cong(A + (a % Order), A + a)
    <3>1. Cong(a % Order, a) /\ Cong(A, A) /\ a % Order \in Int
      BY ZenonT(60), <1>0, <2>5, Reduced DEF Cong
    <3> QED  BY ZenonT(60), <2>5, <3>1, CongOps
  <2>7. s[m + 1] = (A + a) % Order
    BY <2>4, <2>6 DEF Cong
  <2> QED  BY ZenonT(60), <1>8, <2>1, <2>7 DEF A, a
<1> HIDE DEF P
<1>11. 1 \in S
  BY <1>0, <1>9
<1>12. ASSUME NEW m \in 1..(n - 1), m \in S PROVE m + 1 \in S
  BY <1>0, <1>10, <1>12
<1> HIDE DEF S, n
<1>13. \A m \in 1..n : m \in S
  BY <1>0, <1>11, <1>12, Induction
<1>14. P(n) /\ s[n] \in Residues
  BY <1>0, <1>6, <1>13 DEF S, PointLoop
<1> QED  BY ZenonT(60), <1>5, <1>6, <1>14 DEF P

\* A signature made of the secret and the nonce passes verifyRS, when it gets points
\* to compare.
THEOREM SignatureIs ==
  ASSUME NEW key, NEW secretKey \in Residues, key = ScalarBaseMult(secretKey), NEW r \in Residues,
         NEW m \in Nat, NEW s \in Residues, Cong(s, m * secretKey + r), CanVerify(r, s, m, key)
  PROVE  Verifies(r, s, m, key)
<1>0. Residues \subseteq Int /\ secretKey \in Int /\ s \in Int /\ r \in Int /\ m \in Int
  BY SchnorrAssumption DEF Residues
<1>1. ScalarBaseMult(s) = s
  BY <1>0, BaseMultIs DEF CanVerify
<1>2. Add(ScalarMult(key, m), r) # NoPoint
  BY DEF CanVerify
<1>3. ScalarMult(key, m) # NoPoint /\ Add(ScalarMult(key, m), r) = (ScalarMult(key, m) + r) % Order
  BY <1>2 DEF Add
<1>4. key # NoPoint
  BY <1>3 DEF ScalarMult
<1>5. key = secretKey
  BY <1>0, <1>4, BaseMultIs
<1>6. ScalarMult(key, m) = (secretKey * m) % Order
  BY <1>0, <1>3, <1>5, ScalarMultIs
<1>7. Cong(((secretKey * m) % Order) + r, secretKey * m + r)
  <2>1. secretKey * m \in Int /\ Cong(r, r)
    BY <1>0 DEF Cong
  <2>2. Cong((secretKey * m) % Order, secretKey * m) /\ (secretKey * m) % Order \in Int
    BY ZenonT(60), <1>0, <2>1, Reduced
  <2> QED  BY ZenonT(60), <1>0, <2>1, <2>2, CongOps
<1>8. secretKey * m + r = m * secretKey + r
  BY <1>0
<1>9. Cong(((secretKey * m) % Order) + r, s)
  BY <1>7, <1>8 DEF Cong
<1>10. (((secretKey * m) % Order) + r) % Order = s
  BY <1>0, <1>9, Reduced DEF Cong
<1> QED  BY <1>1, <1>3, <1>6, <1>10 DEF Verifies

-----------------------------------------------------------------------------
(* A polynomial through any points.                                        *)

\* The coefficients of c + (X - b) * g for the coefficients g[1], ..., g[n].
Lift(g, n, b, c) ==
  [k \in 1..(n + 1) |-> (IF k = 1 THEN c ELSE g[k - 1]) - b * (IF k = n + 1 THEN 0 ELSE g[k])]

\* The arithmetic of the round of LiftIs: P, G, H, K are polynomials at t, D and E
\* powers of t and u, v coefficients.
LiftRound(P, G, H, K, Q, D, E, u, v, b, c, t) ==
  /\ {P, G, H, K, Q, D, E, u, v, b, c, t} \subseteq Int
  /\ Cong(P, c + t * G - b * H) /\ Cong(E, D * t)
  /\ Cong(H, G + u * D) /\ Cong(K, H + v * E) /\ Cong(Q, P + (u - b * v) * E)

\* One more coefficient keeps the equation that LiftIs is about.
LEMMA LiftRoundIs ==
  ASSUME NEW P, NEW G, NEW H, NEW K, NEW Q, NEW D, NEW E, NEW u, NEW v, NEW b, NEW c, NEW t,
         LiftRound(P, G, H, K, Q, D, E, u, v, b, c, t)
  PROVE  Cong(Q, c + t * H - b * K)
<1> SUFFICES ASSUME P \in Int, G \in Int, H \in Int, K \in Int, Q \in Int, D \in Int, E \in Int,
                    u \in Int, v \in Int, b \in Int, c \in Int, t \in Int,
                    Cong(P, c + t * G - b * H), Cong(E, D * t),
                    Cong(H, G + u * D), Cong(K, H + v * E), Cong(Q, P + (u - b * v) * E)
             PROVE  Cong(Q, c + t * H - b * K)
  BY DEF LiftRound
<1>0. Order \in Int
  BY SchnorrAssumption
<1>1. PICK k1 \in Int : P = c + t * G - b * H + k1 * Order
  <2>1. c + t * G - b * H \in Int
    OBVIOUS
  <2> QED  BY <2>1, CongMultiple
<1>2. PICK k2 \in Int : E = D * t + k2 * Order
  <2>1. D * t \in Int
    OBVIOUS
  <2> QED  BY <2>1, CongMultiple
<1>3. PICK k3 \in Int : H = G + u * D + k3 * Order
  <2>1. G + u * D \in Int
    OBVIOUS
  <2> QED  BY <2>1, CongMultiple
<1>4. PICK k4 \in Int : K = H + v * E + k4 * Order
  <2>1. H + v * E \in Int
    OBVIOUS
  <2> QED  BY <2>1, CongMultiple
<1>5. PICK k5 \in Int : Q = P + (u - b * v) * E + k5 * Order
  <2>1. P + (u - b * v) * E \in Int
    OBVIOUS
  <2> QED  BY <2>1, CongMultiple
<1>6. Q = (c + t * H - b * K) + (k1 + k5 + u * k2 - t * k3 + b * k4) * Order
  <2>1. t * H = t * G + u * (D * t) + (t * k3) * Order
    BY <1>0, <1>3
  <2>2. u * (D * t) = u * E - (u * k2) * Order
    BY <1>0, <1>2
  <2>3. b * K = b * H + (b * v) * E + (b * k4) * Order
    BY <1>0, <1>4
  <2>4. (u - b * v) * E = u * E - (b * v) * E
    OBVIOUS
  <2> QED  BY <1>0, <1>1, <1>5, <2>1, <2>2, <2>3, <2>4
<1>7. c + t * H - b * K \in Int /\ k1 + k5 + u * k2 - t * k3 + b * k4 \in Int
  OBVIOUS
<1> QED  BY <1>6, <1>7, CongMultiple

\* The value of a polynomial is reduced.
LEMMA PolyType ==
  ASSUME NEW n \in Nat, NEW c, Ints(c, n), NEW t \in Int
  PROVE  Poly(c, n, t) \in Residues /\ Poly(c, n, t) \in Int
<1> DEFINE g == [j \in 1..n |-> c[j] * Exp(t, j - 1)]
<1>1. ASSUME NEW j \in 1..n PROVE c[j] * Exp(t, j - 1) \in Int
  <2>1. j - 1 \in Nat
    OBVIOUS
  <2>2. c[j] \in Int /\ Exp(t, j - 1) \in Int
    BY ZenonT(60), <2>1, ExpNext DEF Ints
  <2> QED  BY <2>2
<1>2. \A j \in 1..n : g[j] = c[j] * Exp(t, j - 1)
  OBVIOUS
<1>3. Poly(c, n, t) = SumMod(g, n)
  BY ZenonT(60) DEF Poly
<1> HIDE DEF g
<1>4. Ints(g, n)
  BY ZenonT(60), <1>1, <1>2 DEF Ints
<1>5. SumMod(g, n) \in Residues
  BY ZenonT(60), <1>4, SumType DEF Ints
<1>6. Residues \subseteq Int
  BY SchnorrAssumption DEF Residues
<1> QED  BY ZenonT(60), <1>3, <1>5, <1>6

\* Polynomials with congruent coefficients have the same values.
LEMMA PolyCong ==
  ASSUME NEW n \in Nat, NEW c, NEW d, Ints(c, n), Ints(d, n), \A i \in 1..n : Cong(c[i], d[i]),
         NEW t \in Int
  PROVE  Poly(c, n, t) = Poly(d, n, t)
<1> DEFINE g == [j \in 1..n |-> c[j] * Exp(t, j - 1)]
           h == [j \in 1..n |-> d[j] * Exp(t, j - 1)]
<1>1. ASSUME NEW j \in 1..n
      PROVE  /\ c[j] * Exp(t, j - 1) \in Int /\ d[j] * Exp(t, j - 1) \in Int
             /\ Cong(c[j] * Exp(t, j - 1), d[j] * Exp(t, j - 1))
  <2>1. j - 1 \in Nat
    OBVIOUS
  <2>2. c[j] \in Int /\ d[j] \in Int /\ Exp(t, j - 1) \in Int /\ Cong(c[j], d[j])
        /\ Cong(Exp(t, j - 1), Exp(t, j - 1))
    BY ZenonT(60), <2>1, ExpNext DEF Ints, Cong
  <2>3. Cong(c[j] * Exp(t, j - 1), d[j] * Exp(t, j - 1))
    BY ZenonT(60), <2>2, CongOps
  <2> QED  BY <2>2, <2>3
<1>2. \A j \in 1..n : g[j] = c[j] * Exp(t, j - 1) /\ h[j] = d[j] * Exp(t, j - 1)
  OBVIOUS
<1>3. Poly(c, n, t) = SumMod(g, n) /\ Poly(d, n, t) = SumMod(h, n)
  BY ZenonT(60) DEF Poly
<1> HIDE DEF g, h
<1>4. Ints(g, n) /\ Ints(h, n) /\ \A j \in 1..n : Cong(g[j], h[j])
  BY ZenonT(60), <1>1, <1>2 DEF Ints
<1>5. SumMod(g, n) = SumMod(h, n)
  BY ZenonT(60), <1>4, SumCong
<1> QED  BY <1>3, <1>5

\* Lift gives the coefficients it is meant to.
LEMMA LiftIs ==
  ASSUME NEW n \in Nat, NEW g, Ints(g, n), NEW b \in Int, NEW c \in Int, NEW t \in Int
  PROVE  /\ Ints(Lift(g, n, b, c), n + 1)
         /\ Cong(Poly(Lift(g, n, b, c), n + 1, t), c + (t - b) * Poly(g, n, t))
<1> DEFINE l == Lift(g, n, b, c)
           e == [k \in 1..(n + 1) |-> IF k = n + 1 THEN 0 ELSE g[k]]
           P(m) == Cong(Poly(l, m, t), c + t * Poly(e, m - 1, t) - b * Poly(e, m, t))
           S == {m \in 1..(n + 1) : P(m)}
<1>0. n + 1 \in Nat /\ 1 \in 1..(n + 1) /\ n + 1 \in 1..(n + 1) /\ 1 \in Nat /\ 0 \in Nat /\ 0 + 1 = 1
      /\ 1 - 1 = 0 /\ Residues \subseteq Int /\ (n + 1) - 1 = n
  BY SchnorrAssumption DEF Residues
<1>1. /\ Ints(e, n + 1) /\ e[n + 1] = 0 /\ \A k \in 1..n : e[k] = g[k]
  BY <1>0 DEF Ints
<1>2. /\ l[1] = c - b * e[1]
      /\ \A k \in 1..n : l[k + 1] = e[k] - b * e[k + 1]
      /\ Ints(l, n + 1)
  <2>1. ASSUME NEW k \in 1..(n + 1) PROVE l[k] = (IF k = 1 THEN c ELSE g[k - 1]) - b * e[k]
    BY DEF Lift
  <2>2. ASSUME NEW k \in 1..n PROVE l[k + 1] = e[k] - b * e[k + 1]
    <3>1. k + 1 \in 1..(n + 1) /\ k + 1 # 1 /\ (k + 1) - 1 = k
      OBVIOUS
    <3>2. l[k + 1] = (IF k + 1 = 1 THEN c ELSE g[(k + 1) - 1]) - b * e[k + 1]
      BY ZenonT(60), <2>1, <3>1
    <3> QED  BY ZenonT(60), <1>1, <3>1, <3>2
  <2>3. l[1] = c - b * e[1]
    BY ZenonT(60), <1>0, <2>1
  <2>4. ASSUME NEW k \in 1..(n + 1) PROVE l[k] \in Int
    <3>1. (IF k = 1 THEN c ELSE g[k - 1]) \in Int
      BY DEF Ints
    <3>2. e[k] \in Int
      BY <1>1 DEF Ints
    <3> QED  BY <2>1, <3>1, <3>2
  <2> HIDE DEF l, e
  <2>5. Ints(l, n + 1)
    BY <2>4 DEF Ints
  <2> QED  BY <2>2, <2>3, <2>5
<1> HIDE DEF l, e
<1>3. ASSUME NEW m \in 0..n, NEW d, Ints(d, n + 1)
      PROVE  /\ Poly(d, 0, t) = 0 /\ Poly(d, m, t) \in Int /\ d[m + 1] \in Int
             /\ Cong(Poly(d, m + 1, t), Poly(d, m, t) + d[m + 1] * Exp(t, m))
             /\ Poly(d, m + 1, t) \in Int /\ Exp(t, m) \in Int
  <2>1. m \in Nat /\ 1..(m + 1) \subseteq 1..(n + 1) /\ m + 1 \in 1..(n + 1)
    OBVIOUS
  <2>2. Ints(d, m + 1) /\ d[m + 1] \in Int
    BY ZenonT(60), <1>3, <2>1 DEF Ints
  <2>3. /\ Poly(d, 0, t) = 0 /\ Poly(d, m, t) \in Int
        /\ Cong(Poly(d, m + 1, t), Poly(d, m, t) + d[m + 1] * Exp(t, m))
        /\ Poly(d, m + 1, t) \in Int
    BY ZenonT(60), <1>0, <2>1, <2>2, PolyNext
  <2>4. Exp(t, m) \in Int
    BY ZenonT(60), <2>1, ExpNext
  <2> QED  BY <2>2, <2>3, <2>4
<1>4. P(1)
  <2>1. 0 \in 0..n /\ Exp(t, 0) = 1
    BY ExpNext, <1>0
  <2>2. /\ Cong(Poly(l, 0 + 1, t), Poly(l, 0, t) + l[0 + 1] * Exp(t, 0))
        /\ Cong(Poly(e, 0 + 1, t), Poly(e, 0, t) + e[0 + 1] * Exp(t, 0))
        /\ Poly(l, 0, t) = 0 /\ Poly(e, 0, t) = 0 /\ Poly(e, 0 + 1, t) \in Int
        /\ e[0 + 1] \in Int /\ l[0 + 1] \in Int
    BY ZenonT(60), <1>1, <1>2, <1>3, <2>1
  <2>3. /\ Cong(Poly(l, 1, t), 0 + l[1] * 1) /\ Cong(Poly(e, 1, t), 0 + e[1] * 1)
        /\ Poly(e, 1, t) \in Int /\ e[1] \in Int /\ l[1] \in Int /\ Poly(e, 0, t) = 0
    BY ZenonT(60), <1>0, <2>1, <2>2
  <2> DEFINE p == Poly(e, 1, t)
             a == e[1]
  <2>4. Cong(Poly(l, 1, t), c - b * a) /\ Cong(p, a) /\ p \in Int /\ a \in Int
    <3>1. 0 + l[1] * 1 = l[1] /\ 0 + e[1] * 1 = e[1]
      BY <2>3
    <3> QED  BY ZenonT(60), <1>2, <2>3, <3>1
  <2> HIDE DEF p, a
  <2>5. Cong(c - b * a, c - b * p)
    <3>1. Cong(b, b) /\ Cong(c, c) /\ Cong(a, p) /\ b * a \in Int /\ b * p \in Int
      BY <2>4 DEF Cong
    <3>2. Cong(b * a, b * p)
      BY ZenonT(60), <2>4, <3>1, CongOps
    <3> QED  BY ZenonT(60), <3>1, <3>2, CongOps
  <2>6. c - b * p = c + t * 0 - b * p
    BY <2>4
  <2>7. Cong(Poly(l, 1, t), c + t * 0 - b * p)
    BY <2>4, <2>5, <2>6 DEF Cong
  <2> QED  BY ZenonT(60), <1>0, <2>3, <2>7 DEF p
<1>5. ASSUME NEW m \in 1..n, P(m) PROVE P(m + 1)
  <2> DEFINE i == m - 1
  <2>0. i \in 0..n /\ i \in Nat /\ i + 1 = m /\ m \in 0..n /\ m \in Nat /\ m - 1 = i
        /\ (m + 1) - 1 = m
    OBVIOUS
  <2> HIDE DEF i
  <2>1. Cong(Exp(t, m), Exp(t, i) * t)
    BY ZenonT(60), <2>0, ExpNext
  <2>2. /\ Cong(Poly(e, m, t), Poly(e, i, t) + e[m] * Exp(t, i)) /\ Poly(e, i, t) \in Int
        /\ Poly(e, m, t) \in Int /\ Exp(t, i) \in Int /\ e[m] \in Int
    BY ZenonT(60), <1>1, <1>3, <2>0
  <2>3. /\ Cong(Poly(e, m + 1, t), Poly(e, m, t) + e[m + 1] * Exp(t, m))
        /\ Poly(e, m + 1, t) \in Int /\ Exp(t, m) \in Int /\ e[m + 1] \in Int
    BY ZenonT(60), <1>1, <1>3, <2>0
  <2>4. /\ Cong(Poly(l, m + 1, t), Poly(l, m, t) + (e[m] - b * e[m + 1]) * Exp(t, m))
        /\ Poly(l, m + 1, t) \in Int /\ Poly(l, m, t) \in Int
    BY ZenonT(60), <1>2, <1>3, <2>0
  <2>5. Cong(Poly(l, m, t), c + t * Poly(e, i, t) - b * Poly(e, m, t))
    BY ZenonT(60), <1>5, <2>0
  <2>6. LiftRound(Poly(l, m, t), Poly(e, i, t), Poly(e, m, t), Poly(e, m + 1, t),
                  Poly(l, m + 1, t), Exp(t, i), Exp(t, m), e[m], e[m + 1], b, c, t)
    BY <2>1, <2>2, <2>3, <2>4, <2>5 DEF LiftRound
  <2>7. Cong(Poly(l, m + 1, t), c + t * Poly(e, m, t) - b * Poly(e, m + 1, t))
    BY ZenonT(60), <2>6, LiftRoundIs
  <2> QED  BY ZenonT(60), <2>0, <2>7
<1> HIDE DEF P
<1>6. 1 \in S
  BY <1>0, <1>4
<1>7. ASSUME NEW m \in 1..((n + 1) - 1), m \in S PROVE m + 1 \in S
  BY <1>5, <1>7
<1> HIDE DEF S
<1>8. \A m \in 1..(n + 1) : m \in S
  BY <1>0, <1>6, <1>7, Induction
<1>9. P(n + 1)
  BY <1>0, <1>8 DEF S
<1>10. Poly(e, n, t) = Poly(g, n, t) /\ Poly(e, n, t) \in Int
  <2>1. Ints(e, n) /\ \A i \in 1..n : Cong(e[i], g[i])
    BY <1>1 DEF Ints, Cong
  <2>2. Poly(e, n, t) = Poly(g, n, t)
    BY ZenonT(60), <2>1, PolyCong
  <2>3. n \in 0..n
    OBVIOUS
  <2> QED  BY ZenonT(60), <1>1, <1>3, <2>2, <2>3
<1> DEFINE p == Poly(g, n, t)
           r == Poly(e, n + 1, t)
<1>11. Cong(r, p) /\ r \in Int /\ p \in Int
  <2>1. n \in 0..n
    OBVIOUS
  <2>2. Cong(r, Poly(e, n, t) + e[n + 1] * Exp(t, n)) /\ r \in Int /\ Exp(t, n) \in Int
    BY ZenonT(60), <1>1, <1>3, <2>1
  <2>3. p + 0 * Exp(t, n) = p /\ p \in Int
    BY <1>10, <2>2
  <2> QED  BY ZenonT(60), <1>1, <1>10, <2>2, <2>3
<1>12. Cong(Poly(l, n + 1, t), c + t * p - b * r)
  BY ZenonT(60), <1>0, <1>9, <1>10 DEF P
<1> HIDE DEF p, r
<1>13. Cong(c + t * p - b * r, c + t * p - b * p)
  <2> DEFINE s == t * p
             u == b * r
             w == b * p
  <2>1. s \in Int /\ u \in Int /\ w \in Int /\ Cong(s, s) /\ Cong(b, b) /\ Cong(c, c)
    BY <1>11 DEF Cong
  <2>2. Cong(u, w)
    BY ZenonT(60), <1>11, <2>1, CongOps
  <2> HIDE DEF s, u, w
  <2>3. Cong(s - u, s - w) /\ s - u \in Int /\ s - w \in Int
    <3>1. s - u \in Int /\ s - w \in Int
      BY <2>1
    <3> QED  BY ZenonT(60), <2>1, <2>2, <3>1, CongOps
  <2>4. Cong(c + (s - u), c + (s - w))
    BY ZenonT(60), <2>1, <2>3, CongOps
  <2> QED  BY ZenonT(60), <2>4 DEF s, u, w
<1>14. c + t * p - b * p = c + (t - b) * p
  BY <1>11
<1>15. Cong(Poly(l, n + 1, t), c + (t - b) * p)
  BY <1>12, <1>13, <1>14 DEF Cong
<1> QED  BY ZenonT(60), <1>2, <1>15 DEF l, p

\* Some polynomial with n coefficients takes the values y at the points x.
Through(x, y, n) == \E g : Ints(g, n) /\ \A i \in 1..n : Cong(Poly(g, n, x[i]), y[i])

\* The value of Lift at a point x where g is the slope from (b, c) to (x, y).
LEMMA SlopeIs ==
  ASSUME NEW x \in Int, NEW b \in Int, NEW y \in Int, NEW c \in Int, NEW G \in Int,
         ~Cong(x - b, 0), Cong(G, (y - c) * ModInverse(x - b))
  PROVE  Cong(c + (x - b) * G, y)
<1> DEFINE d == x - b
           v == ModInverse(x - b)
<1>1. d \in Int /\ v \in Int /\ Cong(d * v, 1) /\ Order \in Int
  <2>1. v \in Int /\ Cong(d * v, 1)
    BY ZenonT(60), Difference
  <2> QED  BY <2>1, SchnorrAssumption
<1>2. Cong(G, (y - c) * v)
  OBVIOUS
<1> HIDE DEF v
<1>3. PICK k1 \in Int : G = (y - c) * v + k1 * Order
  <2>1. (y - c) * v \in Int
    BY <1>1
  <2> QED  BY <1>2, <2>1, CongMultiple
<1> HIDE DEF d
<1>4. PICK k2 \in Int : d * v = 1 + k2 * Order
  <2>1. d * v \in Int /\ 1 \in Int
    BY <1>1
  <2> QED  BY <1>1, <2>1, CongMultiple
<1>5. c + d * G = y + ((y - c) * k2 + d * k1) * Order
  <2>1. d * G = (y - c) * (d * v) + (d * k1) * Order
    BY <1>1, <1>3
  <2>2. (y - c) * (d * v) = (y - c) + ((y - c) * k2) * Order
    BY <1>1, <1>4
  <2> QED  BY <1>1, <2>1, <2>2
<1>6. c + d * G \in Int /\ (y - c) * k2 + d * k1 \in Int
  BY <1>1
<1>7. Cong(c + d * G, y)
  BY <1>5, <1>6, CongMultiple
<1> QED  BY <1>7 DEF d

\* One more point: the polynomial through the slopes from the last point, lifted.
LEMMA ThroughOneMore ==
  ASSUME NEW n \in Nat, NEW x, Points(x, n + 1), NEW y, Ints(y, n + 1),
         \A z : Ints(z, n) => Through(x, z, n)
  PROVE  Through(x, y, n + 1)
<1> DEFINE b == x[n + 1]
           c == y[n + 1]
           z == [i \in 1..n |-> (y[i] - c) * ModInverse(x[i] - b)]
<1>0. n + 1 \in Nat /\ n + 1 \in 1..(n + 1)
  OBVIOUS
<1>1. b \in Int /\ c \in Int
  BY <1>0 DEF Points, Ints
<1>2. ASSUME NEW i \in 1..n
      PROVE  x[i] \in Int /\ y[i] \in Int /\ ~Cong(x[i] - b, 0) /\ z[i] = (y[i] - c) * ModInverse(x[i] - b)
             /\ z[i] \in Int
  <2>1. i \in 1..(n + 1) /\ i # n + 1
    OBVIOUS
  <2>2. x[i] \in Int /\ y[i] \in Int /\ ~Cong(x[i] - b, 0)
    BY ZenonT(60), <1>0, <2>1 DEF Points, Ints
  <2>3. z[i] = (y[i] - c) * ModInverse(x[i] - b)
    OBVIOUS
  <2>4. ModInverse(x[i] - b) \in Int
    BY ZenonT(60), <1>1, <2>2, Difference
  <2> QED  BY <1>1, <2>2, <2>3, <2>4
<1> HIDE DEF b, c, z
<1>3. Ints(z, n)
  BY <1>2 DEF Ints
<1>4. PICK g : Ints(g, n) /\ \A i \in 1..n : Cong(Poly(g, n, x[i]), z[i])
  BY ZenonT(60), <1>3 DEF Through
<1> DEFINE l == Lift(g, n, b, c)
<1>5. ASSUME NEW t \in Int
      PROVE  Ints(l, n + 1) /\ Cong(Poly(l, n + 1, t), c + (t - b) * Poly(g, n, t)) /\ Poly(g, n, t) \in Int
  <2>1. Ints(l, n + 1) /\ Cong(Poly(l, n + 1, t), c + (t - b) * Poly(g, n, t))
    BY ZenonT(60), <1>1, <1>4, LiftIs
  <2>2. Poly(g, n, t) \in Int
    BY <1>4, PolyType
  <2> QED  BY <2>1, <2>2
<1> HIDE DEF l
<1>6. ASSUME NEW i \in 1..n PROVE Cong(Poly(l, n + 1, x[i]), y[i])
  <2> DEFINE G == Poly(g, n, x[i])
  <2>1. G \in Int /\ Cong(Poly(l, n + 1, x[i]), c + (x[i] - b) * G)
    BY ZenonT(60), <1>2, <1>5
  <2>2. Cong(G, (y[i] - c) * ModInverse(x[i] - b))
    BY ZenonT(60), <1>2, <1>4
  <2> HIDE DEF G
  <2>3. Cong(c + (x[i] - b) * G, y[i])
    BY ZenonT(60), <1>1, <1>2, <2>1, <2>2, SlopeIs
  <2> QED  BY <2>1, <2>3 DEF Cong
<1>7. Cong(Poly(l, n + 1, b), c)
  <2>1. Cong(Poly(l, n + 1, b), c + (b - b) * Poly(g, n, b)) /\ Poly(g, n, b) \in Int
    BY ZenonT(60), <1>1, <1>5
  <2>2. c + (b - b) * Poly(g, n, b) = c
    BY <1>1, <2>1
  <2> QED  BY ZenonT(60), <2>1, <2>2
<1>8. Ints(l, n + 1)
  BY ZenonT(60), <1>1, <1>5
<1>9. ASSUME NEW i \in 1..(n + 1) PROVE Cong(Poly(l, n + 1, x[i]), y[i])
  <2>1. i \in 1..n \/ i = n + 1
    OBVIOUS
  <2> QED  BY ZenonT(60), <1>6, <1>7, <2>1 DEF b, c
<1> QED  BY ZenonT(60), <1>8, <1>9 DEF Through

\* Interpolation: through any n points at different places passes a polynomial with
\* n coefficients.
LEMMA Interpolation ==
  ASSUME NEW n \in Nat, NEW x, Points(x, n), NEW y, Ints(y, n)
  PROVE  Through(x, y, n)
<1> DEFINE P(m) == \A z : Ints(z, m) => Through(x, z, m)
           S == {m \in 0..n : P(m)}
<1>0. 0 \in Nat /\ 0 \in 0..n /\ n \in 0..n
  OBVIOUS
<1>1. P(0)
  <2> SUFFICES ASSUME NEW z PROVE Through(x, z, 0)
    OBVIOUS
  <2>1. Ints(z, 0) /\ \A i \in 1..0 : Cong(Poly(z, 0, x[i]), z[i])
    BY DEF Ints
  <2> QED  BY ZenonT(60), <2>1 DEF Through
<1>2. ASSUME NEW m \in 0..(n - 1), P(m) PROVE P(m + 1)
  <2>1. m \in Nat /\ 1..(m + 1) \subseteq 1..n
    OBVIOUS
  <2>2. Points(x, m + 1)
    BY ZenonT(60), <2>1 DEF Points, Ints
  <2> QED  BY ZenonT(60), <1>2, <2>1, <2>2, ThroughOneMore
<1> HIDE DEF P
<1>3. 0 \in S
  BY <1>0, <1>1
<1>4. ASSUME NEW m \in 0..(n - 1), m \in S PROVE m + 1 \in S
  BY <1>2, <1>4
<1> HIDE DEF S
<1>5. \A m \in 0..n : m \in S
  BY <1>0, <1>3, <1>4, Induction
<1>6. P(n)
  BY <1>0, <1>5 DEF S
<1> QED  BY ZenonT(60), <1>6 DEF P

\* A coefficient as RandPoly draws it, from 1 to the order.
Drawn(a) == IF a % Order = 0 THEN Order ELSE a % Order

\* Every coefficient is congruent to one that may be drawn.
LEMMA DrawnIs ==
  ASSUME NEW a \in Int
  PROVE  Drawn(a) \in 1..Order /\ Cong(Drawn(a), a)
<1>1. Order \in Nat \ {0}
  BY SchnorrAssumption
<1>2. PICK m \in Int, r \in 0..(Order - 1) : a = m * Order + r /\ a % Order = r
  BY ZenonT(60), <1>1, Division
<1>3. CASE r = 0
  <2>1. Drawn(a) = Order /\ Order \in 1..Order /\ Order = a + (1 - m) * Order /\ 1 - m \in Int
    BY <1>1, <1>2, <1>3 DEF Drawn
  <2>0. Order \in Int
    BY <1>1
  <2>2. Order \in Int /\ \E k \in Int : Order = a + k * Order
    BY ZenonT(60), <2>0, <2>1
  <2>3. Cong(Order, a)
    BY ZenonT(60), <2>2, CongMultiple
  <2> QED  BY ZenonT(60), <2>1, <2>3
<1>4. CASE r # 0
  <2>1. Drawn(a) = r /\ r \in 1..Order /\ r = a + (0 - m) * Order /\ 0 - m \in Int /\ r \in Int
    BY <1>1, <1>2, <1>4 DEF Drawn
  <2> QED  BY <2>1, CongMultiple
<1> QED  BY <1>3, <1>4

\* At Degree places other than 0, a polynomial with the coefficients drawn for it
\* and any constant term s takes any values y.
THEOREM AnyConstantTerm ==
  ASSUME NEW x, Points(x, Degree), \A i \in 1..Degree : ~Cong(x[i], 0), NEW y, Ints(y, Degree),
         NEW s \in Int
  PROVE  \E c \in [1..Degree -> 1..Order] : \A i \in 1..Degree :
           Cong(EvaluatePoly([d \in 0..Degree |-> IF d = 0 THEN s ELSE c[d]], x[i]), y[i])
<1> DEFINE z == [i \in 1..Degree |-> (y[i] - s) * ModInverse(x[i] - 0)]
<1>0. Degree \in Nat /\ Degree + 1 \in Nat /\ 0 \in Int /\ 1..Order \subseteq Int
  BY SchnorrAssumption
<1>1. ASSUME NEW i \in 1..Degree
      PROVE  x[i] \in Int /\ y[i] \in Int /\ ~Cong(x[i] - 0, 0)
             /\ z[i] = (y[i] - s) * ModInverse(x[i] - 0) /\ z[i] \in Int
  <2>1. x[i] \in Int /\ y[i] \in Int
    BY ZenonT(60) DEF Points, Ints
  <2>2. x[i] - 0 = x[i]
    BY <2>1
  <2>3. ~Cong(x[i] - 0, 0)
    BY ZenonT(60), <2>2
  <2>4. ModInverse(x[i] - 0) \in Int
    BY ZenonT(60), <1>0, <2>1, <2>3, Difference
  <2>5. z[i] = (y[i] - s) * ModInverse(x[i] - 0)
    OBVIOUS
  <2> DEFINE v == ModInverse(x[i] - 0)
  <2> HIDE DEF v
  <2>6. z[i] = (y[i] - s) * v /\ v \in Int
    BY ZenonT(60), <2>4, <2>5 DEF v
  <2> HIDE DEF z
  <2>7. z[i] \in Int
    BY <2>1, <2>6
  <2> QED  BY ZenonT(60), <2>1, <2>3, <2>5, <2>7
<1> HIDE DEF z
<1>2. Ints(z, Degree)
  BY <1>1 DEF Ints
<1>3. PICK g : Ints(g, Degree) /\ \A i \in 1..Degree : Cong(Poly(g, Degree, x[i]), z[i])
  BY ZenonT(60), <1>0, <1>2, Interpolation DEF Through
<1> DEFINE l == Lift(g, Degree, 0, s)
           c == [d \in 1..Degree |-> Drawn(g[d])]
           f == [d \in 0..Degree |-> IF d = 0 THEN s ELSE c[d]]
           e == [j \in 1..(Degree + 1) |-> f[j - 1]]
<1>4. ASSUME NEW i \in 1..Degree
      PROVE  Ints(l, Degree + 1) /\ Cong(Poly(l, Degree + 1, x[i]), y[i])
  <2> DEFINE G == Poly(g, Degree, x[i])
  <2>1. G \in Int
    BY ZenonT(60), <1>0, <1>1, <1>3, PolyType
  <2>2. Cong(G, (y[i] - s) * ModInverse(x[i] - 0))
    BY ZenonT(60), <1>1, <1>3
  <2>3. Ints(l, Degree + 1) /\ Cong(Poly(l, Degree + 1, x[i]), s + (x[i] - 0) * G)
    BY ZenonT(60), <1>0, <1>1, <1>3, LiftIs
  <2> HIDE DEF G, l
  <2>4. Cong(s + (x[i] - 0) * G, y[i])
    BY ZenonT(60), <1>0, <1>1, <2>1, <2>2, SlopeIs
  <2> QED  BY ZenonT(60), <2>3, <2>4 DEF Cong
<1>5. ASSUME NEW d \in 1..Degree
      PROVE  c[d] \in 1..Order /\ c[d] \in Int /\ Cong(c[d], g[d]) /\ g[d] \in Int
  <2>1. g[d] \in Int
    BY ZenonT(60), <1>3 DEF Ints
  <2>2. c[d] = Drawn(g[d])
    OBVIOUS
  <2> QED  BY ZenonT(60), <1>0, <2>1, <2>2, DrawnIs
<1>6. c \in [1..Degree -> 1..Order]
  <2>1. c = [d \in 1..Degree |-> c[d]]
    OBVIOUS
  <2> HIDE DEF c
  <2> QED  BY <1>5, <2>1
<1> HIDE DEF c
<1>7. IntPoly(f)
  <2>1. ASSUME NEW d \in 0..Degree PROVE f[d] \in Int
    <3>1. d = 0 \/ d \in 1..Degree
      BY <1>0
    <3> QED  BY <1>5, <3>1
  <2> HIDE DEF f
  <2> QED  BY <2>1 DEF IntPoly
<1>8. ASSUME NEW j \in 1..(Degree + 1) PROVE l[j] \in Int /\ e[j] \in Int /\ Cong(e[j], l[j])
  <2>1. l[j] = (IF j = 1 THEN s ELSE g[j - 1]) - 0 * (IF j = Degree + 1 THEN 0 ELSE g[j])
    BY DEF Lift
  <2>2. j = 1 \/ (j # 1 /\ j - 1 \in 1..Degree)
    BY <1>0
  <2>3. j = Degree + 1 \/ (j # Degree + 1 /\ j \in 1..Degree)
    BY <1>0
  <2>4. (IF j = Degree + 1 THEN 0 ELSE g[j]) \in Int
    BY ZenonT(60), <1>0, <1>5, <2>3
  <2>5. (IF j = 1 THEN s ELSE g[j - 1]) \in Int
    BY ZenonT(60), <1>5, <2>2
  <2>6. l[j] = (IF j = 1 THEN s ELSE g[j - 1])
    BY <2>1, <2>4, <2>5
  <2>7. e[j] = (IF j = 1 THEN s ELSE c[j - 1])
    BY <1>0
  <2> HIDE DEF l, e, f
  <2>8. CASE j = 1
    BY ZenonT(60), <2>6, <2>7, <2>8 DEF Cong
  <2>9. CASE j # 1 /\ j - 1 \in 1..Degree
    BY ZenonT(60), <1>5, <2>6, <2>7, <2>9
  <2> QED  BY <2>2, <2>8, <2>9
<1> HIDE DEF l
<1>9. ASSUME NEW i \in 1..Degree PROVE Cong(EvaluatePoly(f, x[i]), y[i])
  <2>1. EvaluatePoly(f, x[i]) = Poly(e, Degree + 1, x[i]) /\ Ints(e, Degree + 1)
    <3>1. e = [j \in 1..(Degree + 1) |-> f[j - 1]]
      OBVIOUS
    <3> HIDE DEF e, f
    <3> QED  BY ZenonT(60), <1>1, <1>7, <3>1, EvaluatePolyIs
  <2> HIDE DEF e, f
  <2>2. Poly(e, Degree + 1, x[i]) = Poly(l, Degree + 1, x[i])
    <3>1. Ints(l, Degree + 1) /\ x[i] \in Int
      BY ZenonT(60), <1>1, <1>4
    <3>2. \A j \in 1..(Degree + 1) : Cong(e[j], l[j])
      BY ZenonT(60), <1>8
    <3> QED  BY ZenonT(60), <1>0, <2>1, <3>1, <3>2, PolyCong
  <2> QED  BY ZenonT(60), <1>4, <2>1, <2>2
<1> QED  BY ZenonT(60), <1>6, <1>9
=============================================================================
