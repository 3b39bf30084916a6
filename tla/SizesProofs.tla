---------------------------- MODULE SizesProofs ----------------------------
(***************************************************************************)
(* The size arithmetic for every allocation unit and every request within  *)
(* the exact range of float64.                                             *)
(***************************************************************************)
EXTENDS Sizes, TLAPS

\* Integer division as utils.go uses it.
LEMMA DivMod ==
    ASSUME NEW a \in Nat, NEW d \in Nat \ {0}
    PROVE  /\ a \div d \in Nat
           /\ a % d \in 0..(d - 1)
           /\ a = d * (a \div d) + (a % d)
  OBVIOUS

\* A quotient is determined by the multiple just below the dividend.
LEMMA QuotientUnique ==
    ASSUME NEW d \in Nat \ {0}, NEW p \in Nat, NEW q \in Nat,
           NEW b \in Nat \ {0},
           p * d >= b, (p - 1) * d < b, q * d >= b, (q - 1) * d < b
    PROVE  p = q
<1>1. ASSUME p < q PROVE FALSE
  <2>1. p <= q - 1 BY <1>1
  <2>2. p * d <= (q - 1) * d BY <2>1
  <2>3. QED BY <2>2
<1>2. ASSUME q < p PROVE FALSE
  <2>1. q <= p - 1 BY <1>2
  <2>2. q * d <= (p - 1) * d BY <2>1
  <2>3. QED BY <2>2
<1>3. QED BY <1>1, <1>2

\* roundUpSize returns the least number of units that hold the bytes.
LEMMA RoundUpLeast ==
    ASSUME NEW b \in Nat
    PROVE  /\ RoundUpGiB(b) \in Nat
           /\ RoundUpGiB(b) * GiB >= b
           /\ b > 0 => RoundUpGiB(b) >= 1 /\ (RoundUpGiB(b) - 1) * GiB < b
  BY SizesAssumption, DivMod DEF RoundUpGiB, roundUpSize

\* The quota is less than a unit larger than the request.
LEMMA RoundUpWithinUnit ==
    ASSUME NEW b \in Nat \ {0}
    PROVE  RoundUpGiB(b) * GiB < b + GiB
<1>1. PICK n \in Nat : n = RoundUpGiB(b) /\ (n - 1) * GiB < b BY RoundUpLeast
<1>2. n * GiB = (n - 1) * GiB + GiB /\ (n - 1) * GiB \in Int BY SizesAssumption
<1>3. QED BY <1>1, <1>2, SizesAssumption

\* math.Ceil of the quotient is the same number.
LEMMA CeilLeast ==
    ASSUME NEW b \in Nat
    PROVE  /\ CeilGiB(b) \in Nat
           /\ CeilGiB(b) * GiB >= b
           /\ b > 0 => CeilGiB(b) >= 1 /\ (CeilGiB(b) - 1) * GiB < b
<1>1. b + GiB - 1 \in Nat BY SizesAssumption
<1>2. QED BY <1>1, SizesAssumption, DivMod DEF CeilGiB

\* Within the exact range RoundOffBytes is RoundUpGiB in bytes, except that
\* 0 bytes become one unit.
LEMMA RoundOffIsRoundUp ==
    ASSUME NEW b \in 1..FloatExact
    PROVE  RoundOffBytes(b) = RoundUpGiB(b) * GiB
<1>0. /\ b \in Nat \ {0} /\ GiB \in Nat \ {0} /\ IntLimit \in Nat
      /\ FloatExact \in Nat /\ b <= FloatExact
  BY SizesAssumption
<1>1. ToFloat64(b) = b BY <1>0 DEF ToFloat64
<1>2. /\ RoundUpGiB(b) \in Nat
      /\ RoundUpGiB(b) * GiB >= b
      /\ (RoundUpGiB(b) - 1) * GiB < b
  BY <1>0, RoundUpLeast
<1>3. CASE b < GiB
  <2>1. RoundOffBytes(b) = GiB BY <1>1, <1>3 DEF RoundOffBytes
  <2>2. 1 * GiB >= b /\ (1 - 1) * GiB < b BY <1>0, <1>3
  <2>3. RoundUpGiB(b) = 1
    <3>1. 1 \in Nat OBVIOUS
    <3>2. QED BY <1>0, <2>2, <1>2, <3>1, QuotientUnique, Zenon
  <2>4. QED BY <1>0, <2>1, <2>3
<1>4. CASE ~(b < GiB)
  <2>1. CeilGiB(b) = RoundUpGiB(b)
    <3>1. /\ CeilGiB(b) \in Nat
          /\ CeilGiB(b) * GiB >= b
          /\ (CeilGiB(b) - 1) * GiB < b
      BY <1>0, CeilLeast
    <3>2. QED BY <1>0, <1>2, <3>1, QuotientUnique, Zenon
  <2>2. RoundUpGiB(b) * GiB < IntLimit
    <3>1. (RoundUpGiB(b) - 1) * GiB < b BY <1>0, RoundUpLeast
    <3>2. RoundUpGiB(b) * GiB = (RoundUpGiB(b) - 1) * GiB + GiB
      BY <1>0, RoundUpLeast
    <3>3. QED BY <1>0, <3>1, <3>2, RoundUpLeast, SizesAssumption
  <2>3. QED BY <1>1, <1>4, <2>1, <2>2 DEF RoundOffBytes, WrapInt64
<1>5. QED BY <1>3, <1>4

LEMMA RoundOffOfZero == RoundOffBytes(0) = GiB
  BY SizesAssumption DEF RoundOffBytes, ToFloat64

LEMMA RoundUpOfUnit == RoundUpGiB(GiB) = 1
<1>1. /\ GiB \in Nat \ {0} /\ 1 \in Nat
      /\ 1 * GiB >= GiB /\ (1 - 1) * GiB < GiB
  BY SizesAssumption
<1>2. /\ RoundUpGiB(GiB) \in Nat
      /\ RoundUpGiB(GiB) * GiB >= GiB
      /\ (RoundUpGiB(GiB) - 1) * GiB < GiB
  BY <1>1, RoundUpLeast
<1>3. QED BY <1>1, <1>2, QuotientUnique, Zenon

LEMMA RoundUpOfZero == RoundUpGiB(0) = 0
  BY SizesAssumption DEF RoundUpGiB, roundUpSize

\* A whole number of units is its own number of units.
LEMMA RoundUpOfMultiple ==
    ASSUME NEW n \in Nat \ {0}
    PROVE  RoundUpGiB(n * GiB) = n
<1>1. n * GiB \in Nat \ {0} BY SizesAssumption
<1>2. n * GiB >= n * GiB /\ (n - 1) * GiB < n * GiB BY SizesAssumption
<1>3. /\ RoundUpGiB(n * GiB) \in Nat
      /\ RoundUpGiB(n * GiB) * GiB >= n * GiB
      /\ (RoundUpGiB(n * GiB) - 1) * GiB < n * GiB
  BY <1>1, RoundUpLeast
<1>4. QED BY <1>1, <1>2, <1>3, SizesAssumption, QuotientUnique, Zenon

\* Rounding twice, as CreateVolume does, is rounding once.
LEMMA RoundTwice ==
    ASSUME NEW b \in 1..FloatExact
    PROVE  RoundUpGiB(RoundOffBytes(b)) = RoundUpGiB(b)
<1>1. RoundUpGiB(b) \in Nat \ {0} BY RoundUpLeast, SizesAssumption
<1>2. QED BY <1>1, RoundUpOfMultiple, RoundOffIsRoundUp

-----------------------------------------------------------------------------

\* A multiple that is at least as large has a factor at least as large.
LEMMA FactorOrder ==
    ASSUME NEW d \in Nat \ {0}, NEW p \in Int, NEW q \in Int, p * d < q * d
    PROVE  p < q
<1>1. ASSUME q <= p PROVE FALSE
  <2>1. q * d <= p * d BY <1>1
  <2>2. QED BY <2>1
<1>2. QED BY <1>1

\* Rounding to a multiple moves a number by half the distance at most, and
\* never past another multiple.
LEMMA NearestFacts ==
    ASSUME NEW b \in Nat, NEW u \in Nat \ {0}
    PROVE  /\ NearestMultiple(b, u) \in Nat
           /\ 2 * (b - NearestMultiple(b, u)) <= u
           /\ \A m \in Nat : m * u <= b => m * u <= NearestMultiple(b, u)
           /\ \A m \in Nat : m * u >= b => m * u >= NearestMultiple(b, u)
<1>1. PICK q \in Nat, r \in 0..(u - 1) :
          q = b \div u /\ r = b % u /\ b = u * q + r
  BY DivMod
<1>2. b = q * u + r /\ q * u \in Nat /\ (q + 1) * u = q * u + u BY <1>1
<1>3. ASSUME NEW m \in Nat, m * u <= b PROVE m * u <= q * u
  <2>1. m * u < (q + 1) * u BY <1>1, <1>2, <1>3
  <2>2. m < q + 1 BY <2>1, FactorOrder
  <2>3. m <= q BY <2>2
  <2>4. QED BY <2>3
<1>4. CASE NearestMultiple(b, u) = q * u /\ 2 * r <= u
  <2>1. ASSUME NEW m \in Nat, m * u >= b PROVE m * u >= q * u
    BY <1>1, <1>2, <2>1
  <2>2. QED BY <1>2, <1>3, <1>4, <2>1
<1>5. CASE NearestMultiple(b, u) = (q + 1) * u /\ 2 * r >= u
  <2>1. ASSUME NEW m \in Nat, m * u >= b PROVE m * u >= (q + 1) * u
    <3>1. q * u < m * u BY <1>1, <1>2, <1>5, <2>1
    <3>2. q < m BY <3>1, FactorOrder
    <3>3. q + 1 <= m BY <3>2
    <3>4. QED BY <3>3
  <2>2. 2 * (b - (q + 1) * u) <= u BY <1>1, <1>2
  <2>3. ASSUME NEW m \in Nat, m * u <= b PROVE m * u <= (q + 1) * u
    BY <1>2, <1>3, <2>3
  <2>4. (q + 1) * u \in Nat BY <1>2
  <2>5. QED BY <1>5, <2>1, <2>2, <2>3, <2>4, Zenon
<1>6. QED BY <1>1, <1>4, <1>5 DEF NearestMultiple

\* Beyond the exact floats RoundOffBytes still returns a whole number of
\* units without an overflow: not one too many, and short of the request by
\* at most half the distance of two floats.
LEMMA RoundOffBeyondExact ==
    ASSUME NEW b \in Nat, FloatExact < b, b <= IntLimit - GiB
    PROVE  \E n \in Nat \ {0} :
              /\ RoundOffBytes(b) = n * GiB
              /\ 2 * (b - n * GiB) <= Ulp(b)
              /\ n * GiB < b + GiB
<1>0. /\ GiB \in Nat \ {0} /\ FloatExact \in Nat /\ IntLimit \in Nat
      /\ GiB <= FloatExact /\ b > GiB
  BY SizesAssumption
<1>1. Ulp(b) \in Nat \ {0} /\ GiB % Ulp(b) = 0 BY <1>0, UlpAssumption
<1>2. PICK u \in Nat \ {0} : u = Ulp(b) BY <1>1
<1>3. PICK g \in Nat : GiB = g * u
  <2>1. PICK g \in Nat : GiB = u * g + (GiB % u) BY <1>0, <1>2, DivMod
  <2>2. GiB % u = 0 BY <1>1, <1>2
  <2>3. GiB = g * u BY <1>0, <2>1, <2>2
  <2>4. QED BY <2>3
<1>4. PICK k \in Nat : IntLimit = k * GiB
  <2>1. PICK k \in Nat : IntLimit = GiB * k + (IntLimit % GiB) BY <1>0, DivMod
  <2>2. IntLimit = k * GiB BY <1>0, <2>1, UlpAssumption
  <2>3. QED BY <2>2
<1>5. PICK f \in Nat : f = ToFloat64(b) /\ f = NearestMultiple(b, u)
  BY <1>0, <1>2, NearestFacts DEF ToFloat64
<1>6. 2 * (b - f) <= u BY <1>5, NearestFacts
<1>7. f >= GiB
  <2>1. g * u <= b BY <1>0, <1>3
  <2>2. g * u <= NearestMultiple(b, u) BY <2>1, NearestFacts, Zenon
  <2>3. QED BY <1>0, <1>3, <1>5, <2>2
<1>8. PICK n \in Nat : n = RoundUpGiB(b) /\ n * GiB >= b /\ (n - 1) * GiB < b
  BY <1>0, RoundUpLeast
<1>9. f <= n * GiB
  <2>1. n * GiB = (n * g) * u /\ n * g \in Nat BY <1>3
  <2>2. QED BY <1>5, <1>8, <2>1, NearestFacts
<1>10. n * GiB < IntLimit
  <2>1. IntLimit - GiB = (k - 1) * GiB BY <1>0, <1>4
  <2>2. (n - 1) * GiB < (k - 1) * GiB BY <1>0, <1>8, <2>1
  <2>3. n - 1 < k - 1 BY <1>0, <2>2, FactorOrder
  <2>4. n <= k - 1 BY <2>3
  <2>5. n * GiB <= (k - 1) * GiB BY <1>0, <2>4
  <2>6. QED BY <1>0, <2>1, <2>5
<1>11. PICK c \in Nat \ {0} : c = CeilGiB(f) /\ c * GiB >= f /\ (c - 1) * GiB < f
  BY <1>0, <1>7, CeilLeast
<1>12. c * GiB <= n * GiB
  <2>1. (c - 1) * GiB < n * GiB BY <1>0, <1>9, <1>11
  <2>2. c - 1 < n BY <1>0, <2>1, FactorOrder
  <2>3. c <= n BY <2>2
  <2>4. QED BY <1>0, <2>3
<1>13. RoundOffBytes(b) = c * GiB
  BY <1>0, <1>5, <1>7, <1>10, <1>11, <1>12 DEF RoundOffBytes, WrapInt64
<1>14. 2 * (b - c * GiB) <= u BY <1>0, <1>6, <1>11
<1>15. c * GiB < b + GiB
  <2>1. n * GiB < b + GiB BY <1>0, <1>8, RoundUpWithinUnit
  <2>2. QED BY <1>0, <1>12, <2>1
<1>16. QED BY <1>2, <1>13, <1>14, <1>15
=============================================================================
