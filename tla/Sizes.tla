------------------------------- MODULE Sizes -------------------------------
(***************************************************************************)
(* The two roundings of volume sizes in pkg/common/utils.go.               *)
(*                                                                         *)
(* RoundUpGiB is integer arithmetic and gives the quota passed to          *)
(* fcfs_pool, in GiB.  RoundOffBytes goes through float64 and gives the    *)
(* number of bytes reported to the caller.  The widths are parameters so   *)
(* that TLC can reach both ends of them: in the code GiB = 2^30, the       *)
(* integers a float64 represents exactly end at FloatExact = 2^53, and     *)
(* int64 ends at IntLimit = 2^63.                                          *)
(***************************************************************************)
EXTENDS Integers

CONSTANTS
    GiB,         \* bytes per allocation unit
    FloatExact,  \* integers up to here survive float64(bytes)
    IntLimit     \* one more than the largest int64

ASSUME SizesAssumption ==
    /\ GiB \in Nat \ {0}
    /\ FloatExact \in Nat
    /\ IntLimit \in Nat
    /\ GiB <= FloatExact
    /\ FloatExact + GiB <= IntLimit

-----------------------------------------------------------------------------

\* Mutant: the quotient without the correction for a remainder.
RoundDownSize(volumeSizeBytes, unit) == volumeSizeBytes \div unit

\* roundUpSize for the non-negative sizes of a CapacityRange.
roundUpSize(volumeSizeBytes, unit) ==
    IF volumeSizeBytes % unit > 0
    THEN volumeSizeBytes \div unit + 1
    ELSE volumeSizeBytes \div unit

RoundUpGiB(volumeSizeBytes) == roundUpSize(volumeSizeBytes, GiB)

-----------------------------------------------------------------------------

\* Distance between neighbouring floats at b: the least power of two that
\* brings b into the range of exact integers (an int64 has 10 bits more than
\* the mantissa).
Ulp(b) == 2^(CHOOSE n \in 0..10 :
                /\ b < FloatExact * 2^n
                /\ \A m \in 0..10 : b < FloatExact * 2^m => n <= m)

\* A unit, and with it int64, is a whole number of the distances between
\* neighbouring floats: 2^30 bytes and at most 2^10.
ASSUME UlpAssumption ==
    /\ IntLimit % GiB = 0
    /\ \A b \in (FloatExact + 1)..(IntLimit - 1) :
          Ulp(b) \in Nat \ {0} /\ GiB % Ulp(b) = 0

\* The multiple of u nearest to b, ties to the even multiple.
NearestMultiple(b, u) ==
    LET q == b \div u
        r == b % u
        up == 2 * r > u \/ (2 * r = u /\ q % 2 = 1)
    IN  IF up THEN (q + 1) * u ELSE q * u

\* Mutant: a narrower float.
ToFloatNarrow(b) == IF b <= FloatExact THEN b ELSE NearestMultiple(b, 4 * Ulp(b))

\* float64(b) as an integer: exact up to FloatExact, rounded beyond it.
ToFloat64(b) == IF b <= FloatExact THEN b ELSE NearestMultiple(b, Ulp(b))

\* Two's complement wrap of an int64 product.
WrapInt64(n) == IF n < IntLimit THEN n ELSE n - 2 * IntLimit

\* math.Ceil of a float divided by the unit.  Dividing a float by a power of
\* two is exact, so the ceiling is that of the rational quotient.
CeilGiB(f) == (f + GiB - 1) \div GiB

RoundOffBytes(b) ==
    IF ToFloat64(b) < GiB
    THEN GiB
    ELSE WrapInt64(CeilGiB(ToFloat64(b)) * GiB)

GiBToBytes(volumeSizeGiB) == volumeSizeGiB * GiB
=============================================================================
