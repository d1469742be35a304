------------------------------ MODULE Numbers -------------------------------
(***************************************************************************)
(* The machine numbers of the query processor: (int)n of a 64-bit number   *)
(* and (float)n, which keeps FloatBits significant bits and rounds to the  *)
(* nearest, a tie to the even one.                                         *)
(***************************************************************************)
EXTENDS Integers

CONSTANTS
  INT32_MAX,  \* largest INT (2^31 - 1 in the code); larger literals are BIGINT
  FloatBits   \* significant bits of a float (24 in the code)

ASSUME NumbersAssumption == INT32_MAX \in Nat \ {0, 1} /\ FloatBits \in Nat \ {0}

(* (int32_t)n                                                              *)
Int32(n) == ((n + INT32_MAX + 1) % (2 * (INT32_MAX + 1))) - (INT32_MAX + 1)
IsInt32(n) == n \in (-INT32_MAX - 1)..INT32_MAX

Magnitude(n) == IF n < 0 THEN -n ELSE n

(* The float nearest to n.                                                 *)
ToFloat(n) ==
  LET m == Magnitude(n)
      excess == CHOOSE e \in 0..m : m < 2^(FloatBits + e) /\ (e = 0 \/ m >= 2^(FloatBits + e - 1))
      ulp == 2^excess
      up == 2 * (m % ulp) > ulp \/ (2 * (m % ulp) = ulp /\ (m \div ulp) % 2 = 1)
      nearest == ulp * (m \div ulp + IF up THEN 1 ELSE 0)
  IN  IF n < 0 THEN -nearest ELSE nearest

IsFloat(n) == ToFloat(n) = n
=============================================================================
