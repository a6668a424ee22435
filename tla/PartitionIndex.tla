--------------------------- MODULE PartitionIndex ---------------------------
(***************************************************************************)
(* get_ith_partition and get_partition_idx of src/cc_sketch_alg.cpp.  Both *)
(* compute with div_factor, the double nearest to length / divisions, and  *)
(* round the result up or down.  This module says which integer comes out, *)
(* with the rounding of both floating point operations accounted for:      *)
(* a result that is not near an integer rounds as the exact quotient does, *)
(* and one that is an integer may miss it by the error of div_factor.      *)
(*                                                                         *)
(* With g = floor(log2(length / divisions)) the mantissa of div_factor is  *)
(* length * 2^(52-g) / divisions rounded to an integer, so that            *)
(*   div_factor = (length / divisions) * (1 + r / (length * 2^(52-g)))     *)
(* where r is the residue of that rounding.  A quotient that is no integer *)
(* misses one by 1 / divisions or 1 / length at least, far more than the   *)
(* errors for any 32 bit length (node_id_t) and fewer than 2^16 threads.   *)
(***************************************************************************)
EXTENDS Integers

\* The e with 2^e <= n/d < 2^(e+1), for positive n and d; where n < d, by the
\* quotient d/n rounded up.
Log2(n, d) ==
  LET q == n \div d
      r == (d + n - 1) \div n
  IN  IF n >= d THEN CHOOSE e \in 0 .. n : 2^e <= q /\ q < 2^(e + 1)
                ELSE -(CHOOSE e \in 1 .. d : 2^(e - 1) < r /\ r <= 2^e)

Residue(length, divisions) ==
  LET k == 52 - Log2(length, divisions)
      PowMod[i \in Nat] == IF i = 0 THEN 1 % divisions
                                    ELSE (2 * PowMod[i - 1]) % divisions
      s == (length * PowMod[k]) % divisions
  IN  IF 2 * s < divisions THEN -s ELSE divisions - s

\* get_ith_partition: partition i is the range from bound i to bound i + 1, with
\* bounds ceil(div_factor * i).  The product of an exact quotient M is rounded to a
\* neighbour above M if the error is more than half a unit in the last place.
Bound(length, i, divisions) ==
  LET M == (length * i) \div divisions
      e == Log2(M, 1) - Log2(length, divisions)
  IN  IF (length * i) % divisions # 0 THEN M + 1
      ELSE IF M = 0 THEN 0
      ELSE IF 2 * i * Residue(length, divisions) > divisions * 2^e THEN M + 1
      ELSE M

\* get_partition_idx: idx / div_factor, truncated.  An exact quotient J is rounded to a neighbour
\* below J if the error is more than half a unit there, and units are half as
\* large below a power of two.
GetPartitionIdx(length, idx, divisions) ==
  LET J == (idx * divisions) \div length
      e == Log2(J, 1) - Log2(length, divisions)
      err == (IF J = 2^Log2(J, 1) THEN 4 ELSE 2) * J * Residue(length, divisions)
  IN  IF (idx * divisions) % length # 0 \/ J = 0 THEN J
      ELSE IF e >= 0 /\ err > length * 2^e THEN J - 1
      ELSE IF e < 0 /\ err * 2^(-e) > length THEN J - 1
      ELSE J
=============================================================================
