--------------------------- MODULE PoolMathProofs ---------------------------
(***************************************************************************)
(* What the functions of math.rs return, for every argument: the bounds    *)
(* that every rounding respects.  The proofs about DeepPool use these and  *)
(* nothing else of PoolMath.                                               *)
(***************************************************************************)
EXTENDS MathLaws, WellFoundedInduction, TLAPS

(* Quotient and remainder.                                                 *)
LEMMA DivFacts ==
  ASSUME NEW a \in Nat, NEW b \in Nat \ {0}
  PROVE  /\ a \div b \in Nat
         /\ b * (a \div b) <= a
         /\ a < b * (a \div b) + b
  OBVIOUS

LEMMA ModFacts ==
  ASSUME NEW a \in Nat, NEW b \in Nat \ {0}
  PROVE  a % b \in 0..(b - 1) /\ a % b <= a /\ (a < b => a % b = a)
<1>1. a % b \in 0..(b - 1) /\ (a < b => a % b = a)
  OBVIOUS
<1> QED BY <1>1

(* Products are monotone, and cancel.                                      *)
LEMMA MulMono ==
  ASSUME NEW a \in Nat, NEW b \in Nat, NEW c \in Nat, NEW d \in Nat,
         a <= b, c <= d
  PROVE  a * c <= b * d
<1>1. a * c <= b * c
  OBVIOUS
<1>2. b * c <= b * d
  OBVIOUS
<1> QED BY <1>1, <1>2

LEMMA MulPos ==
  ASSUME NEW a \in Nat, NEW b \in Nat
  PROVE  a * b \in Nat /\ (a > 0 /\ b > 0 => a * b > 0)
OBVIOUS

LEMMA MulCancel ==
  ASSUME NEW a \in Nat, NEW b \in Nat, NEW c \in Nat \ {0}, a * c <= b * c
  PROVE  a <= b
OBVIOUS

(* A larger dividend has no smaller quotient.                              *)
LEMMA DivMono ==
  ASSUME NEW a \in Nat, NEW c \in Nat, NEW b \in Nat \ {0}, a <= c
  PROVE  a \div b <= c \div b
<1> DEFINE p == a \div b
           q == c \div b
<1>1. p \in Nat /\ q \in Nat /\ b * p <= a /\ c < b * q + b
  BY DivFacts
<1> HIDE DEF p, q
<1>2. SUFFICES ASSUME q + 1 <= p PROVE FALSE
  BY <1>1 DEF p, q
<1>3. b * (q + 1) <= b * p
  BY <1>1, <1>2, MulMono
<1> QED BY <1>1, <1>3

(* A remainder is what is left of a multiple.                              *)
LEMMA ModMultiple ==
  ASSUME NEW a \in Int, NEW b \in Nat \ {0}
  PROVE  /\ a % b \in 0..(b - 1)
         /\ a \div b \in Int
         /\ a = b * (a \div b) + (a % b)
OBVIOUS

(* Two numbers below the modulus that differ by a multiple of it are one.  *)
LEMMA ModUnique ==
  ASSUME NEW b \in Nat \ {0}, NEW v \in 0..(b - 1), NEW w \in 0..(b - 1),
         NEW k \in Int, v = b * k + w
  PROVE  v = w
<1>1. CASE k = 0
  BY <1>1
<1>2. CASE k >= 1
  <2>1. b * 1 <= b * k
    BY <1>2, MulMono
  <2>2. b * k \in Int
    OBVIOUS
  <2> QED BY <2>1, <2>2
<1>3. CASE k <= -1
  <2>1. PICK j \in Nat : j >= 1 /\ k = -j
    BY <1>3
  <2>2. b * 1 <= b * j
    BY <2>1, MulMono
  <2>3. b * k = -(b * j) /\ b * j \in Nat
    BY <2>1, MulPos
  <2> QED BY <2>2, <2>3
<1> QED BY <1>1, <1>2, <1>3

(* Differences are exact through any number of wraps of the minuend.       *)
LEMMA WrappedDifference ==
  ASSUME NEW M \in Nat \ {0}, NEW start \in Int, NEW cum \in Int,
         NEW x \in Nat, NEW total \in Nat, NEW head, NEW diff,
         total = (cum - start) % M, head = (cum + x) % M, diff = (head - start) % M,
         total + x < M
  PROVE  diff = total + x
<1> DEFINE i == (cum - start) \div M
           j == (cum + x) \div M
           k == (head - start) \div M
<1>1. i \in Int /\ cum - start = M * i + total
  <2>1. cum - start \in Int
    OBVIOUS
  <2> QED BY <2>1, ModMultiple
<1>2. head \in 0..(M - 1) /\ j \in Int /\ cum + x = M * j + head
  <2>1. cum + x \in Int
    OBVIOUS
  <2> QED BY <2>1, ModMultiple
<1>3. diff \in 0..(M - 1) /\ k \in Int /\ head - start = M * k + diff
  <2>1. head - start \in Int
    BY <1>2
  <2> QED BY <2>1, ModMultiple
<1> HIDE DEF i, j, k
<1>4. total + x = M * ((j - i) + k) + diff
  <2>1. M * ((j - i) + k) = M * j - M * i + M * k
    BY <1>1, <1>2, <1>3
  <2> DEFINE mi == M * i
             mj == M * j
             mk == M * k
  <2>2. mi \in Int /\ mj \in Int /\ mk \in Int
    BY <1>1, <1>2, <1>3
  <2>3. cum - start = mi + total /\ cum + x = mj + head /\ head - start = mk + diff
    BY <1>1, <1>2, <1>3
  <2>4. M * ((j - i) + k) = mj - mi + mk
    BY <2>1
  <2> HIDE DEF mi, mj, mk
  <2>5. head \in Int /\ diff \in Int
    BY <1>2, <1>3
  <2>6. total + x = (mj - mi + mk) + diff
    BY <2>2, <2>3, <2>5
  <2> QED BY <2>4, <2>6
<1>5. total + x \in 0..(M - 1) /\ (j - i) + k \in Int
  BY <1>1, <1>2, <1>3
<1> QED BY <1>3, <1>4, <1>5, ModUnique

-----------------------------------------------------------------------------
(* Every natural number has a floor square root, and integer_sqrt is it:   *)
(* the successors of the root are the least number whose square exceeds n. *)
LEMMA FloorSqrtExists ==
  ASSUME NEW n \in Nat
  PROVE  \E r \in 0..n : IsFloorSqrt(r, n)
<1> DEFINE T == {t \in Nat : n < (t + 1) * (t + 1)}
<1>1. n \in T
  <2>1. n + 1 <= (n + 1) * (n + 1)
    BY MulMono
  <2> QED BY <2>1
<1>2. \E t \in T : \A s \in T : ~(<<s, t>> \in OpToRel(<, Nat))
  <2>1. T \subseteq Nat /\ T # {}
    BY <1>1
  <2> HIDE DEF T
  <2> QED BY <2>1, NatLessThanWellFounded, WFMin
<1>3. PICK r \in T : \A s \in T : ~(<<s, r>> \in OpToRel(<, Nat))
  BY <1>2
<1>4. \A s \in T : ~(s < r)
  BY <1>3 DEF OpToRel
<1>7. r \in Nat /\ n < (r + 1) * (r + 1)
  BY <1>3
<1>5. r * r <= n
  <2>1. CASE r = 0
    BY <2>1
  <2>2. CASE r # 0
    <3>1. PICK s \in Nat : s + 1 = r
      <4> HIDE DEF T
      <4> QED BY <1>7, <2>2
    <3>2. s \notin T
      <4>1. s < r
        BY <3>1, <1>7
      <4> HIDE DEF T
      <4> QED BY <4>1, <1>4
    <3>3. ~(n < (s + 1) * (s + 1))
      BY <3>1, <3>2
    <3>4. ~(n < r * r) /\ r * r \in Nat
      BY <3>1, <3>3, <1>7
    <3> HIDE DEF T
    <3> QED BY <3>4
  <2> QED BY <2>1, <2>2
<1>6. r \in 0..n
  <2> HIDE DEF T
  <2>1. r * r \in Nat /\ r <= r * r
    BY <1>7, MulPos
  <2> QED BY <1>7, <1>5, <2>1
<1> QED BY <1>5, <1>6, <1>7 DEF IsFloorSqrt

(* There is only one: what module IntegerSqrt shows its loop to return is  *)
(* integer_sqrt(n).                                                        *)
LEMMA FloorSqrtUnique ==
  ASSUME NEW n \in Nat, NEW r \in Nat, NEW s \in Nat,
         IsFloorSqrt(r, n), IsFloorSqrt(s, n)
  PROVE  r = s
<1>1. ASSUME NEW a \in Nat, NEW b \in Nat, a < b,
             n < (a + 1) * (a + 1), b * b <= n
      PROVE  FALSE
  <2>1. (a + 1) * (a + 1) <= b * b
    BY <1>1, MulMono
  <2> QED BY <1>1, <2>1, MulPos
<1> QED BY <1>1 DEF IsFloorSqrt

LEMMA IntegerSqrtValue ==
  ASSUME NEW n \in Nat
  PROVE  integer_sqrt(n) \in Nat /\ IsFloorSqrt(integer_sqrt(n), n)
BY FloorSqrtExists DEF integer_sqrt

(* The root of a larger number is no smaller.                              *)
LEMMA IntegerSqrtMono ==
  ASSUME NEW m \in Nat, NEW n \in Nat, m <= n
  PROVE  integer_sqrt(m) <= integer_sqrt(n)
<1> DEFINE p == integer_sqrt(m)
           q == integer_sqrt(n)
<1>1. p \in Nat /\ q \in Nat /\ p * p <= m /\ n < (q + 1) * (q + 1)
  BY IntegerSqrtValue DEF IsFloorSqrt
<1> HIDE DEF p, q
<1>2. SUFFICES ASSUME q + 1 <= p PROVE FALSE
  BY <1>1 DEF p, q
<1>3. (q + 1) * (q + 1) <= p * p
  BY <1>1, <1>2, MulMono
<1> QED BY <1>1, <1>3, MulPos

-----------------------------------------------------------------------------
(* The fee on a nonzero amount is at least one unit and at most all of it, *)
(* so the subtraction that follows never underflows.                       *)
LEMMA SwapFeeBound ==
  ASSUME NEW amount \in Nat, amount > 0, calc_swap_fee(amount) # None
  PROVE  calc_swap_fee(amount) \in 1..amount
<1> DEFINE q == (amount * SWAP_FEE_BPS) \div FEE_DENOMINATOR
<1>1. amount * SWAP_FEE_BPS \in Nat /\ amount * SWAP_FEE_BPS <= amount * FEE_DENOMINATOR
  BY MathAssumption, MulMono, MulPos
<1>2. q \in Nat /\ FEE_DENOMINATOR * q <= amount * SWAP_FEE_BPS
  BY <1>1, MathAssumption, DivFacts
<1>3. q * FEE_DENOMINATOR <= amount * FEE_DENOMINATOR
  BY <1>1, <1>2, MathAssumption
<1>4. q <= amount
  BY <1>2, <1>3, MathAssumption, MulCancel
<1> QED BY <1>2, <1>4, MathAssumption DEF calc_swap_fee, None, Larger, TryU64

(* A swap pays less than the reserve it pays from, and the constant        *)
(* product does not shrink: rounding favours the pool.                     *)
LEMMA SwapOutputBound ==
  ASSUME NEW e \in Nat, NEW in \in Nat \ {0}, NEW out \in Nat
  PROVE  LET r == calc_swap_output(e, in, out)
         IN  /\ r \in Nat
             /\ (in + e) * r <= e * out
             /\ (in + e) * (out - r) >= in * out
             /\ out > 0 => r < out
<1> DEFINE q == (e * out) \div (in + e)
           r == calc_swap_output(e, in, out)
<1>1. e * out \in Nat /\ in + e \in Nat \ {0}
  BY MulPos
<1>2. q \in Nat /\ (in + e) * q <= e * out
  BY <1>1, DivFacts
<1>3. r = q % (U64_MAX + 1)
  BY <1>1 DEF calc_swap_output, AsU64
<1> HIDE DEF q, r
<1>4. r \in Nat /\ r <= q
  BY <1>2, <1>3, MathAssumption, ModFacts
<1>5. (in + e) * r <= (in + e) * q
  BY <1>1, <1>2, <1>4, MulMono
<1>6. (in + e) * r <= e * out
  BY <1>1, <1>2, <1>4, <1>5, MulPos
<1>7. (in + e) * (out - r) = (in * out + e * out) - (in + e) * r
  BY <1>4
<1>8. (in + e) * (out - r) >= in * out
  BY <1>1, <1>4, <1>6, <1>7, MulPos
<1>9. out > 0 => r < out
  <2> SUFFICES ASSUME out > 0, out <= r
               PROVE  FALSE
    BY <1>4
  <2>1. (in + e) * out <= (in + e) * r
    BY <1>1, <1>4, MulMono
  <2>2. in * out > 0
    BY MulPos
  <2>3. (in + e) * out = in * out + e * out
    OBVIOUS
  <2> QED BY <1>1, <1>4, <1>6, <2>1, <2>2, <2>3, MulPos
<1> QED BY <1>4, <1>6, <1>8, <1>9 DEF r

(* The cast `as u64` in calc_swap_output never drops a bit: the output is  *)
(* the exact quotient whenever the reserve it is paid from is a u64.       *)
THEOREM SwapOutputNotTruncated ==
  ASSUME NEW e \in Nat, NEW in \in Nat \ {0}, NEW out \in 0..U64_MAX
  PROVE  calc_swap_output(e, in, out) = (e * out) \div (in + e)
<1> DEFINE q == (e * out) \div (in + e)
<1>1. e * out \in Nat /\ in + e \in Nat \ {0} /\ out \in Nat
  BY MulPos, MathAssumption
<1>2. q \in Nat /\ (in + e) * q <= e * out
  BY <1>1, DivFacts
<1>3. e * out <= (in + e) * out
  BY <1>1, MulMono
<1> HIDE DEF q
<1>4. q * (in + e) <= out * (in + e)
  BY <1>1, <1>2, <1>3, MulPos
<1>5. q <= out
  BY <1>1, <1>2, <1>4, MulCancel
<1>6. q % (U64_MAX + 1) = q
  BY <1>2, <1>5, MathAssumption, ModFacts
<1> QED BY <1>1, <1>6 DEF calc_swap_output, AsU64, q

(* Minting and redeeming round down, charging rounds up.                   *)
LEMMA LpMintBound ==
  ASSUME NEW s \in Nat, NEW d \in Nat, NEW r \in Nat \ {0},
         calc_lp_mint(s, d, r) # None
  PROVE  calc_lp_mint(s, d, r) \in Nat /\ calc_lp_mint(s, d, r) * r <= s * d
<1>1. s * d \in Nat
  BY MulPos
<1>2. (s * d) \div r \in Nat /\ r * ((s * d) \div r) <= s * d
  BY <1>1, DivFacts
<1>3. calc_lp_mint(s, d, r) = (s * d) \div r
  BY DEF calc_lp_mint, TryU64
<1> QED BY <1>2, <1>3

LEMMA LpRedeemBound ==
  ASSUME NEW a \in Nat, NEW r \in Nat, NEW s \in Nat \ {0},
         calc_lp_redeem(a, r, s) # None
  PROVE  calc_lp_redeem(a, r, s) \in Nat /\ calc_lp_redeem(a, r, s) * s <= a * r
<1>1. a * r \in Nat
  BY MulPos
<1>2. (a * r) \div s \in Nat /\ s * ((a * r) \div s) <= a * r
  BY <1>1, DivFacts
<1>3. calc_lp_redeem(a, r, s) = (a * r) \div s
  BY DEF calc_lp_redeem, TryU64
<1> QED BY <1>2, <1>3

LEMMA CeilDivBound ==
  ASSUME NEW a \in Nat, NEW b \in Nat \ {0}
  PROVE  /\ CeilDiv(a, b) \in Nat
         /\ a <= b * CeilDiv(a, b)
         /\ b * CeilDiv(a, b) < a + b
<1>1. a + (b - 1) \in Nat
  OBVIOUS
<1>2. CeilDiv(a, b) \in Nat /\ b * CeilDiv(a, b) <= a + (b - 1)
      /\ a + (b - 1) < b * CeilDiv(a, b) + b
  BY <1>1, DivFacts DEF CeilDiv
<1> QED BY <1>2

LEMMA ProportionalCeilBound ==
  ASSUME NEW i \in Nat, NEW a \in Nat \ {0}, NEW b \in Nat,
         calc_proportional_ceil(i, a, b) # None
  PROVE  /\ calc_proportional_ceil(i, a, b) \in Nat
         /\ i * b <= calc_proportional_ceil(i, a, b) * a
<1>1. i * b \in Nat
  BY MulPos
<1>2. calc_proportional_ceil(i, a, b) = CeilDiv(i * b, a)
  BY DEF calc_proportional_ceil, TryU64
<1> QED BY <1>1, <1>2, CeilDivBound

(* More in never costs less out: the ceiling is monotonic in the input.    *)
LEMMA ProportionalCeilMono ==
  ASSUME NEW i \in Nat, NEW j \in Nat, i <= j, NEW a \in Nat \ {0}, NEW b \in Nat,
         calc_proportional_ceil(i, a, b) # None, calc_proportional_ceil(j, a, b) # None
  PROVE  calc_proportional_ceil(i, a, b) <= calc_proportional_ceil(j, a, b)
<1>1. i * b \in Nat /\ j * b \in Nat /\ i * b <= j * b
  BY MulPos, MulMono
<1>2. CeilDiv(i * b, a) <= CeilDiv(j * b, a)
  <2> DEFINE p == i * b
             q == j * b
  <2>1. p \in Nat /\ q \in Nat /\ p <= q
    BY <1>1
  <2> HIDE DEF p, q
  <2>2. p + (a - 1) \in Nat /\ q + (a - 1) \in Nat /\ p + (a - 1) <= q + (a - 1)
    BY <2>1
  <2>3. CeilDiv(p, a) <= CeilDiv(q, a)
    BY <2>2, DivMono DEF CeilDiv
  <2> QED BY <2>3 DEF p, q
<1> QED BY <1>2 DEF calc_proportional_ceil, TryU64

LEMMA CreatorLockBound ==
  ASSUME NEW n \in Nat
  PROVE  /\ CreatorLock(n) \in Nat
         /\ n * LP_LOCK_CREATOR_BPS >= 10000 => CreatorLock(n) > 0
<1>1. n * LP_LOCK_CREATOR_BPS \in Nat
  BY MathAssumption, MulPos
<1> QED BY <1>1, DivFacts DEF CreatorLock

LEMMA ProviderLockBound ==
  ASSUME NEW n \in Nat
  PROVE  ProviderLock(n) \in Nat \ {0}
<1>1. n * LP_LOCK_PROVIDER_BPS \in Nat
  BY MathAssumption, MulPos
<1> QED BY <1>1, DivFacts DEF ProviderLock, Larger

-----------------------------------------------------------------------------
(* The laws of MathLaws, for every size of u64 and every fee that          *)
(* MathAssumption and OracleAssumption allow.                              *)

(* A quotient is the only number between its two bounds.                   *)
LEMMA DivUnique ==
  ASSUME NEW a \in Nat, NEW b \in Nat \ {0}, NEW q \in Nat,
         b * q <= a, a < b * q + b
  PROVE  a \div b = q
<1> DEFINE p == a \div b
<1>1. p \in Nat /\ b * p <= a /\ a < b * p + b
  BY DivFacts
<1> HIDE DEF p
<1>2. q < p + 1
  <2> SUFFICES ASSUME p + 1 <= q PROVE FALSE
    BY <1>1
  <2>1. b * (p + 1) <= b * q
    BY <1>1, MulMono
  <2> QED BY <1>1, <2>1
<1>3. p < q + 1
  <2> SUFFICES ASSUME q + 1 <= p PROVE FALSE
    BY <1>1
  <2>1. b * (q + 1) <= b * p
    BY <1>1, MulMono
  <2> QED BY <1>1, <2>1
<1> QED BY <1>1, <1>2, <1>3 DEF p

(* A quotient is bounded by what the dividend's product was bounded by.    *)
LEMMA DivBound ==
  ASSUME NEW a \in Nat, NEW b \in Nat \ {0}, NEW m \in Nat, a <= b * m
  PROVE  a \div b \in 0..m
<1> DEFINE p == a \div b
<1>1. p \in Nat /\ b * p <= a
  BY DivFacts
<1> HIDE DEF p
<1>2. p * b <= m * b
  BY <1>1
<1>3. p <= m
  BY <1>1, <1>2, MulCancel
<1> QED BY <1>1, <1>3 DEF p

(* Amounts are naturals.                                                   *)
LEMMA U64IsNat == U64 \subseteq Nat /\ Positive \subseteq Nat \ {0}
BY MathAssumption DEF U64, Positive

-----------------------------------------------------------------------------
(* calc_swap_fee: for every amount whose fee is computed at all, the fee   *)
(* is between one unit and the amount.                                     *)
THEOREM FeeConservation == verify_swap_fee_conservation
<1> SUFFICES ASSUME NEW amount \in Positive, calc_swap_fee(amount) # None
             PROVE  /\ calc_swap_fee(amount) \in 1..amount
                    /\ amount - calc_swap_fee(amount) \in U64
  BY DEF verify_swap_fee_conservation
<1>1. amount \in Nat /\ amount > 0 /\ amount <= U64_MAX /\ U64_MAX \in Nat
  BY MathAssumption DEF Positive, U64
<1>2. calc_swap_fee(amount) \in 1..amount
  BY <1>1, SwapFeeBound
<1> QED BY <1>1, <1>2 DEF U64

(* calc_swap_fee: the fee is the minimum of one unit exactly while the     *)
(* rate yields less than two.                                              *)
THEOREM FeeThreshold == verify_swap_fee_threshold
<1>1. calc_swap_fee(0) = 0
  BY DEF calc_swap_fee
<1>2. ASSUME NEW amount \in Positive, calc_swap_fee(amount) # None
      PROVE  calc_swap_fee(amount) = 1 <=> amount * SWAP_FEE_BPS < 2 * FEE_DENOMINATOR
  <2> DEFINE x == amount * SWAP_FEE_BPS
             q == x \div FEE_DENOMINATOR
  <2>1. amount \in Nat \ {0}
    BY U64IsNat
  <2>2. x \in Nat /\ FEE_DENOMINATOR \in Nat \ {0}
    BY <2>1, MathAssumption, MulPos
  <2>3. q \in Nat /\ FEE_DENOMINATOR * q <= x /\ x < FEE_DENOMINATOR * q + FEE_DENOMINATOR
    BY <2>2, DivFacts
  <2>4. calc_swap_fee(amount) = Larger(q, 1)
    BY <1>2, <2>1 DEF calc_swap_fee
  <2> HIDE DEF x, q
  <2>5. Larger(q, 1) = 1 <=> q <= 1
    BY <2>3 DEF Larger
  <2>6. q <= 1 => x < 2 * FEE_DENOMINATOR
    <3> SUFFICES ASSUME q <= 1 PROVE x < 2 * FEE_DENOMINATOR
      OBVIOUS
    <3>1. FEE_DENOMINATOR * q <= FEE_DENOMINATOR * 1
      BY <2>2, <2>3, MulMono
    <3> QED BY <2>2, <2>3, <3>1
  <2>7. q >= 2 => x >= 2 * FEE_DENOMINATOR
    <3> SUFFICES ASSUME 2 <= q PROVE 2 * FEE_DENOMINATOR <= x
      BY <2>2, <2>3
    <3>1. FEE_DENOMINATOR * 2 <= FEE_DENOMINATOR * q
      BY <2>2, <2>3, MulMono
    <3> QED BY <2>2, <2>3, <3>1, MulPos
  <2>8. q <= 1 <=> x < 2 * FEE_DENOMINATOR
    BY <2>2, <2>3, <2>6, <2>7
  <2> QED BY <2>4, <2>5, <2>8 DEF x
<1> QED BY <1>1, <1>2 DEF verify_swap_fee_threshold

-----------------------------------------------------------------------------
(* calc_swap_output: no input empties the reserve it is paid from, and an  *)
(* input gets something exactly when its share of the reserve is a unit.   *)
THEOREM OutputBounded == verify_swap_output_bounded
<1> SUFFICES ASSUME NEW e \in U64, NEW in \in Positive, NEW out \in Positive
             PROVE  LET output == calc_swap_output(e, in, out)
                    IN /\ output \in 0..(out - 1)
                       /\ output > 0 <=> e * out >= in + e
  BY DEF verify_swap_output_bounded
<1> DEFINE x == e * out
           q == x \div (in + e)
           output == calc_swap_output(e, in, out)
<1>1. e \in Nat /\ in \in Nat \ {0} /\ out \in Nat \ {0} /\ out \in 0..U64_MAX
  BY U64IsNat, MathAssumption DEF Positive, U64
<1>2. output = q
  BY <1>1, SwapOutputNotTruncated
<1>3. output \in Nat /\ output < out
  BY <1>1, SwapOutputBound
<1>4. x \in Nat /\ in + e \in Nat \ {0}
  BY <1>1, MulPos
<1>5. q \in Nat /\ (in + e) * q <= x /\ x < (in + e) * q + (in + e)
  BY <1>4, DivFacts
<1>6. q > 0 <=> x >= in + e
  <2> HIDE DEF x, q
  <2>1. CASE q = 0
    BY <1>4, <1>5, <2>1
  <2>2. CASE 1 <= q
    <3>1. (in + e) * 1 <= (in + e) * q
      BY <1>4, <1>5, <2>2, MulMono
    <3> QED BY <1>4, <1>5, <2>2, <3>1, MulPos
  <2> QED BY <1>5, <2>1, <2>2
<1> HIDE DEF output, q
<1>7. output \in 0..(out - 1)
  BY <1>1, <1>3
<1> QED BY <1>2, <1>6, <1>7 DEF output, x

(* swap.rs: a swap that goes through leaves the product of the reserves    *)
(* strictly larger, whichever way it trades.                               *)
THEOREM FeeCompoundsK == verify_fee_compounds_k
<1> SUFFICES ASSUME NEW a \in Positive, NEW in \in Positive, NEW out \in Positive,
                    calc_swap_fee(a) # None
             PROVE  ProductAfter(a, in, out) > in * out
  BY DEF verify_fee_compounds_k
<1> DEFINE fee == calc_swap_fee(a)
           e == a - fee
           r == calc_swap_output(e, in, out)
<1>1. a \in Nat \ {0} /\ in \in Nat \ {0} /\ out \in Nat \ {0}
  BY U64IsNat
<1>2. fee \in 1..a
  BY <1>1, SwapFeeBound
<1> HIDE DEF fee
<1>3. e \in Nat /\ e < a
  BY <1>1, <1>2
<1> HIDE DEF e
<1>4. r \in Nat /\ (in + e) * (out - r) >= in * out /\ r < out
  <2>1. in \in Nat \ {0} /\ out \in Nat /\ out > 0 /\ e \in Nat
    BY <1>1, <1>3
  <2> QED BY <2>1, SwapOutputBound
<1> HIDE DEF r
<1>5. PICK left \in Nat \ {0} : left = out - r
  BY <1>1, <1>4
<1>6. PICK paid \in Nat \ {0} : in + a = (in + e) + paid
  <2>1. a - e \in Nat \ {0} /\ in + a = (in + e) + (a - e)
    BY <1>1, <1>3
  <2> QED BY <2>1
<1>7. (in + a) * left = (in + e) * left + paid * left
  <2>1. in + e \in Nat
    BY <1>1, <1>3
  <2>2. ((in + e) + paid) * left = (in + e) * left + paid * left
    BY <2>1
  <2> QED BY <1>6, <2>2
<1>8. paid * left > 0 /\ paid * left \in Nat /\ (in + e) * left \in Nat /\ in * out \in Nat
  BY <1>1, <1>3, MulPos
<1>9. (in + e) * left >= in * out
  BY <1>4, <1>5
<1>10. (in + a) * left > in * out
  BY <1>7, <1>8, <1>9
<1>11. ProductAfter(a, in, out) = (in + a) * (out - r)
  BY DEF ProductAfter, fee, e, r
<1> QED BY <1>5, <1>10, <1>11

(* calc_swap_output: a larger input gets no smaller output.                *)
THEOREM SwapMonotonic == verify_swap_monotonic
<1> SUFFICES ASSUME NEW a \in U64, NEW b \in U64, NEW in \in Positive, NEW out \in U64,
                    a <= b
             PROVE  calc_swap_output(a, in, out) <= calc_swap_output(b, in, out)
  BY DEF verify_swap_monotonic
<1> DEFINE p == (a * out) \div (in + a)
           q == (b * out) \div (in + b)
<1>1. a \in Nat /\ b \in Nat /\ in \in Nat \ {0} /\ out \in Nat /\ out \in 0..U64_MAX
  BY U64IsNat, MathAssumption DEF U64
<1>2. calc_swap_output(a, in, out) = p /\ calc_swap_output(b, in, out) = q
  BY <1>1, SwapOutputNotTruncated
<1>3. a * out \in Nat /\ b * out \in Nat /\ in + a \in Nat \ {0} /\ in + b \in Nat \ {0}
  BY <1>1, MulPos
<1>4. p \in Nat /\ (in + a) * p <= a * out
  BY <1>3, DivFacts
<1>5. q \in Nat /\ b * out < (in + b) * q + (in + b)
  BY <1>3, DivFacts
<1>6. p \in 0..out
  <2>1. a * out <= (in + a) * out
    BY <1>1, MulMono
  <2> QED BY <1>1, <1>3, <2>1, DivBound
<1> HIDE DEF p, q
<1>7. p <= q
  <2> SUFFICES ASSUME q + 1 <= p PROVE FALSE
    BY <1>4, <1>5
  <2>1. PICK d \in Nat : b = a + d
    BY <1>1
  <2>2. (in + a) * p + d * p <= a * out + d * out
    <3>1. d * p <= d * out
      BY <1>1, <1>4, <1>6, <2>1, MulMono
    <3>2. d * p \in Nat /\ d * out \in Nat /\ (in + a) * p \in Nat
      BY <1>1, <1>3, <1>4, <2>1, MulPos
    <3> QED BY <1>3, <1>4, <3>1, <3>2
  <2>3. (in + b) * p = (in + a) * p + d * p /\ b * out = a * out + d * out
    BY <1>1, <1>4, <2>1
  <2>4. (in + b) * (q + 1) <= (in + b) * p
    BY <1>3, <1>4, <1>5, MulMono
  <2>5. (in + b) * (q + 1) = (in + b) * q + (in + b)
    BY <1>3, <1>5
  <2>6. (in + b) * q \in Nat /\ (in + b) * p \in Nat
    BY <1>3, <1>4, <1>5, MulPos
  <2> QED BY <1>3, <1>5, <2>2, <2>3, <2>4, <2>5, <2>6
<1> QED BY <1>2, <1>7

(* calc_swap_output: nothing in, nothing out.                              *)
THEOREM SwapZeroInput == verify_swap_zero_input
<1> SUFFICES ASSUME NEW in \in Positive, NEW out \in U64
             PROVE  calc_swap_output(0, in, out) = 0
  BY DEF verify_swap_zero_input
<1>1. in \in Nat \ {0} /\ out \in Nat /\ out \in 0..U64_MAX
  BY U64IsNat, MathAssumption DEF U64
<1>2. calc_swap_output(0, in, out) = (0 * out) \div (in + 0)
  BY <1>1, SwapOutputNotTruncated
<1>3. 0 * out = 0 /\ in + 0 = in
  BY <1>1
<1>4. 0 \div in = 0
  BY <1>1, DivUnique
<1> QED BY <1>2, <1>3, <1>4

-----------------------------------------------------------------------------
(* integer_sqrt: the floor of the root, and above MIN_LIQUIDITY for every  *)
(* first deposit whose product allows it.                                  *)
THEOREM InitialLpSqrt == verify_initial_lp_sqrt
<1> SUFFICES ASSUME NEW n \in Nat
             PROVE  /\ IsFloorSqrt(integer_sqrt(n), n)
                    /\ n >= (MIN_LIQUIDITY + 1) * (MIN_LIQUIDITY + 1)
                         => integer_sqrt(n) > MIN_LIQUIDITY
  BY DEF verify_initial_lp_sqrt
<1> DEFINE r == integer_sqrt(n)
           m == MIN_LIQUIDITY + 1
<1>1. r \in Nat /\ IsFloorSqrt(r, n)
  BY IntegerSqrtValue
<1>2. m \in Nat /\ MIN_LIQUIDITY \in Nat
  BY MathAssumption
<1> HIDE DEF r
<1>3. n < (r + 1) * (r + 1)
  BY <1>1 DEF IsFloorSqrt
<1>4. n >= m * m => r > MIN_LIQUIDITY
  <2> SUFFICES ASSUME n >= m * m, r <= MIN_LIQUIDITY PROVE FALSE
    BY <1>1, <1>2
  <2>1. (r + 1) * (r + 1) <= m * m
    BY <1>1, <1>2, MulMono
  <2> QED BY <1>1, <1>2, <1>3, <2>1, MulPos
<1> QED BY <1>1, <1>4 DEF r

(* calc_lp_mint: the k-th part of the reserve mints the k-th part of the   *)
(* supply, and less than a unit's worth mints nothing.                     *)
THEOREM LpMintProportional == verify_lp_mint_proportional
<1> SUFFICES ASSUME NEW s \in U64, NEW d \in Positive
             PROVE  /\ \A k \in Positive : calc_lp_mint(s, d, k * d) = s \div k
                    /\ \A r \in Positive : s * d < r => calc_lp_mint(s, d, r) = 0
  BY DEF verify_lp_mint_proportional
<1>1. s \in Nat /\ s <= U64_MAX /\ U64_MAX \in Nat /\ d \in Nat \ {0}
  BY U64IsNat, MathAssumption DEF U64
<1>2. s * d \in Nat
  BY <1>1, MulPos
<1>3. ASSUME NEW k \in Positive
      PROVE  calc_lp_mint(s, d, k * d) = s \div k
  <2> DEFINE q == s \div k
             b == k * d
  <2>1. k \in Nat \ {0}
    BY U64IsNat
  <2>2. b \in Nat \ {0}
    BY <1>1, <2>1, MulPos
  <2>3. q \in Nat /\ k * q <= s /\ s < k * q + k
    BY <1>1, <2>1, DivFacts
  <2>4. q <= U64_MAX
    <3>1. s <= k * s
      <4>1. 1 * s <= k * s
        BY <1>1, <2>1, MulMono
      <4> QED BY <1>1, <4>1
    <3>2. q \in 0..s
      BY <1>1, <2>1, <3>1, DivBound
    <3> QED BY <1>1, <3>2
  <2> HIDE DEF q
  <2>5. b * q <= s * d
    <3>1. (k * q) * d <= s * d
      BY <1>1, <2>1, <2>3, MulPos, MulMono
    <3>2. b * q = (k * q) * d
      BY <1>1, <2>1, <2>3
    <3> QED BY <3>1, <3>2
  <2>6. s * d < b * q + b
    <3>1. (s + 1) * d <= (k * q + k) * d
      <4>1. k * q + k \in Nat /\ s + 1 <= k * q + k
        BY <1>1, <2>1, <2>3, MulPos
      <4> QED BY <1>1, <4>1, MulMono
    <3>2. (k * q + k) * d = b * q + b
      BY <1>1, <2>1, <2>3
    <3>3. (s + 1) * d = s * d + d
      BY <1>1
    <3>4. b * q + b \in Nat
      BY <2>2, <2>3, MulPos
    <3> QED BY <1>1, <1>2, <3>1, <3>2, <3>3, <3>4
  <2> HIDE DEF b
  <2>7. (s * d) \div b = q
    BY <1>2, <2>2, <2>3, <2>5, <2>6, DivUnique
  <2>8. calc_lp_mint(s, d, b) = q
    BY <2>2, <2>4, <2>7 DEF calc_lp_mint, TryU64
  <2> QED BY <2>8 DEF b, q
<1>4. ASSUME NEW r \in Positive, s * d < r
      PROVE  calc_lp_mint(s, d, r) = 0
  <2>1. r \in Nat \ {0}
    BY U64IsNat
  <2>2. (s * d) \div r = 0
    BY <1>2, <1>4, <2>1, DivUnique
  <2> QED BY <1>1, <2>1, <2>2 DEF calc_lp_mint, TryU64
<1> QED BY <1>3, <1>4

(* A redemption within the supply never reaches the conversion's limit.    *)
LEMMA RedeemIsQuotient ==
  ASSUME NEW s \in Nat \ {0}, NEW r \in U64, NEW a \in 0..s
  PROVE  /\ a * r \in Nat
         /\ (a * r) \div s \in 0..r
         /\ calc_lp_redeem(a, r, s) = (a * r) \div s
<1>1. r \in Nat /\ r <= U64_MAX /\ U64_MAX \in Nat /\ a \in Nat /\ a <= s
  BY U64IsNat, MathAssumption DEF U64
<1>2. a * r \in Nat /\ a * r <= s * r
  BY <1>1, MulPos, MulMono
<1>3. (a * r) \div s \in 0..r
  BY <1>1, <1>2, DivBound
<1>4. (a * r) \div s <= U64_MAX
  BY <1>1, <1>3
<1> QED BY <1>2, <1>3, <1>4 DEF calc_lp_redeem, TryU64

(* calc_lp_redeem: an amount within the supply is never refused, and is    *)
(* paid within the reserve.                                                *)
THEOREM LpRedeemBounded == verify_lp_redeem_bounded
BY RedeemIsQuotient, U64IsNat DEF verify_lp_redeem_bounded

(* calc_lp_redeem: the whole supply is paid the whole reserve.             *)
THEOREM LpFullRedeem == verify_lp_full_redeem
<1> SUFFICES ASSUME NEW s \in Positive, NEW r \in U64
             PROVE  calc_lp_redeem(s, r, s) = r
  BY DEF verify_lp_full_redeem
<1>1. s \in Nat \ {0} /\ r \in Nat /\ s \in 0..s
  BY U64IsNat
<1>2. s * r \in Nat
  BY <1>1, MulPos
<1>3. (s * r) \div s = r
  BY <1>1, <1>2, DivUnique
<1> QED BY <1>1, <1>3, RedeemIsQuotient

(* calc_lp_redeem: more LP is never paid less.                             *)
THEOREM LpRedeemMonotonic == verify_lp_redeem_monotonic
<1> SUFFICES ASSUME NEW s \in Positive, NEW r \in U64, NEW b \in 0..s, NEW a \in 0..b
             PROVE  calc_lp_redeem(a, r, s) <= calc_lp_redeem(b, r, s)
  BY DEF verify_lp_redeem_monotonic
<1>1. s \in Nat \ {0} /\ r \in Nat /\ a \in 0..s /\ b \in Nat /\ a \in Nat /\ a <= b
  BY U64IsNat
<1>2. a * r \in Nat /\ b * r \in Nat /\ a * r <= b * r
  BY <1>1, MulPos, MulMono
<1>3. (a * r) \div s <= (b * r) \div s
  BY <1>1, <1>2, DivMono
<1> QED BY <1>1, <1>3, RedeemIsQuotient

(* create_pool and add_liquidity: a fifth of the creator's LP is locked,   *)
(* and less than a tenth of a provider's.                                  *)
THEOREM LpLockRates == verify_lp_lock_rates
<1> SUFFICES ASSUME NEW lp \in U64
             PROVE  /\ LP_LOCK_CREATOR_BPS = 2000 => CreatorLock(lp) = lp \div 5
                    /\ LP_LOCK_PROVIDER_BPS = 750 /\ lp > 10 =>
                         /\ ProviderLock(lp) \in 1..lp
                         /\ 10 * (lp - ProviderLock(lp)) > 9 * lp
  BY DEF verify_lp_lock_rates
<1>1. lp \in Nat
  BY U64IsNat
<1>2. ASSUME LP_LOCK_CREATOR_BPS = 2000
      PROVE  CreatorLock(lp) = lp \div 5
  <2> DEFINE q == lp \div 5
  <2>1. q \in Nat /\ 5 * q <= lp /\ lp < 5 * q + 5
    BY <1>1, DivFacts
  <2> HIDE DEF q
  <2>2. lp * 2000 \in Nat /\ 10000 * q <= lp * 2000 /\ lp * 2000 < 10000 * q + 10000
    BY <1>1, <2>1
  <2>3. (lp * 2000) \div 10000 = q
    BY <2>1, <2>2, DivUnique
  <2> QED BY <1>2, <2>3 DEF CreatorLock, q
<1>3. ASSUME LP_LOCK_PROVIDER_BPS = 750, lp > 10
      PROVE  ProviderLock(lp) \in 1..lp /\ 10 * (lp - ProviderLock(lp)) > 9 * lp
  <2> DEFINE p == (lp * 750) \div 10000
  <2>1. lp * 750 \in Nat
    BY <1>1
  <2>2. p \in Nat /\ 10000 * p <= lp * 750
    BY <2>1, DivFacts
  <2> HIDE DEF p
  <2>3. ProviderLock(lp) = Larger(p, 1)
    BY <1>3 DEF ProviderLock, p
  <2>4. Larger(p, 1) \in 1..lp /\ 10 * Larger(p, 1) < lp
    BY <1>1, <1>3, <2>2 DEF Larger
  <2> HIDE DEF Larger
  <2> QED BY <1>1, <2>3, <2>4
<1> QED BY <1>2, <1>3

-----------------------------------------------------------------------------
(* calc_proportional: zero maps to zero and a whole reserve to the other.  *)
THEOREM ProportionalIdentity == verify_proportional_identity
<1> SUFFICES ASSUME NEW a \in Positive, NEW b \in U64
             PROVE  calc_proportional(0, a, b) = 0 /\ calc_proportional(a, a, b) = b
  BY DEF verify_proportional_identity
<1>1. a \in Nat \ {0} /\ b \in Nat /\ b <= U64_MAX /\ U64_MAX \in Nat
  BY U64IsNat, MathAssumption DEF U64
<1>2. a * b \in Nat /\ 0 * b = 0
  BY <1>1, MulPos
<1>3. (a * b) \div a = b
  BY <1>1, <1>2, DivUnique
<1>4. 0 \div a = 0
  BY <1>1, DivUnique
<1> QED BY <1>1, <1>2, <1>3, <1>4 DEF calc_proportional, TryU64

(* math.rs: the three quotients refuse what does not fit, none truncates.  *)
THEOREM OverflowReturnsNone ==
  /\ verify_proportional_overflow_returns_none
  /\ verify_lp_mint_overflow_returns_none
  /\ verify_lp_redeem_overflow_returns_none
<1>1. ASSUME NEW a \in U64, NEW b \in U64, a * b > U64_MAX
      PROVE  /\ calc_proportional(a, 1, b) = None
             /\ calc_lp_mint(a, b, 1) = None
             /\ calc_lp_redeem(a, b, 1) = None
  <2>1. a * b \in Nat /\ U64_MAX \in Nat
    BY U64IsNat, MathAssumption, MulPos
  <2>2. (a * b) \div 1 = a * b
    BY <2>1, DivUnique
  <2> QED BY <1>1, <2>1, <2>2 DEF calc_proportional, calc_lp_mint, calc_lp_redeem, TryU64
<1> QED
  BY <1>1 DEF verify_proportional_overflow_returns_none,
              verify_lp_mint_overflow_returns_none, verify_lp_redeem_overflow_returns_none

(* Rounding up adds one where there is a remainder.                        *)
LEMMA CeilIsFloorPlus ==
  ASSUME NEW x \in Nat, NEW b \in Nat \ {0}
  PROVE  CeilDiv(x, b) = (x \div b) + (IF x % b = 0 THEN 0 ELSE 1)
<1> DEFINE q == x \div b
           m == x % b
<1>1. q \in Nat /\ m \in 0..(b - 1) /\ x = b * q + m
  OBVIOUS
<1> HIDE DEF q, m
<1>2. x + (b - 1) \in Nat /\ b * q \in Nat
  BY <1>1, MulPos
<1>3. CASE m = 0
  <2>1. (x + (b - 1)) \div b = q
    BY <1>1, <1>2, <1>3, DivUnique
  <2> QED BY <1>1, <1>3, <2>1 DEF CeilDiv, q, m
<1>4. CASE m # 0
  <2>1. b * (q + 1) = b * q + b /\ q + 1 \in Nat
    BY <1>1
  <2>2. b * (q + 1) <= x + (b - 1) /\ x + (b - 1) < b * (q + 1) + b
    BY <1>1, <1>2, <1>4, <2>1
  <2>3. (x + (b - 1)) \div b = q + 1
    BY <1>2, <2>1, <2>2, DivUnique
  <2> QED BY <1>1, <1>4, <2>3 DEF CeilDiv, q, m
<1> QED BY <1>3, <1>4

(* calc_proportional_ceil: never more than one unit above the floor, and   *)
(* exactly the floor when the quotient is exact.                           *)
THEOREM CeilRoundsUp == verify_proportional_ceil_rounds_up
<1> SUFFICES ASSUME NEW i \in U64, NEW a \in Positive, NEW b \in U64,
                    calc_proportional_ceil(i, a, b) # None
             PROVE  /\ calc_proportional(i, a, b) # None
                    /\ calc_proportional_ceil(i, a, b) =
                         calc_proportional(i, a, b)
                           + (IF (i * b) % a = 0 THEN 0 ELSE 1)
  BY DEF verify_proportional_ceil_rounds_up
<1> DEFINE x == i * b
           q == x \div a
           up == IF x % a = 0 THEN 0 ELSE 1
<1>1. i \in Nat /\ b \in Nat /\ a \in Nat \ {0} /\ U64_MAX \in Nat
  BY U64IsNat, MathAssumption
<1>2. x \in Nat
  BY <1>1, MulPos
<1>3. q \in Nat /\ up \in {0, 1}
  BY <1>1, <1>2, DivFacts
<1>4. CeilDiv(x, a) = q + up
  BY <1>1, <1>2, CeilIsFloorPlus
<1>5. calc_proportional_ceil(i, a, b) = TryU64(CeilDiv(x, a))
      /\ calc_proportional(i, a, b) = TryU64(q)
  BY <1>1 DEF calc_proportional_ceil, calc_proportional
<1> HIDE DEF x, q, up
<1>6. q + up <= U64_MAX /\ calc_proportional_ceil(i, a, b) = q + up
  BY <1>4, <1>5 DEF TryU64
<1>7. calc_proportional(i, a, b) = q
  BY <1>1, <1>3, <1>5, <1>6 DEF TryU64
<1>8. q # None
  BY <1>3 DEF None
<1> QED BY <1>6, <1>7, <1>8 DEF x, up

-----------------------------------------------------------------------------
(* price_q64: the exact quotient of the shifted reserve, and one the       *)
(* accumulators can hold.                                                  *)
THEOREM PriceAtScale == verify_price_q64_at_scale
<1> SUFFICES ASSUME NEW out \in U64, NEW in \in Positive
             PROVE  LET price == price_q64(out, in)
                    IN /\ price * in <= out * PRICE_ONE
                       /\ out * PRICE_ONE < (price + 1) * in
                       /\ U64_MAX * PRICE_ONE < CUM_MOD => price \in Cum
  BY DEF verify_price_q64_at_scale
<1> DEFINE x == out * PRICE_ONE
           price == price_q64(out, in)
           most == U64_MAX * PRICE_ONE
<1>1. out \in Nat /\ out <= U64_MAX /\ U64_MAX \in Nat /\ in \in Nat \ {0}
      /\ PRICE_ONE \in Nat /\ CUM_MOD \in Nat
  BY U64IsNat, MathAssumption, OracleAssumption DEF U64
<1>2. x \in Nat /\ most \in Nat /\ x <= most
  BY <1>1, MulPos, MulMono
<1> HIDE DEF x, most
<1>3. price = x \div in
  BY DEF price_q64, x
<1>4. price \in Nat /\ in * price <= x /\ x < in * price + in
  BY <1>1, <1>2, <1>3, DivFacts
<1> HIDE DEF price
<1>5. price * in <= x /\ x < (price + 1) * in
  BY <1>1, <1>4
<1>6. price <= x
  <2>1. price * 1 <= price * in
    BY <1>1, <1>4, MulMono
  <2> QED BY <1>1, <1>2, <1>4, <1>5, <2>1, MulPos
<1>7. most < CUM_MOD => price \in Cum
  BY <1>1, <1>2, <1>4, <1>6 DEF Cum
<1> QED BY <1>5, <1>7 DEF price, x, most

(* accumulate_price: the wrapping difference of two heads is the sum       *)
(* accumulated between them, however often the head has wrapped.           *)
THEOREM WindowDifferenceExact == verify_accumulate_price_window_difference
<1> SUFFICES ASSUME NEW start \in Cum, NEW cum \in Cum, NEW total \in Nat,
                    NEW price \in Nat, NEW delta \in Nat,
                    WrappingSub(cum, start) = total,
                    total + price * delta < CUM_MOD
             PROVE  WrappingSub(accumulate_price(cum, price, delta), start)
                      = total + price * delta
  BY DEF verify_accumulate_price_window_difference
<1>1. CUM_MOD \in Nat \ {0} /\ start \in Int /\ cum \in Int /\ price * delta \in Nat
  BY OracleAssumption, MulPos DEF Cum
<1> QED BY <1>1, WrappedDifference DEF WrappingSub, accumulate_price
=============================================================================
