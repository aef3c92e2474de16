------------------------------ MODULE PoolMath ------------------------------
(***************************************************************************)
(* The integer arithmetic of programs/deep_pool/src/math.rs.               *)
(*                                                                         *)
(* Every function of math.rs returns Option<T>.  Amounts are unsigned, so  *)
(* None is represented by -1, which no u64 value equals.  The u128         *)
(* intermediate products never overflow (a product of two u64 values is    *)
(* below 2^128), so what can fail is a u64 product (calc_swap_fee) or the  *)
(* conversion of a result back to u64.  U64_MAX is a parameter: a small    *)
(* one makes the overflow paths reachable for the model checker.           *)
(***************************************************************************)
EXTENDS Integers

CONSTANTS U64_MAX,              \* largest u64
          SWAP_FEE_BPS,         \* constants.rs:6
          FEE_DENOMINATOR,      \* constants.rs:7
          MIN_LIQUIDITY,        \* constants.rs:9
          LP_LOCK_CREATOR_BPS,  \* constants.rs:33
          LP_LOCK_PROVIDER_BPS  \* constants.rs:34

(* What constants.rs guarantees of its values: the fee and the two locks   *)
(* are fractions.                                                          *)
ASSUME MathAssumption ==
  /\ U64_MAX \in Nat \ {0}
  /\ SWAP_FEE_BPS \in Nat
  /\ FEE_DENOMINATOR \in Nat \ {0}
  /\ SWAP_FEE_BPS <= FEE_DENOMINATOR
  /\ MIN_LIQUIDITY \in Nat
  /\ LP_LOCK_CREATOR_BPS \in 0..10000
  /\ LP_LOCK_PROVIDER_BPS \in 0..10000

None == -1
Larger(a, b) == IF a >= b THEN a ELSE b
Smaller(a, b) == IF a <= b THEN a ELSE b
CeilDiv(a, b) == (a + (b - 1)) \div b

(* u64::try_from(result).ok()                                              *)
TryU64(n) == IF n <= U64_MAX THEN n ELSE None
(* `n as u64`: keeps the low 64 bits                                       *)
AsU64(n) == n % (U64_MAX + 1)

-----------------------------------------------------------------------------
calc_swap_fee(amount) ==
  IF amount = 0 THEN 0
  ELSE IF TryU64(amount * SWAP_FEE_BPS) = None THEN None
  ELSE Larger((amount * SWAP_FEE_BPS) \div FEE_DENOMINATOR, 1)

\* Mutant: the output is rounded in favour of the trader.
calc_swap_output_rounding_up(effective_in, input_reserve, output_reserve) ==
  IF input_reserve + effective_in = 0 THEN None
  ELSE AsU64(CeilDiv(effective_in * output_reserve, input_reserve + effective_in))
(* The cast is `as u64`, not try_from: a quotient above U64_MAX would be   *)
(* truncated in silence (SwapOutputBound in PoolMathProofs shows there is  *)
(* none).                                                                  *)
calc_swap_output(effective_in, input_reserve, output_reserve) ==
  IF input_reserve + effective_in = 0 THEN None
  ELSE AsU64((effective_in * output_reserve) \div (input_reserve + effective_in))

calc_lp_mint(lp_supply, deposit, reserve) ==
  IF reserve = 0 THEN None ELSE TryU64((lp_supply * deposit) \div reserve)

\* Mutant: the redemption is rounded in favour of the provider.
calc_lp_redeem_rounding_up(lp_amount, reserve, lp_supply) ==
  IF lp_supply = 0 THEN None ELSE TryU64(CeilDiv(lp_amount * reserve, lp_supply))
calc_lp_redeem(lp_amount, reserve, lp_supply) ==
  IF lp_supply = 0 THEN None ELSE TryU64((lp_amount * reserve) \div lp_supply)

\* Mutant: the deposit is rounded in favour of the provider.
calc_proportional_floor(input, reserve_a, reserve_b) ==
  IF reserve_a = 0 THEN None ELSE TryU64((input * reserve_b) \div reserve_a)
calc_proportional_ceil(input, reserve_a, reserve_b) ==
  IF reserve_a = 0 THEN None ELSE TryU64(CeilDiv(input * reserve_b, reserve_a))

(* The value of integer_sqrt: the floor of the root.  Its Newton loop is   *)
(* module IntegerSqrt, which shows that this is what the loop returns.     *)
IsFloorSqrt(r, n) == r * r <= n /\ n < (r + 1) * (r + 1)
integer_sqrt(n) == CHOOSE r \in 0..n : IsFloorSqrt(r, n)

-----------------------------------------------------------------------------
\* Mutant: divides before it multiplies.
CreatorLock_divided_first(lp_total) == (lp_total \div 10000) * LP_LOCK_CREATOR_BPS
(* The share of freshly minted LP that goes to the pool's own LP account:  *)
(* create_pool.rs:232-236, and add_liquidity.rs:165-170 where dust adds    *)
(* lock at least one unit.                                                 *)
CreatorLock(lp_total) == (lp_total * LP_LOCK_CREATOR_BPS) \div 10000
ProviderLock(lp_amount) ==
  Larger((lp_amount * LP_LOCK_PROVIDER_BPS) \div 10000, 1)
=============================================================================
