------------------------------ MODULE MathLaws ------------------------------
(***************************************************************************)
(* The laws that programs/deep_pool/src/kani_proofs.rs checks of the pool  *)
(* arithmetic.  Kani takes each at a handful of amounts, because symbolic  *)
(* u128 products and quotients are beyond its solver; here each harness is *)
(* stated for all amounts, under the harness's name.  A bound that depends *)
(* on the sizes chosen there (an output is positive, a deposit of 1% mints *)
(* 1%) is stated with the condition that makes it true.                    *)
(***************************************************************************)
EXTENDS PoolMath, TwapOracle

U64 == 0..U64_MAX
Positive == U64 \ {0}

-----------------------------------------------------------------------------
(* The fee of a swap is a part of it, and no swap is free.                 *)
verify_swap_fee_conservation ==
  \A amount \in Positive :
    calc_swap_fee(amount) # None =>
      LET fee == calc_swap_fee(amount)
          effective == amount - fee
      IN fee \in 1..amount /\ effective \in U64

(* The least fee is charged below twice the amount that earns it.          *)
verify_swap_fee_threshold ==
  /\ calc_swap_fee(0) = 0
  /\ \A amount \in Positive :
       calc_swap_fee(amount) # None =>
         (calc_swap_fee(amount) = 1 <=> amount * SWAP_FEE_BPS < 2 * FEE_DENOMINATOR)

-----------------------------------------------------------------------------
(* No swap empties the side it takes from; it gets something as soon as    *)
(* its share of the reserve is a unit.                                     *)
verify_swap_output_bounded ==
  \A effective_in \in U64, input_reserve \in Positive, output_reserve \in Positive :
    LET output == calc_swap_output(effective_in, input_reserve, output_reserve)
    IN /\ output \in 0..(output_reserve - 1)
       /\ output > 0 <=> effective_in * output_reserve >= input_reserve + effective_in

(* What the product of the reserves is after a swap of amount_in.          *)
ProductAfter(amount_in, input_reserve, output_reserve) ==
  LET effective_in == amount_in - calc_swap_fee(amount_in)
  IN (input_reserve + amount_in)
       * (output_reserve - calc_swap_output(effective_in, input_reserve, output_reserve))

(* verify_k_non_decreasing and, strictly, verify_fee_compounds_k: as every *)
(* swap pays a fee, every swap makes the product grow.                     *)
verify_fee_compounds_k ==
  \A amount_in \in Positive, input_reserve \in Positive, output_reserve \in Positive :
    calc_swap_fee(amount_in) # None =>
      ProductAfter(amount_in, input_reserve, output_reserve) > input_reserve * output_reserve

(* More in is never less out.                                              *)
verify_swap_monotonic ==
  \A a \in U64, b \in U64, input_reserve \in Positive, output_reserve \in U64 :
    a <= b => calc_swap_output(a, input_reserve, output_reserve)
                <= calc_swap_output(b, input_reserve, output_reserve)

verify_swap_zero_input ==
  \A input_reserve \in Positive, output_reserve \in U64 :
    calc_swap_output(0, input_reserve, output_reserve) = 0

-----------------------------------------------------------------------------
(* The first supply is the floor of the root, and above MIN_LIQUIDITY as   *)
(* soon as the product of the deposits is above its square.                *)
verify_initial_lp_sqrt ==
  \A n \in Nat :
    /\ IsFloorSqrt(integer_sqrt(n), n)
    /\ n >= (MIN_LIQUIDITY + 1) * (MIN_LIQUIDITY + 1) => integer_sqrt(n) > MIN_LIQUIDITY

(* A deposit of one k-th of the reserve mints one k-th of the supply, all  *)
(* of it mints all of it, and dust mints nothing.                          *)
verify_lp_mint_proportional ==
  \A lp_supply \in U64, deposit \in Positive :
    /\ \A k \in Positive : calc_lp_mint(lp_supply, deposit, k * deposit) = lp_supply \div k
    /\ \A reserve \in Positive :
         lp_supply * deposit < reserve => calc_lp_mint(lp_supply, deposit, reserve) = 0

(* A redemption of LP that exists is never refused for its size and never  *)
(* asks for more than there is.                                            *)
verify_lp_redeem_bounded ==
  \A lp_supply \in Positive, reserve \in U64 : \A lp_amount \in 0..lp_supply :
    calc_lp_redeem(lp_amount, reserve, lp_supply) \in 0..reserve

verify_lp_full_redeem ==
  \A lp_supply \in Positive, reserve \in U64 :
    calc_lp_redeem(lp_supply, reserve, lp_supply) = reserve

verify_lp_redeem_monotonic ==
  \A lp_supply \in Positive, reserve \in U64 : \A b \in 0..lp_supply : \A a \in 0..b :
    calc_lp_redeem(a, reserve, lp_supply) <= calc_lp_redeem(b, reserve, lp_supply)

(* At the program's rates the creator keeps four fifths; a provider keeps  *)
(* more than nine tenths and less than all, once there are eleven units.   *)
verify_lp_lock_rates ==
  \A lp \in U64 :
    /\ LP_LOCK_CREATOR_BPS = 2000 => CreatorLock(lp) = lp \div 5
    /\ LP_LOCK_PROVIDER_BPS = 750 /\ lp > 10 =>
         /\ ProviderLock(lp) \in 1..lp
         /\ 10 * (lp - ProviderLock(lp)) > 9 * lp

-----------------------------------------------------------------------------
calc_proportional(input, reserve_a, reserve_b) ==
  IF reserve_a = 0 THEN None ELSE TryU64((input * reserve_b) \div reserve_a)

(* Nothing maps to nothing, and the whole reserve to the whole reserve.    *)
verify_proportional_identity ==
  \A reserve_a \in Positive, reserve_b \in U64 :
    /\ calc_proportional(0, reserve_a, reserve_b) = 0
    /\ calc_proportional(reserve_a, reserve_a, reserve_b) = reserve_b

(* A result too large for a u64 is refused by the three quotients alike.   *)
verify_proportional_overflow_returns_none ==
  \A input \in U64, reserve_b \in U64 :
    input * reserve_b > U64_MAX => calc_proportional(input, 1, reserve_b) = None

verify_lp_mint_overflow_returns_none ==
  \A lp_supply \in U64, deposit \in U64 :
    lp_supply * deposit > U64_MAX => calc_lp_mint(lp_supply, deposit, 1) = None

verify_lp_redeem_overflow_returns_none ==
  \A lp_amount \in U64, reserve \in U64 :
    lp_amount * reserve > U64_MAX => calc_lp_redeem(lp_amount, reserve, 1) = None

(* The charge is the quotient rounded up: the floor where it divides, one  *)
(* more where it does not, and refused only if that does not fit.          *)
verify_proportional_ceil_rounds_up ==
  \A input \in U64, reserve_a \in Positive, reserve_b \in U64 :
    LET floor == calc_proportional(input, reserve_a, reserve_b)
        ceil == calc_proportional_ceil(input, reserve_a, reserve_b)
    IN ceil # None =>
         /\ floor # None
         /\ ceil = floor + (IF (input * reserve_b) % reserve_a = 0 THEN 0 ELSE 1)

-----------------------------------------------------------------------------
(* A price is the exact quotient, and fits an accumulator.                 *)
verify_price_q64_at_scale ==
  \A reserve_out \in U64, reserve_in \in Positive :
    LET price == price_q64(reserve_out, reserve_in)
    IN /\ price * reserve_in <= reserve_out * PRICE_ONE
       /\ reserve_out * PRICE_ONE < (price + 1) * reserve_in
       /\ U64_MAX * PRICE_ONE < CUM_MOD => price \in Cum

(* wrapping_sub                                                            *)
WrappingSub(a, b) == (a - b) % CUM_MOD

(* verify_accumulate_price_window_difference and, as nothing is said of    *)
(* the size of the head, verify_accumulate_price_wraps_exactly: if the     *)
(* difference to the window's start is the true sum so far, it is so after *)
(* one more accumulation, wrapped or not, as long as the sum fits.         *)
verify_accumulate_price_window_difference ==
  \A start \in Cum, cum \in Cum, total \in Nat, price \in Nat, delta \in Nat :
    WrappingSub(cum, start) = total /\ total + price * delta < CUM_MOD =>
      WrappingSub(accumulate_price(cum, price, delta), start) = total + price * delta
=============================================================================
