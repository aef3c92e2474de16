----------------------------- MODULE TwapOracle -----------------------------
(***************************************************************************)
(* The TWAP oracle kept inside the pool account (state.rs:70-183): two     *)
(* running price-time integrals modulo 2^128 and a ring of snapshots of    *)
(* them.  An oracle is the record of those fields of Pool; each method of  *)
(* Pool is an operator on it.                                              *)
(*                                                                         *)
(* PRICE_ONE is 2^64 (price_q64 shifts by 64) and CUM_MOD is 2^128 in the  *)
(* program; small values make the wrap-around reachable.                   *)
(***************************************************************************)
EXTENDS Integers

CONSTANTS PRICE_ONE,              \* fixed-point one of a Q64.64 price
          CUM_MOD,                \* modulus of the u128 accumulators
          TWAP_RING_SIZE,         \* constants.rs:38
          MIN_OBS_SPACING_SLOTS,  \* constants.rs:41
          MIN_SPOT_RESERVE        \* constants.rs:44

ASSUME OracleAssumption ==
  /\ PRICE_ONE \in Nat \ {0}
  /\ CUM_MOD \in Nat \ {0}
  /\ TWAP_RING_SIZE \in Nat \ {0}
  /\ MIN_OBS_SPACING_SLOTS \in Nat \ {0}
  /\ MIN_SPOT_RESERVE \in Nat \ {0}

Cum == 0..(CUM_MOD - 1)
Index == 0..(TWAP_RING_SIZE - 1)
Observation == [slot : Nat, cum_sol_per_tok : Cum, cum_tok_per_sol : Cum]
Oracle == [cum_sol_per_tok : Cum, cum_tok_per_sol : Cum, last_cum_slot : Nat,
           observations : [Index -> Observation], obs_head : Index]

(* Observation::default(): slot 0 marks an entry never written.            *)
Unwritten == [slot |-> 0, cum_sol_per_tok |-> 0, cum_tok_per_sol |-> 0]

SatSub(a, b) == IF a >= b THEN a - b ELSE 0

price_q64(reserve_out, reserve_in) == (reserve_out * PRICE_ONE) \div reserve_in
accumulate_price(cum, price, slot_delta) == (cum + price * slot_delta) % CUM_MOD

init_oracle(now) ==
  [cum_sol_per_tok |-> 0, cum_tok_per_sol |-> 0, last_cum_slot |-> now,
   observations |-> [i \in Index |-> Unwritten], obs_head |-> 0]

\* Mutant: reads the entry to be overwritten, the oldest.
newest_obs_at_head(o) == o.observations[o.obs_head]
newest_obs(o) ==
  o.observations[IF o.obs_head = 0 THEN TWAP_RING_SIZE - 1 ELSE o.obs_head - 1]

write_observation(o, now) ==
  [o EXCEPT !.observations[o.obs_head] =
              [slot |-> now, cum_sol_per_tok |-> o.cum_sol_per_tok,
               cum_tok_per_sol |-> o.cum_tok_per_sol],
            !.obs_head = (o.obs_head + 1) % TWAP_RING_SIZE]

\* Mutant: leaves last_cum_slot and the reciprocal head behind.
Accumulated_without_clock(o, sol_reserve, token_reserve, now) ==
  LET slot_delta == now - o.last_cum_slot
  IN [o EXCEPT !.cum_sol_per_tok =
                 accumulate_price(@, price_q64(sol_reserve, token_reserve), slot_delta)]
(* Both heads moved to `now` at the prices of the given reserves.          *)
Accumulated(o, sol_reserve, token_reserve, now) ==
  LET slot_delta == now - o.last_cum_slot
  IN [o EXCEPT !.cum_sol_per_tok =
                 accumulate_price(@, price_q64(sol_reserve, token_reserve), slot_delta),
               !.cum_tok_per_sol =
                 accumulate_price(@, price_q64(token_reserve, sol_reserve), slot_delta),
               !.last_cum_slot = now]

(* record_observation, called at the top of every swap with the reserves   *)
(* before it.  A dust pool advances its clock without accumulating.        *)
record_observation(o, sol_reserve, token_reserve, now) ==
  IF now <= o.last_cum_slot THEN o
  ELSE IF sol_reserve < MIN_SPOT_RESERVE THEN [o EXCEPT !.last_cum_slot = now]
  ELSE LET acc == Accumulated(o, sol_reserve, token_reserve, now)
       IN IF SatSub(now, newest_obs(acc).slot) >= MIN_OBS_SPACING_SLOTS
          THEN write_observation(acc, now) ELSE acc

-----------------------------------------------------------------------------
(* The snapshots a window of lookback_slots may start from: written, and   *)
(* at least that old.                                                      *)
OldEnough(o, now, lookback_slots) ==
  {i \in Index : /\ o.observations[i].slot # 0
                 /\ o.observations[i].slot <= SatSub(now, lookback_slots)}

(* The newest of them, the one whose slot is largest.                      *)
WindowStart(o, now, lookback_slots) ==
  LET old == OldEnough(o, now, lookback_slots)
  IN o.observations[CHOOSE i \in old :
       \A j \in old : o.observations[j].slot <= o.observations[i].slot]

(* Option::None of read_twap_sol_per_tok                                   *)
NoMark == -1

read_twap_sol_per_tok(o, sol_reserve_now, token_reserve_now, now, lookback_slots) ==
  LET cum_now == accumulate_price(o.cum_sol_per_tok,
                                  price_q64(sol_reserve_now, token_reserve_now),
                                  SatSub(now, o.last_cum_slot))
      start == WindowStart(o, now, lookback_slots)
      dt == SatSub(now, start.slot)
  IN IF token_reserve_now = 0 \/ OldEnough(o, now, lookback_slots) = {} THEN NoMark
     ELSE IF dt = 0 THEN NoMark
     ELSE ((cum_now - start.cum_sol_per_tok) % CUM_MOD) \div dt
=============================================================================
