---------------------------- MODULE SwapClients -----------------------------
(***************************************************************************)
(* The clients that price a swap, or read the mark, outside the program:   *)
(* the Jupiter adapter (crates/jupiter-amm-deeppool/src/lib.rs), the SDK   *)
(* (getters.ts, twap.ts) and the web application's swap panel.             *)
(*                                                                         *)
(* The adapter quotes from a copy of three accounts that it receives       *)
(* together.  The SDK asks an RPC node for the pool account first and for  *)
(* the vault's balance next, so the pool can change between its two reads. *)
(* Its numbers are JavaScript's: the model keeps them exact, as they are   *)
(* below 2^53.                                                             *)
(***************************************************************************)
EXTENDS DeepPoolHistory

CONSTANTS SLIPPAGE_BPS  \* the tolerance chosen in the swap panel

ASSUME ClientAssumption == SLIPPAGE_BPS \in 0..10000

VARIABLES amm,    \* DeepPoolAmm: the adapter's copy, and the balances it was given
          view,   \* what the SDK has read of the pool
          order   \* the swap the panel is about to send

clients == <<amm, view, order>>
cvars == <<hvars, clients>>

NoOrder == [buy |-> TRUE, amount |-> 0, minimum |-> 0, given |-> <<0, 0>>]

CInit ==
  /\ HInit
  \* from_keyed_account: everything is unknown until `update`
  /\ amm = [sol_reserve |-> 0, token_reserve |-> 0,
            transfer_fee_bps |-> 0, transfer_fee_maximum |-> U64_MAX,
            given |-> <<0, 0>>]
  /\ view = [stage |-> "none", sol |-> 0, tok |-> 0, oracle |-> init_oracle(0)]
  /\ order = NoOrder

-----------------------------------------------------------------------------
(* The Jupiter adapter.                                                    *)

\* Mutant: the rent counts as reserve.
update_with_rent ==
  /\ created
  /\ amm' = [sol_reserve |-> lamports, token_reserve |-> vault,
             transfer_fee_bps |-> TRANSFER_FEE_BPS,
             transfer_fee_maximum |-> MAX_TRANSFER_FEE,
             given |-> <<lamports, vault>>]
  /\ UNCHANGED <<hvars, view, order>>
update ==
  /\ created
  /\ amm' = [sol_reserve |-> SatSub(lamports, RENT), token_reserve |-> vault,
             transfer_fee_bps |-> TRANSFER_FEE_BPS,
             transfer_fee_maximum |-> MAX_TRANSFER_FEE,
             given |-> <<lamports, vault>>]
  /\ UNCHANGED <<hvars, view, order>>

is_active == amm.sol_reserve > 0 /\ amm.token_reserve > 0

\* Mutant: the fee is rounded down.
apply_transfer_fee_floor(amount) ==
  SatSub(amount, Smaller((amount * amm.transfer_fee_bps) \div 10000,
                         amm.transfer_fee_maximum))
apply_transfer_fee(amount) ==
  SatSub(amount, Smaller(CeilDiv(amount * amm.transfer_fee_bps, 10000),
                         amm.transfer_fee_maximum))

(* quote, in its two directions: what the wallet gets for `amount`, or an  *)
(* error.                                                                  *)
Refused == -1
quote_buy(amount) ==
  LET pool_fee == calc_swap_fee(amount)
      tokens_out == calc_swap_output(amount - pool_fee, amm.sol_reserve, amm.token_reserve)
  IN IF /\ is_active /\ amount > 0
        /\ pool_fee # None /\ pool_fee <= amount
        /\ tokens_out # None /\ tokens_out < amm.token_reserve
     THEN apply_transfer_fee(tokens_out) ELSE Refused
\* Mutant: an input that the fee consumes whole is quoted.
quote_sell_of_nothing(amount) ==
  LET net_in == apply_transfer_fee(amount)
      pool_fee == calc_swap_fee(net_in)
      sol_out == calc_swap_output(net_in - pool_fee, amm.token_reserve, amm.sol_reserve)
  IN IF /\ is_active /\ amount > 0
        /\ pool_fee # None /\ pool_fee <= net_in
        /\ sol_out # None /\ sol_out < amm.sol_reserve
     THEN sol_out ELSE Refused
quote_sell(amount) ==
  LET net_in == apply_transfer_fee(amount)
      pool_fee == calc_swap_fee(net_in)
      sol_out == calc_swap_output(net_in - pool_fee, amm.token_reserve, amm.sol_reserve)
  IN IF /\ is_active /\ amount > 0
        /\ net_in > 0
        /\ pool_fee # None /\ pool_fee <= net_in
        /\ sol_out # None /\ sol_out < amm.sol_reserve
     THEN sol_out ELSE Refused

-----------------------------------------------------------------------------
(* The SDK.                                                                *)

(* getPoolFromRpc and getTwapSolPerTok: the pool account, and then the     *)
(* balance of its vault.                                                   *)
getAccountInfo ==
  /\ created
  /\ view' = [stage |-> "account", sol |-> lamports - RENT, tok |-> 0,
              oracle |-> oracle]
  /\ UNCHANGED <<hvars, amm, order>>
getTokenAccountBalance ==
  /\ view.stage = "account"
  /\ view' = [view EXCEPT !.stage = "ready", !.tok = vault]
  /\ UNCHANGED <<hvars, amm, order>>
Ready == view.stage = "ready"

\* Mutant: a swap is free.
JsSwapFee_free(amount) == 0
JsSwapFee(amount) == Larger((amount * SWAP_FEE_BPS) \div FEE_DENOMINATOR, 1)
\* Mutant: the rate is not passed on.
JsTransferFee_default(amount, transferFeeBps) == 0
JsTransferFee(amount, transferFeeBps) == (amount * transferFeeBps) \div 10000
(* getSwapQuote(..).amountOut.  It rounds the transfer fee down and knows  *)
(* no maximum of it.                                                       *)
getSwapQuote(solReserve, tokenReserve, amountIn, buy, transferFeeBps) ==
  IF solReserve <= 0 \/ tokenReserve <= 0 \/ amountIn <= 0 THEN 0
  ELSE IF buy
  THEN LET effectiveIn == amountIn - JsSwapFee(amountIn)
           tokensOut == (effectiveIn * tokenReserve) \div (solReserve + effectiveIn)
       IN tokensOut - JsTransferFee(tokensOut, transferFeeBps)
  ELSE LET netIn == amountIn - JsTransferFee(amountIn, transferFeeBps)
           effectiveIn == IF netIn > 0 THEN netIn - JsSwapFee(netIn) ELSE netIn
       IN (effectiveIn * solReserve) \div (tokenReserve + effectiveIn)

\* Mutant: the difference of the accumulators is not masked.
wrapSub_unmasked(a, b) == a - b
wrapSub(a, b) == (a - b) % CUM_MOD
wrapAdd(a, b) == (a + b) % CUM_MOD
wrapMul(a, b) == (a * b) % CUM_MOD
(* readTwapSolPerTok on what was read.  The loop over the ring keeps the   *)
(* eligible observation with the largest slot, of equals the first; none   *)
(* has slot 0.                                                             *)
readTwapSolPerTok(nowSlot, lookbackSlots) ==
  LET priceNow == (view.sol * PRICE_ONE) \div view.tok
      gap == SatSub(nowSlot, view.oracle.last_cum_slot)
      cumNow == wrapAdd(view.oracle.cum_sol_per_tok, wrapMul(priceNow, gap))
      target == SatSub(nowSlot, lookbackSlots)
      obs == view.oracle.observations
      eligible == {i \in DOMAIN obs : obs[i].slot # 0 /\ obs[i].slot <= target}
      start == obs[CHOOSE i \in eligible :
                     \A j \in eligible : \/ obs[j].slot < obs[i].slot
                                         \/ obs[j].slot = obs[i].slot /\ i <= j]
      dt == SatSub(nowSlot, start.slot)
  IN IF view.tok = 0 \/ eligible = {} THEN NoMark
     ELSE IF dt = 0 THEN NoMark
     ELSE wrapSub(cumNow, start.cum_sol_per_tok) \div dt

-----------------------------------------------------------------------------
(* The swap panel.  It quotes without a transfer fee (the default of       *)
(* getSwapQuote), takes the slippage off, and sends the swap whenever the  *)
(* user presses the button.                                                *)
MinOut(amountOut) ==
  Larger((amountOut * (10000 - SLIPPAGE_BPS)) \div 10000, 1)
ShowQuote(amount, buy) ==
  /\ Ready
  /\ order' = [buy |-> buy, amount |-> amount,
               minimum |-> MinOut(getSwapQuote(view.sol, view.tok, amount, buy, 0)),
               given |-> <<view.sol, view.tok>>]
  /\ UNCHANGED <<hvars, amm, view>>
handleSwap(u) ==
  /\ order # NoOrder
  /\ IF order.buy THEN handle_buy(u, u, order.amount, order.minimum)
                  ELSE handle_sell(u, u, order.amount, order.minimum)
  /\ Recorded
  /\ order' = NoOrder
  /\ UNCHANGED <<amm, view>>

ClientStep ==
  \/ update
  \/ getAccountInfo
  \/ getTokenAccountBalance
  \/ \E a \in SwapAmounts, buy \in BOOLEAN : ShowQuote(a, buy)

CNext ==
  \/ HNext /\ UNCHANGED clients
  \/ ClientStep
  \/ \E u \in Users : handleSwap(u)
CSpec == CInit /\ [][CNext]_cvars

-----------------------------------------------------------------------------
(* What a swap of this step gave the user, in the wallet.                  *)
Receipt ==
  LET u == last'.user IN
  IF last'.op = "buy" THEN tok'[u] - tok[u] ELSE lamports - lamports'
Swaps == last'.op \in {"buy", "sell"} /\ <<lamports, vault>>' # <<lamports, vault>>
Fresh == created /\ amm.given = <<lamports, vault>>

(* litesvm_roundtrip.rs: a quote matches the actual on-chain swap output   *)
(* to the lamport.  Whenever the adapter was updated from these balances,  *)
(* every swap pays into the wallet what the adapter would have quoted,     *)
(* transfer fee, its maximum and every rounding included.                  *)
QuoteIsReceipt ==
  [][Swaps /\ Fresh =>
       Receipt = IF last'.op = "buy" THEN quote_buy(last'.paid)
                                     ELSE quote_sell(last'.paid)]_cvars

(* The router never sends a swap that the program would refuse, and skips  *)
(* none that it would accept: updated from the pool's balances, the        *)
(* adapter quotes exactly the amounts that a wallet that can pay for them  *)
(* can swap.                                                               *)
QuotedMeansAccepted ==
  Fresh =>
    \A u \in Users, a \in SwapAmounts :
      /\ sol[u] >= a => (quote_buy(a) # Refused <=> BuyAccepted(u, a, 0))
      /\ tok[u] >= a => (quote_sell(a) # Refused <=> SellAccepted(u, a, 0))

(* The SDK's own arithmetic promises more than the program pays by no more *)
(* than one token unit is worth: the transfer fee that it rounds down.     *)
SdkQuoteClose ==
  [][Swaps =>
       getSwapQuote(sol_reserve, vault, last'.paid, last'.op = "buy", TRANSFER_FEE_BPS)
         <= Receipt + (IF last'.op = "buy" THEN 1 ELSE CeilDiv(sol_reserve, vault))]_cvars

(* The panel never asks for more than the program will pay: a buy that it  *)
(* quoted on the pool's present reserves, however long ago, goes through,  *)
(* unless it quoted nothing and asks for one unit all the same, or the     *)
(* amount is too large for the program to take a fee of.  (What is paid    *)
(* may be less by the transfer fee, which is taken after the bound is      *)
(* checked; that of a sell is taken before, and the panel leaves it out.)  *)
QuotedBuyGoesThrough ==
  order # NoOrder /\ order.buy /\ order.given = <<sol_reserve, vault>>
    /\ calc_swap_fee(order.amount) # None
    /\ getSwapQuote(sol_reserve, vault, order.amount, TRUE, 0) > 0 =>
      \A u \in Users :
        sol[u] >= order.amount => BuyAccepted(u, order.amount, order.minimum)

(* twap.ts is a faithful mirror: on the same account, reserves and slot it *)
(* returns the mark that the program returns, for every window, warm-up    *)
(* and wrapped accumulators included.                                      *)
MirrorAgrees ==
  Ready /\ view.sol = sol_reserve /\ view.tok = vault /\ view.oracle = oracle =>
    \A k \in Lookbacks : readTwapSolPerTok(slot, k) = Mark(k)

\* The spot prices shown since the start of the window that the reader uses.
PricesInWindow(k) ==
  UNION {seen[s] : s \in WindowStart(view.oracle, slot, k).slot..slot}
WindowIsTrue(k) ==
  LET start == WindowStart(view.oracle, slot, k).slot IN
  /\ readTwapSolPerTok(slot, k) # NoMark
  /\ \A p \in PricesInWindow(k) : p * (slot - start) < CUM_MOD
  /\ skipped \cap (start + 1)..slot = {}
AnAverage(k) ==
  \E low, high \in PricesInWindow(k) :
    low <= readTwapSolPerTok(slot, k) /\ readTwapSolPerTok(slot, k) <= high

(* A mark computed from an account read long ago is still an average of    *)
(* prices that the pool showed in the window, as long as the two reserves  *)
(* that were read belong together: swaps that the reader missed make the   *)
(* mark old, never invented.                                               *)
OldReadStillAverages ==
  Ready => \A k \in Lookbacks :
    WindowIsTrue(k) /\ price_q64(view.sol, view.tok) \in PricesInWindow(k)
      => AnAverage(k)
=============================================================================
