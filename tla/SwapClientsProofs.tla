------------------------- MODULE SwapClientsProofs -------------------------
(***************************************************************************)
(* Theorems about what the clients promise of a swap (SwapClients): that   *)
(* the adapter's quote is the wallet's receipt, how far the SDK's quote    *)
(* can be above it, that its mark is the program's, that a mark read long  *)
(* ago is an average still, and that what is quoted is what is accepted.   *)
(***************************************************************************)
EXTENDS SwapClients, HistoryProofs

-----------------------------------------------------------------------------
(* The arithmetic: fees of neighbouring amounts, and outputs of            *)
(* neighbouring inputs.                                                    *)

(* A fee of at most the whole grows no faster than the amount.             *)
LEMMA FeeRateMono ==
  ASSUME NEW m \in Nat, NEW n \in Nat, m <= n,
         NEW c \in Nat, NEW d \in Nat \ {0}, c <= d
  PROVE  (n * c) \div d - (m * c) \div d <= n - m
<1> DEFINE p == (m * c) \div d
           q == (n * c) \div d
<1>1. m * c \in Nat /\ n * c \in Nat /\ (n - m) * c \in Nat /\ (n - m) * d \in Nat
  BY MulPos
<1>2. /\ p \in Nat /\ m * c < d * p + d
      /\ q \in Nat /\ d * q <= n * c
  BY <1>1, DivFacts
<1>3. (n - m) * c <= (n - m) * d /\ (n - m) * c = n * c - m * c
  BY MulMono
<1> HIDE DEF p, q
<1>4. SUFFICES ASSUME n - m + 1 <= q - p PROVE FALSE
  BY <1>2 DEF p, q
<1>5. (n - m + 1) * d <= (q - p) * d
  BY <1>2, <1>4, MulMono
<1>6. (n - m + 1) * d = (n - m) * d + d /\ (q - p) * d = d * q - d * p
  BY <1>2
<1>7. d * q \in Nat /\ d * p \in Nat
  BY <1>2, MulPos
<1> QED BY <1>1, <1>2, <1>3, <1>5, <1>6, <1>7

(* What is left of an amount after the swap fee.                           *)
LEMMA JsFeeRange ==
  ASSUME NEW n \in Nat \ {0}
  PROVE  JsSwapFee(n) \in 1..n
<1> DEFINE q == (n * SWAP_FEE_BPS) \div FEE_DENOMINATOR
<1>1. /\ SWAP_FEE_BPS \in Nat /\ FEE_DENOMINATOR \in Nat \ {0}
      /\ SWAP_FEE_BPS <= FEE_DENOMINATOR
  BY MathAssumption
<1>2. q - (0 * SWAP_FEE_BPS) \div FEE_DENOMINATOR <= n - 0
  BY <1>1, FeeRateMono
<1>3. (0 * SWAP_FEE_BPS) \div FEE_DENOMINATOR = 0
  <2>1. 0 * SWAP_FEE_BPS = 0
    BY <1>1
  <2>2. 0 \div FEE_DENOMINATOR \in Nat /\ FEE_DENOMINATOR * (0 \div FEE_DENOMINATOR) <= 0
    BY <1>1, DivFacts
  <2>3. ASSUME NEW z \in Nat, FEE_DENOMINATOR * z <= 0 PROVE z = 0
    <3>1. CASE z > 0
      <4>1. FEE_DENOMINATOR * z > 0
        BY <1>1, <3>1, MulPos
      <4> QED BY <2>3, <4>1, <1>1
    <3> QED BY <3>1
  <2> QED BY <2>1, <2>2, <2>3
<1>4. q \in Nat
  <2>1. n * SWAP_FEE_BPS \in Nat
    BY <1>1, MulPos
  <2> QED BY <1>1, <2>1, DivFacts
<1> HIDE DEF q
<1>5. q <= n
  BY <1>2, <1>3, <1>4
<1> QED BY <1>4, <1>5 DEF JsSwapFee, Larger, q

LEMMA LeftMono ==
  ASSUME NEW m \in Nat \ {0}, NEW n \in Nat \ {0}, m <= n
  PROVE  m - JsSwapFee(m) <= n - JsSwapFee(n)
<1> DEFINE p == (m * SWAP_FEE_BPS) \div FEE_DENOMINATOR
           q == (n * SWAP_FEE_BPS) \div FEE_DENOMINATOR
<1>1. q - p <= n - m
  BY MathAssumption, FeeRateMono
<1>2. p \in Nat /\ q \in Nat
  <2>1. m * SWAP_FEE_BPS \in Nat /\ n * SWAP_FEE_BPS \in Nat
    BY MathAssumption, MulPos
  <2> QED BY MathAssumption, <2>1, DivFacts
<1>3. /\ JsSwapFee(m) = IF p >= 1 THEN p ELSE 1
      /\ JsSwapFee(n) = IF q >= 1 THEN q ELSE 1
  BY DEF JsSwapFee, Larger
<1> HIDE DEF p, q
<1> QED BY <1>1, <1>2, <1>3

LEMMA NextFeeNoLess ==
  ASSUME NEW n \in Nat \ {0}
  PROVE  JsSwapFee(n) <= JsSwapFee(n + 1)
<1> DEFINE p == (n * SWAP_FEE_BPS) \div FEE_DENOMINATOR
           q == ((n + 1) * SWAP_FEE_BPS) \div FEE_DENOMINATOR
<1>1. n * SWAP_FEE_BPS \in Nat /\ (n + 1) * SWAP_FEE_BPS \in Nat
      /\ n * SWAP_FEE_BPS <= (n + 1) * SWAP_FEE_BPS
  BY MathAssumption, MulPos, MulMono
<1>2. p \in Nat /\ q \in Nat /\ p <= q
  BY <1>1, MathAssumption, DivFacts, DivMono
<1>3. /\ JsSwapFee(n) = IF p >= 1 THEN p ELSE 1
      /\ JsSwapFee(n + 1) = IF q >= 1 THEN q ELSE 1
  BY DEF JsSwapFee, Larger
<1> HIDE DEF p, q
<1> QED BY <1>2, <1>3

(* The transfer fee rounded down, with no maximum, is at least the one     *)
(* that is charged, less one unit.                                         *)
LEMMA JsTransferFeeBound ==
  ASSUME NEW n \in Nat
  PROVE  /\ JsTransferFee(n, TRANSFER_FEE_BPS) \in 0..n
         /\ TransferFee(n) <= JsTransferFee(n, TRANSFER_FEE_BPS) + 1
<1> DEFINE q == (n * TRANSFER_FEE_BPS) \div 10000
           c == CeilDiv(n * TRANSFER_FEE_BPS, 10000)
           x == n * TRANSFER_FEE_BPS
<1>1. TRANSFER_FEE_BPS \in 0..10000 /\ MAX_TRANSFER_FEE \in Nat
  BY PoolAssumption
<1>2. x \in Nat /\ x <= n * 10000
  BY <1>1, MulMono, MulPos
<1>3. q \in Nat /\ 10000 * q <= x /\ x < 10000 * q + 10000
  BY <1>2, DivFacts
<1>4. c \in Nat /\ 10000 * c < x + 10000
  BY <1>2, CeilDivBound
<1>5. TransferFee(n) = (IF c <= MAX_TRANSFER_FEE THEN c ELSE MAX_TRANSFER_FEE)
  BY DEF TransferFee, Smaller
<1>6. JsTransferFee(n, TRANSFER_FEE_BPS) = q
  BY DEF JsTransferFee
<1> HIDE DEF q, c, x
<1>7. c <= q + 1 /\ q <= n
  BY <1>2, <1>3, <1>4
<1> QED BY <1>1, <1>3, <1>4, <1>5, <1>6, <1>7

(* One more unit of input is worth at most the price, rounded up.          *)
LEMMA OneMoreUnit ==
  ASSUME NEW S \in Nat, NEW V \in Nat \ {0}, NEW e \in Nat, NEW x \in Nat, x <= e + 1
  PROVE  (x * S) \div (V + x) <= (e * S) \div (V + e) + CeilDiv(S, V)
<1> DEFINE q == (x * S) \div (V + x)
           r == (e * S) \div (V + e)
           k == CeilDiv(S, V)
           t == r + 1
<1>1. x * S \in Nat /\ e * S \in Nat /\ V + x \in Nat \ {0} /\ V + e \in Nat \ {0}
  BY MulPos
<1>2. /\ q \in Nat /\ (V + x) * q <= x * S
      /\ r \in Nat /\ (V + e) * r <= e * S /\ e * S < (V + e) * r + (V + e)
  BY <1>1, DivFacts
<1>3. k \in Nat /\ S <= V * k
  BY CeilDivBound
<1> HIDE DEF q, r, k
<1>4. SUFFICES ASSUME t + k <= q PROVE FALSE
  BY <1>2, <1>3 DEF q, r, k
<1>5. t \in Nat
  BY <1>2
<1>6. e * S < t * V + t * e
  <2>1. (V + e) * r + (V + e) = t * V + t * e
    BY <1>2
  <2> QED BY <1>2, <2>1
<1> HIDE DEF t
<1>7. (t + k) * V + (t + k) * x <= x * S
  <2>1. (V + x) * (t + k) <= (V + x) * q
    BY <1>1, <1>2, <1>3, <1>4, <1>5, MulMono
  <2>2. (V + x) * (t + k) = (t + k) * V + (t + k) * x
    BY <1>3, <1>5
  <2>3. (V + x) * q \in Nat /\ (V + x) * (t + k) \in Nat
    BY <1>1, <1>2, <1>3, <1>5, MulPos
  <2> QED BY <1>1, <1>2, <2>1, <2>2, <2>3
<1>8. /\ (t + k) * V = t * V + k * V /\ (t + k) * x = t * x + k * x
      /\ t * V \in Nat /\ k * V \in Nat /\ t * x \in Nat /\ k * x \in Nat /\ t * e \in Nat
      /\ k * V = V * k
  BY <1>3, <1>5, MulPos
<1>9. t <= S
  <2>1. SUFFICES ASSUME S < t PROVE FALSE
    BY <1>5
  <2>2. x * S <= x * t /\ x * t = t * x
    BY <1>5, <2>1, MulMono
  <2>3. t * V = 0
    BY <1>1, <1>7, <1>8, <2>2
  <2>4. t * V > 0
    BY <1>5, <2>1, MulPos
  <2> QED BY <2>3, <2>4
<1>10. x * (S - t) <= (e + 1) * (S - t)
  BY <1>5, <1>9, MulMono
<1>11. /\ x * (S - t) = x * S - t * x
       /\ (e + 1) * (S - t) = e * S - t * e + (S - t)
  BY <1>5, <1>9
<1>12. k * V + k * x < S - t
  BY <1>1, <1>5, <1>6, <1>7, <1>8, <1>10, <1>11
<1> QED BY <1>3, <1>5, <1>8, <1>12

-----------------------------------------------------------------------------
(* The invariant: the pool's, that assets are conserved, that the adapter  *)
(* holds what it computed from the balances it was given, and that the     *)
(* panel sends an amount.                                                  *)
Copied ==
  amm.given # <<0, 0>> =>
    /\ amm.sol_reserve = SatSub(amm.given[1], RENT)
    /\ amm.token_reserve = amm.given[2]
    /\ amm.transfer_fee_bps = TRANSFER_FEE_BPS
    /\ amm.transfer_fee_maximum = MAX_TRANSFER_FEE
ClientInv == Sound /\ Conserved /\ Copied /\ order.amount \in Nat

(* What a step of the clients does to the pool.                            *)
Swapping ==
  \E u \in Users, w \in Users, a \in Nat :
    \/ \E b : handle_buy(u, w, a, b)
    \/ \E b : handle_sell(u, w, a, b)
Elsewhere == [Next]_vars

LEMMA PoolStep ==
  ASSUME ClientInv, [CNext]_cvars
  PROVE  Elsewhere \/ Swapping
<1>1. CASE HNext \/ UNCHANGED cvars
  BY <1>1 DEF HNext, HTick, HStep, Next, cvars, hvars, Elsewhere
<1>2. CASE ClientStep
  <2>1. UNCHANGED hvars
    BY <1>2 DEF ClientStep, update, getAccountInfo, getTokenAccountBalance, ShowQuote
  <2> QED BY <2>1 DEF hvars, Elsewhere
<1>3. ASSUME NEW u \in Users, handleSwap(u) PROVE Swapping
  <2>1. \/ handle_buy(u, u, order.amount, order.minimum)
        \/ handle_sell(u, u, order.amount, order.minimum)
    BY <1>3 DEF handleSwap
  <2> QED BY <2>1 DEF Swapping, ClientInv
<1> QED BY <1>1, <1>2, <1>3 DEF CNext

LEMMA CopyStep ==
  ASSUME ClientInv, [CNext]_cvars
  PROVE  Copied' /\ (order.amount \in Nat)'
<1>1. CASE HNext /\ UNCHANGED clients
  BY <1>1 DEF clients, ClientInv, Copied
<1>2. CASE UNCHANGED cvars
  BY <1>2 DEF cvars, clients, ClientInv, Copied
<1>3. CASE update
  BY <1>3 DEF update, ClientInv, Copied
<1>4. CASE getAccountInfo \/ getTokenAccountBalance
  BY <1>4 DEF getAccountInfo, getTokenAccountBalance, ClientInv, Copied
<1>5. ASSUME NEW a \in SwapAmounts, NEW buy \in BOOLEAN, ShowQuote(a, buy)
      PROVE  Copied' /\ (order.amount \in Nat)'
  <2>1. order'.amount = a /\ amm' = amm
    BY <1>5 DEF ShowQuote
  <2> QED BY <2>1, PoolAssumption DEF ClientInv, Copied
<1>6. ASSUME NEW u \in Users, handleSwap(u)
      PROVE  Copied' /\ (order.amount \in Nat)'
  <2>1. order' = NoOrder /\ amm' = amm
    BY <1>6 DEF handleSwap
  <2> QED BY <2>1 DEF ClientInv, Copied, NoOrder
<1> QED BY <1>1, <1>2, <1>3, <1>4, <1>5, <1>6 DEF CNext, ClientStep

LEMMA ClientInvStep ==
  ASSUME ClientInv, [CNext]_cvars
  PROVE  ClientInv'
<1>1. Sound /\ Conserved
  BY DEF ClientInv
<1>2. CASE Elsewhere
  <2>1. Sound'
    BY <1>1, <1>2, NextEffect DEF Elsewhere, StepEffect
  <2>2. Conserved'
    BY <1>1, <1>2, ConservedStep DEF Elsewhere, Conserves
  <2> QED BY <2>1, <2>2, CopyStep DEF ClientInv
<1>3. CASE Swapping
  <2>1. PICK u \in Users, w \in Users, a \in Nat :
          (\E b : handle_buy(u, w, a, b)) \/ (\E b : handle_sell(u, w, a, b))
    BY <1>3 DEF Swapping
  <2>2. ASSUME NEW b, handle_buy(u, w, a, b) PROVE Sound' /\ Conserved'
    BY <1>1, <2>2, BuyStep, BuyConserves DEF Conserves
  <2>3. ASSUME NEW b, handle_sell(u, w, a, b) PROVE Sound' /\ Conserved'
    BY <1>1, <2>3, SellStep, SellConserves DEF Conserves
  <2> QED BY <2>1, <2>2, <2>3, CopyStep DEF ClientInv
<1> QED BY <1>2, <1>3, PoolStep

LEMMA ClientInvFirst ==
  ASSUME CInit
  PROVE  ClientInv
<1>1. Sound
  BY InitIInv DEF CInit, HInit, IInv
<1>2. Conserved
  BY ConservedFirst DEF CInit, HInit
<1>3. amm.given = <<0, 0>> /\ order.amount = 0
  BY DEF CInit, NoOrder
<1> QED BY <1>1, <1>2, <1>3 DEF ClientInv, Copied

LEMMA ClientsInv == CSpec => []ClientInv
BY ClientInvFirst, ClientInvStep, PTL DEF CSpec

(* The steps that QuoteIsReceipt and SdkQuoteClose speak of are swaps.     *)
LEMMA SwapsAreSwaps ==
  ASSUME ClientInv, [CNext]_cvars, Swaps
  PROVE  Swapping
<1>1. last'.op \in {"buy", "sell"} /\ <<lamports', vault'>> # <<lamports, vault>>
  BY DEF Swaps
<1>2. CASE Elsewhere
  <2>1. ~UNCHANGED vars /\ ~Tick
    BY <1>1 DEF vars, Tick, advance_slot, reserves
  <2>2. PICK u \in Users : Step(u)
    BY <1>2, <2>1 DEF Elsewhere, Next
  <2>3. ~Create(u)
    BY <1>1 DEF Create, create_pool, Called
  <2>4. ~Add(u) /\ ~Remove(u)
    BY <1>1 DEF Add, add_liquidity, Remove, remove_liquidity, Called
  <2>5. ~External(u)
    BY <1>1 DEF External, gift_sol, gift_tokens, lp_to_pool, lp_self_burn, lp_transfer, Called
  <2>6. Buy(u) \/ Sell(u)
    BY <2>2, <2>3, <2>4, <2>5 DEF Step
  <2>7. SwapAmounts \subseteq Nat
    BY PoolAssumption
  <2> QED BY <2>6, <2>7 DEF Buy, Sell, Swapping
<1> QED BY <1>2, PoolStep

-----------------------------------------------------------------------------
(* What the handlers pay.                                                  *)
LEMMA BuyPays ==
  ASSUME Sound, Conserved, NEW u \in Users, NEW w \in Users, NEW a \in Nat, NEW b,
         handle_buy(u, w, a, b),
         NEW fee, fee = calc_swap_fee(a), NEW r, r = calc_swap_output(a - fee, sol_reserve, vault)
  PROVE  /\ created /\ a > 0 /\ fee # None /\ fee \in 1..a
         /\ r \in Nat /\ r < vault
         /\ r = ((a - fee) * vault) \div (sol_reserve + (a - fee))
         /\ last'.op = "buy" /\ last'.paid = a
         /\ Receipt = Net(r)
<1>1. /\ created /\ a > 0 /\ fee # None /\ r < vault
      /\ tok' = [tok EXCEPT ![u] = @ + Net(r)]
      /\ last'.op = "buy" /\ last'.paid = a /\ last'.user = u
  BY DEF handle_buy, BuyAccepted, BuyOutput, HasReserves, PayTokens, Called
<1>2. sol_reserve \in Nat \ {0} /\ vault \in Nat \ {0} /\ tok \in [Users -> Nat]
  BY <1>1, AliveFacts DEF Sound, TypeOK
<1>3. fee \in 1..a /\ a - fee \in Nat
  <2>1. fee \in 1..a
    BY <1>1, SwapFeeBound
  <2> QED BY <2>1
<1>4. r \in Nat
  BY <1>2, <1>3, SwapOutputBound
<1>5. vault \in 0..U64_MAX
  BY ReservesAreU64
<1>6. r = ((a - fee) * vault) \div (sol_reserve + (a - fee))
  BY <1>2, <1>3, <1>5, SwapOutputNotTruncated
<1>7. Receipt = Net(r)
  <2>1. Net(r) \in Nat
    BY <1>4, NetRange
  <2>2. tok'[u] = tok[u] + Net(r) /\ tok[u] \in Nat
    BY <1>1, <1>2
  <2>3. tok'[u] - tok[u] = Net(r)
    BY <2>1, <2>2
  <2> QED BY <1>1, <2>3 DEF Receipt
<1> QED BY <1>1, <1>3, <1>4, <1>6, <1>7

LEMMA SellPays ==
  ASSUME Sound, Conserved, NEW u \in Users, NEW w \in Users, NEW a \in Nat, NEW b,
         handle_sell(u, w, a, b),
         NEW net, net = Net(a), NEW fee, fee = calc_swap_fee(net),
         NEW r, r = calc_swap_output(net - fee, vault, sol_reserve)
  PROVE  /\ created /\ a > 0 /\ net \in 1..a /\ fee # None /\ fee \in 1..net
         /\ r \in Nat /\ r < sol_reserve
         /\ r = ((net - fee) * sol_reserve) \div (vault + (net - fee))
         /\ last'.op = "sell" /\ last'.paid = a
         /\ Receipt = r
<1>1. /\ created /\ a > 0 /\ net > 0 /\ fee # None /\ r < sol_reserve
      /\ lamports' = lamports - r
      /\ last'.op = "sell" /\ last'.paid = a
  BY DEF handle_sell, SellAccepted, SellOutput, HasReserves, PaySol, Called
<1>2. /\ sol_reserve \in Nat \ {0} /\ vault \in Nat \ {0}
      /\ sol_reserve = lamports - RENT /\ lamports \in Nat /\ RENT \in Nat
  BY <1>1, AliveFacts, PoolAssumption DEF Sound, TypeOK
<1>3. net \in 1..a
  BY <1>1, NetRange
<1>4. fee \in 1..net /\ net - fee \in Nat
  <2>1. fee \in 1..net
    BY <1>1, <1>3, SwapFeeBound
  <2> QED BY <1>3, <2>1
<1>5. r \in Nat
  BY <1>2, <1>4, SwapOutputBound
<1>6. sol_reserve \in 0..U64_MAX
  <2>1. lamports \in 0..U64_MAX /\ U64_MAX \in Nat
    BY ReservesAreU64, MathAssumption
  <2> QED BY <1>2, <2>1
<1>7. r = ((net - fee) * sol_reserve) \div (vault + (net - fee))
  BY <1>2, <1>4, <1>6, SwapOutputNotTruncated
<1>8. Receipt = r
  <2>1. lamports - lamports' = r
    BY <1>1, <1>2, <1>5
  <2> QED BY <1>1, <2>1 DEF Receipt
<1> QED BY <1>1, <1>3, <1>4, <1>5, <1>7, <1>8

(* The adapter takes the program's transfer fee.                           *)
LEMMA AdapterNet ==
  ASSUME NEW n \in Nat,
         amm.transfer_fee_bps = TRANSFER_FEE_BPS, amm.transfer_fee_maximum = MAX_TRANSFER_FEE
  PROVE  apply_transfer_fee(n) = Net(n)
<1>1. apply_transfer_fee(n) = SatSub(n, TransferFee(n))
  BY DEF apply_transfer_fee, TransferFee
<1>2. TransferFee(n) \in 0..n
  BY NetRange
<1> QED BY <1>1, <1>2 DEF SatSub, Net

(* Updated from the present balances, it prices on the present reserves.   *)
LEMMA AdapterFresh ==
  ASSUME Sound, Copied, Fresh
  PROVE  /\ amm.sol_reserve = sol_reserve /\ amm.token_reserve = vault
         /\ amm.transfer_fee_bps = TRANSFER_FEE_BPS
         /\ amm.transfer_fee_maximum = MAX_TRANSFER_FEE
<1>1. created /\ amm.given = <<lamports, vault>>
  BY DEF Fresh
<1>2. vault # 0
  BY <1>1, AliveFacts
<1>3. amm.given # <<0, 0>> /\ amm.given[1] = lamports /\ amm.given[2] = vault
  BY <1>1, <1>2
<1> QED BY <1>3 DEF Copied, sol_reserve

LEMMA QuotedStep ==
  ASSUME ClientInv, Swapping, Fresh
  PROVE  Receipt = IF last'.op = "buy" THEN quote_buy(last'.paid) ELSE quote_sell(last'.paid)
<1>1. Sound /\ Conserved /\ Copied
  BY DEF ClientInv
<1>2. /\ amm.sol_reserve = sol_reserve /\ amm.token_reserve = vault
      /\ amm.transfer_fee_bps = TRANSFER_FEE_BPS
      /\ amm.transfer_fee_maximum = MAX_TRANSFER_FEE
  BY <1>1, AdapterFresh
<1>3. PICK u \in Users, w \in Users, a \in Nat :
        (\E b : handle_buy(u, w, a, b)) \/ (\E b : handle_sell(u, w, a, b))
  BY DEF Swapping
<1>4. ASSUME NEW b, handle_buy(u, w, a, b)
      PROVE  last'.op = "buy" /\ Receipt = quote_buy(last'.paid)
  <2>1. PICK fee : fee = calc_swap_fee(a)
    OBVIOUS
  <2>2. PICK r : r = calc_swap_output(a - fee, sol_reserve, vault)
    OBVIOUS
  <2>3. /\ created /\ a > 0 /\ fee # None /\ fee \in 1..a
        /\ r \in Nat /\ r < vault
        /\ last'.op = "buy" /\ last'.paid = a /\ Receipt = Net(r)
    BY <1>1, <1>4, <2>1, <2>2, BuyPays
  <2>4. is_active /\ fee <= a /\ r # None
    <3>1. sol_reserve > 0 /\ vault > 0
      BY <1>1, <2>3, AliveFacts
    <3> QED BY <1>2, <2>3, <3>1 DEF is_active, None
  <2>5. quote_buy(a) = apply_transfer_fee(r)
    BY <1>2, <2>1, <2>2, <2>3, <2>4 DEF quote_buy
  <2>6. apply_transfer_fee(r) = Net(r)
    BY <1>2, <2>3, AdapterNet
  <2> QED BY <2>3, <2>5, <2>6
<1>5. ASSUME NEW b, handle_sell(u, w, a, b)
      PROVE  last'.op = "sell" /\ Receipt = quote_sell(last'.paid)
  <2>1. PICK net : net = Net(a)
    OBVIOUS
  <2>2. PICK fee : fee = calc_swap_fee(net)
    OBVIOUS
  <2>3. PICK r : r = calc_swap_output(net - fee, vault, sol_reserve)
    OBVIOUS
  <2>4. /\ created /\ a > 0 /\ net \in 1..a /\ fee # None /\ fee \in 1..net
        /\ r \in Nat /\ r < sol_reserve
        /\ last'.op = "sell" /\ last'.paid = a /\ Receipt = r
    BY <1>1, <1>5, <2>1, <2>2, <2>3, SellPays
  <2>5. is_active /\ net > 0 /\ fee <= net /\ r # None
    <3>1. sol_reserve > 0 /\ vault > 0
      BY <1>1, <2>4, AliveFacts
    <3> QED BY <1>2, <2>4, <3>1 DEF is_active, None
  <2>6. apply_transfer_fee(a) = net
    BY <1>2, <2>1, AdapterNet
  <2>7. quote_sell(a) = r
    BY <1>2, <2>2, <2>3, <2>4, <2>5, <2>6 DEF quote_sell
  <2> QED BY <2>4, <2>7
<1> QED BY <1>3, <1>4, <1>5

(* The adapter's quote is the wallet's receipt, to the unit, for every     *)
(* pool, amount, fee and transfer fee, on every swap that meets the        *)
(* balances the adapter was updated from.                                  *)
THEOREM QuotesAreReceipts == CSpec => QuoteIsReceipt
<1>1. ASSUME ClientInv, [CNext]_cvars, Swaps, Fresh
      PROVE  Receipt = IF last'.op = "buy" THEN quote_buy(last'.paid)
                                           ELSE quote_sell(last'.paid)
  BY <1>1, SwapsAreSwaps, QuotedStep
<1>2. ClientInv /\ [CNext]_cvars =>
        [Swaps /\ Fresh => Receipt = IF last'.op = "buy" THEN quote_buy(last'.paid)
                                                         ELSE quote_sell(last'.paid)]_cvars
  BY <1>1
<1> QED BY <1>2, ClientsInv, PTL DEF CSpec, QuoteIsReceipt

-----------------------------------------------------------------------------
(* What a swap that is accepted leaves in every variable.                  *)
BuyResult(user, source, amount_in, minimum_out) ==
  LET tokens_out == BuyOutput(amount_in)
  IN <<created, lamports + amount_in, vault - tokens_out, supply, locked,
       record_observation(oracle, sol_reserve, vault, slot),
       [sol EXCEPT ![source] = @ - amount_in],
       [tok EXCEPT ![user] = @ + Net(tokens_out)], lp,
       withheld + TransferFee(tokens_out), slot,
       Called("buy", user, minimum_out, amount_in, tokens_out)>>
SellResult(user, source, amount_in, minimum_out) ==
  LET sol_out == SellOutput(amount_in)
  IN <<created, lamports - sol_out, vault + Net(amount_in), supply, locked,
       record_observation(oracle, sol_reserve, vault, slot),
       [sol EXCEPT ![source] = @ + sol_out],
       [tok EXCEPT ![user] = @ - amount_in], lp,
       withheld + TransferFee(amount_in), slot,
       Called("sell", user, minimum_out, amount_in, sol_out)>>

(* Nothing but its guard decides whether a swap commits: with it, the      *)
(* handler is an assignment to every variable.  So the guard is what       *)
(* ENABLED says of the handler.                                            *)
THEOREM GuardsDecide ==
  ASSUME NEW u, NEW w, NEW a, NEW b
  PROVE  /\ handle_buy(u, w, a, b)
              <=> BuyAccepted(w, a, b) /\ vars' = BuyResult(u, w, a, b)
         /\ handle_sell(u, w, a, b)
              <=> SellAccepted(u, a, b) /\ vars' = SellResult(u, w, a, b)
<1>1. handle_buy(u, w, a, b) <=> BuyAccepted(w, a, b) /\ vars' = BuyResult(u, w, a, b)
  <2>1. BuyAccepted(w, a, b) => sol[w] >= a
    BY DEF BuyAccepted
  <2> QED BY <2>1 DEF handle_buy, DepositSol, PayTokens, AdvanceOracle, shares, vars, BuyResult
<1>2. handle_sell(u, w, a, b) <=> SellAccepted(u, a, b) /\ vars' = SellResult(u, w, a, b)
  <2>1. SellAccepted(u, a, b) => tok[u] >= a
    BY DEF SellAccepted
  <2> QED BY <2>1 DEF handle_sell, DepositTokens, PaySol, AdvanceOracle, shares, vars,
                      SellResult
<1> QED BY <1>1, <1>2

LEMMA FreshBuy ==
  ASSUME ClientInv, Fresh, NEW u \in Users, NEW a \in Nat, sol[u] >= a
  PROVE  quote_buy(a) # Refused <=> BuyAccepted(u, a, 0)
<1>1. /\ created /\ amm.sol_reserve = sol_reserve /\ amm.token_reserve = vault
      /\ amm.transfer_fee_bps = TRANSFER_FEE_BPS /\ amm.transfer_fee_maximum = MAX_TRANSFER_FEE
  BY AdapterFresh DEF ClientInv, Fresh
<1>2. sol_reserve \in Nat \ {0} /\ vault \in Nat \ {0}
  BY <1>1, AliveFacts DEF ClientInv
<1>3. PICK fee : fee = calc_swap_fee(a)
  OBVIOUS
<1>4. PICK r : r = calc_swap_output(a - fee, sol_reserve, vault)
  OBVIOUS
<1>5. is_active /\ HasReserves
  BY <1>1, <1>2 DEF is_active, HasReserves
<1>6. quote_buy(a) = IF /\ a > 0 /\ fee # None /\ fee <= a
                        /\ r # None /\ r < vault
                     THEN apply_transfer_fee(r) ELSE Refused
  BY <1>1, <1>3, <1>4, <1>5 DEF quote_buy
<1>7. BuyAccepted(u, a, 0) <=> /\ a > 0 /\ fee # None /\ fee <= a
                               /\ r # None /\ r >= 0 /\ r < vault
  BY <1>3, <1>4, <1>5 DEF BuyAccepted, BuyOutput
<1>8. ASSUME a > 0, fee # None
      PROVE  r \in Nat /\ apply_transfer_fee(r) \in Nat
  <2>1. fee \in 1..a
    BY <1>3, <1>8, SwapFeeBound
  <2>2. a - fee \in Nat
    BY <2>1
  <2>3. r \in Nat
    BY <1>2, <1>4, <2>2, SwapOutputBound
  <2> QED BY <1>1, <2>3, AdapterNet, NetRange
<1> QED BY <1>6, <1>7, <1>8 DEF Refused

LEMMA FreshSell ==
  ASSUME ClientInv, Fresh, NEW u \in Users, NEW a \in Nat, tok[u] >= a
  PROVE  quote_sell(a) # Refused <=> SellAccepted(u, a, 0)
<1>1. /\ created /\ amm.sol_reserve = sol_reserve /\ amm.token_reserve = vault
      /\ amm.transfer_fee_bps = TRANSFER_FEE_BPS /\ amm.transfer_fee_maximum = MAX_TRANSFER_FEE
  BY AdapterFresh DEF ClientInv, Fresh
<1>2. /\ sol_reserve \in Nat \ {0} /\ vault \in Nat \ {0}
      /\ sol_reserve = lamports - RENT /\ lamports \in Nat /\ RENT \in Nat
  BY <1>1, AliveFacts, PoolAssumption DEF ClientInv, Sound, TypeOK
<1>3. PICK net : net = Net(a)
  OBVIOUS
<1>4. PICK fee : fee = calc_swap_fee(net)
  OBVIOUS
<1>5. PICK r : r = calc_swap_output(net - fee, vault, sol_reserve)
  OBVIOUS
<1>6. is_active /\ HasReserves
  BY <1>1, <1>2 DEF is_active, HasReserves
<1>7. net \in 0..a /\ apply_transfer_fee(a) = net
  BY <1>1, <1>3, AdapterNet, NetRange
<1>8. quote_sell(a) = IF /\ a > 0 /\ net > 0 /\ fee # None /\ fee <= net
                         /\ r # None /\ r < sol_reserve
                      THEN r ELSE Refused
  BY <1>1, <1>4, <1>5, <1>6, <1>7 DEF quote_sell
<1>9. SellAccepted(u, a, 0) <=> /\ a > 0 /\ net > 0 /\ fee # None /\ fee <= net
                                /\ r # None /\ r >= 0 /\ r < sol_reserve
                                /\ SatSub(lamports, r) >= RENT
  BY <1>3, <1>4, <1>5, <1>6 DEF SellAccepted, SellOutput
<1>10. ASSUME net > 0, fee # None
       PROVE  r \in Nat /\ (r < sol_reserve => SatSub(lamports, r) >= RENT)
  <2>1. fee \in 1..net
    BY <1>4, <1>7, <1>10, SwapFeeBound
  <2>2. net - fee \in Nat
    BY <1>7, <2>1
  <2>3. r \in Nat
    BY <1>2, <1>5, <2>2, SwapOutputBound
  <2> QED BY <1>2, <2>3 DEF SatSub
<1> QED BY <1>8, <1>9, <1>10 DEF Refused

(* The adapter never quotes a swap that the program would refuse, and      *)
(* refuses none that it would take: updated from the pool's balances, it   *)
(* quotes exactly the amounts that the handler's guard lets a wallet that  *)
(* can pay for them swap.                                                  *)
THEOREM QuotedExactlyWhenAccepted == CSpec => []QuotedMeansAccepted
<1>1. ClientInv => QuotedMeansAccepted
  <2> SUFFICES ASSUME ClientInv, Fresh, NEW u \in Users, NEW a \in SwapAmounts
               PROVE  /\ sol[u] >= a => (quote_buy(a) # Refused <=> BuyAccepted(u, a, 0))
                      /\ tok[u] >= a => (quote_sell(a) # Refused <=> SellAccepted(u, a, 0))
    BY DEF QuotedMeansAccepted
  <2>1. a \in Nat
    BY PoolAssumption
  <2> QED BY <2>1, FreshBuy, FreshSell
<1> QED BY <1>1, ClientsInv, PTL

-----------------------------------------------------------------------------
(* The SDK's swap fee is the program's, where the program has one.         *)
LEMMA JsFeeIsFee ==
  ASSUME NEW n \in Nat \ {0}, calc_swap_fee(n) # None
  PROVE  JsSwapFee(n) = calc_swap_fee(n)
BY DEF calc_swap_fee, JsSwapFee, TryU64

LEMMA SdkBuyClose ==
  ASSUME ClientInv, NEW u \in Users, NEW w \in Users, NEW a \in Nat, NEW b,
         handle_buy(u, w, a, b)
  PROVE  /\ last'.op = "buy" /\ last'.paid = a
         /\ getSwapQuote(sol_reserve, vault, a, TRUE, TRANSFER_FEE_BPS) <= Receipt + 1
<1>1. Sound /\ Conserved
  BY DEF ClientInv
<1>2. PICK fee : fee = calc_swap_fee(a)
  OBVIOUS
<1>3. PICK r : r = calc_swap_output(a - fee, sol_reserve, vault)
  OBVIOUS
<1>4. /\ created /\ a > 0 /\ fee # None /\ r \in Nat
      /\ r = ((a - fee) * vault) \div (sol_reserve + (a - fee))
      /\ last'.op = "buy" /\ last'.paid = a /\ Receipt = Net(r)
  BY <1>1, <1>2, <1>3, BuyPays
<1>5. sol_reserve \in Nat \ {0} /\ vault \in Nat \ {0}
  BY <1>1, <1>4, AliveFacts
<1>6. JsSwapFee(a) = fee
  BY <1>2, <1>4, JsFeeIsFee
<1>7. ~(sol_reserve <= 0 \/ vault <= 0 \/ a <= 0)
  BY <1>4, <1>5
<1>8. getSwapQuote(sol_reserve, vault, a, TRUE, TRANSFER_FEE_BPS)
        = r - JsTransferFee(r, TRANSFER_FEE_BPS)
  BY <1>4, <1>6, <1>7 DEF getSwapQuote
<1>9. /\ JsTransferFee(r, TRANSFER_FEE_BPS) \in 0..r
      /\ TransferFee(r) <= JsTransferFee(r, TRANSFER_FEE_BPS) + 1
      /\ TransferFee(r) \in 0..r
  BY <1>4, JsTransferFeeBound, NetRange
<1>10. r - JsTransferFee(r, TRANSFER_FEE_BPS) <= Net(r) + 1
  BY <1>4, <1>9 DEF Net
<1> QED BY <1>4, <1>8, <1>10

LEMMA SdkSellClose ==
  ASSUME ClientInv, NEW u \in Users, NEW w \in Users, NEW a \in Nat, NEW b,
         handle_sell(u, w, a, b)
  PROVE  /\ last'.op = "sell" /\ last'.paid = a
         /\ getSwapQuote(sol_reserve, vault, a, FALSE, TRANSFER_FEE_BPS)
              <= Receipt + CeilDiv(sol_reserve, vault)
<1>1. Sound /\ Conserved
  BY DEF ClientInv
<1>2. PICK net : net = Net(a)
  OBVIOUS
<1>3. PICK fee : fee = calc_swap_fee(net)
  OBVIOUS
<1>4. PICK r : r = calc_swap_output(net - fee, vault, sol_reserve)
  OBVIOUS
<1>5. /\ created /\ a > 0 /\ net \in 1..a /\ fee # None /\ fee \in 1..net /\ r \in Nat
      /\ r = ((net - fee) * sol_reserve) \div (vault + (net - fee))
      /\ last'.op = "sell" /\ last'.paid = a /\ Receipt = r
  BY <1>1, <1>2, <1>3, <1>4, SellPays
<1>6. sol_reserve \in Nat \ {0} /\ vault \in Nat \ {0}
  BY <1>1, <1>5, AliveFacts
<1>7. JsSwapFee(net) = fee
  BY <1>3, <1>5, JsFeeIsFee
<1>8. PICK m : m = a - JsTransferFee(a, TRANSFER_FEE_BPS)
  OBVIOUS
<1>9. m \in Nat /\ m <= net + 1
  <2>1. /\ JsTransferFee(a, TRANSFER_FEE_BPS) \in 0..a
        /\ TransferFee(a) <= JsTransferFee(a, TRANSFER_FEE_BPS) + 1
        /\ TransferFee(a) \in 0..a
    BY JsTransferFeeBound, NetRange
  <2>2. net = a - TransferFee(a)
    BY <1>2 DEF Net
  <2> QED BY <1>8, <2>1, <2>2
<1>10. PICK x : x = IF m > 0 THEN m - JsSwapFee(m) ELSE m
  OBVIOUS
<1>11. x \in Nat /\ x <= (net - fee) + 1
  <2>1. CASE m = 0
    BY <1>5, <1>10, <2>1
  <2>2. CASE m > 0 /\ m <= net
    <3>1. JsSwapFee(m) \in 1..m /\ m - JsSwapFee(m) <= net - JsSwapFee(net)
      BY <1>5, <1>9, <2>2, JsFeeRange, LeftMono
    <3> QED BY <1>5, <1>7, <1>9, <1>10, <2>2, <3>1
  <2>3. CASE m = net + 1
    <3>1. JsSwapFee(m) \in 1..m /\ JsSwapFee(net) <= JsSwapFee(m)
      BY <1>5, <1>9, <2>3, JsFeeRange, NextFeeNoLess
    <3> QED BY <1>5, <1>7, <1>9, <1>10, <2>3, <3>1
  <2> QED BY <1>5, <1>9, <2>1, <2>2, <2>3
<1>12. ~(sol_reserve <= 0 \/ vault <= 0 \/ a <= 0)
  BY <1>5, <1>6
<1>13. getSwapQuote(sol_reserve, vault, a, FALSE, TRANSFER_FEE_BPS)
         = (x * sol_reserve) \div (vault + x)
  BY <1>8, <1>10, <1>12 DEF getSwapQuote
<1>14. net - fee \in Nat
  BY <1>5
<1>15. (x * sol_reserve) \div (vault + x) <= r + CeilDiv(sol_reserve, vault)
  BY <1>5, <1>6, <1>11, <1>14, OneMoreUnit
<1> QED BY <1>5, <1>13, <1>15

(* The SDK's quote is never above what a swap pays by more than one unit   *)
(* of token (the transfer fee it rounds down) or, selling, by more than    *)
(* one unit of token is worth in SOL.                                      *)
THEOREM SdkQuotesAreClose == CSpec => SdkQuoteClose
<1>1. ASSUME ClientInv, [CNext]_cvars, Swaps
      PROVE  getSwapQuote(sol_reserve, vault, last'.paid, last'.op = "buy", TRANSFER_FEE_BPS)
               <= Receipt + (IF last'.op = "buy" THEN 1 ELSE CeilDiv(sol_reserve, vault))
  <2>1. PICK u \in Users, w \in Users, a \in Nat :
          (\E b : handle_buy(u, w, a, b)) \/ (\E b : handle_sell(u, w, a, b))
    BY <1>1, SwapsAreSwaps DEF Swapping
  <2>2. ASSUME NEW b, handle_buy(u, w, a, b)
        PROVE  getSwapQuote(sol_reserve, vault, last'.paid, last'.op = "buy", TRANSFER_FEE_BPS)
                 <= Receipt + (IF last'.op = "buy" THEN 1 ELSE CeilDiv(sol_reserve, vault))
    <3>1. /\ last'.op = "buy" /\ last'.paid = a
          /\ getSwapQuote(sol_reserve, vault, a, TRUE, TRANSFER_FEE_BPS) <= Receipt + 1
      BY <1>1, <2>2, SdkBuyClose
    <3>2. (last'.op = "buy") = TRUE
      BY <3>1
    <3> QED BY <3>1, <3>2
  <2>3. ASSUME NEW b, handle_sell(u, w, a, b)
        PROVE  getSwapQuote(sol_reserve, vault, last'.paid, last'.op = "buy", TRANSFER_FEE_BPS)
                 <= Receipt + (IF last'.op = "buy" THEN 1 ELSE CeilDiv(sol_reserve, vault))
    <3>1. /\ last'.op = "sell" /\ last'.paid = a
          /\ getSwapQuote(sol_reserve, vault, a, FALSE, TRANSFER_FEE_BPS)
               <= Receipt + CeilDiv(sol_reserve, vault)
      BY <1>1, <2>3, SdkSellClose
    <3>2. (last'.op = "buy") = FALSE
      BY <3>1
    <3> QED BY <3>1, <3>2
  <2> QED BY <2>1, <2>2, <2>3
<1>2. ClientInv /\ [CNext]_cvars =>
        [Swaps =>
           getSwapQuote(sol_reserve, vault, last'.paid, last'.op = "buy", TRANSFER_FEE_BPS)
             <= Receipt + (IF last'.op = "buy" THEN 1 ELSE CeilDiv(sol_reserve, vault))]_cvars
  BY <1>1
<1> QED BY <1>2, ClientsInv, PTL DEF CSpec, SdkQuoteClose

-----------------------------------------------------------------------------
(* The panel's order asks for what its quote said, less the slippage.      *)
Ordered ==
  order # NoOrder =>
    order.minimum = MinOut(getSwapQuote(order.given[1], order.given[2],
                                        order.amount, order.buy, 0))

LEMMA OrderedStep ==
  ASSUME Ordered, [CNext]_cvars
  PROVE  Ordered'
<1>1. CASE UNCHANGED order
  BY <1>1 DEF Ordered
<1>2. ASSUME NEW a \in SwapAmounts, NEW buy \in BOOLEAN, ShowQuote(a, buy)
      PROVE  Ordered'
  BY <1>2 DEF ShowQuote, Ordered
<1>3. ASSUME NEW u \in Users, handleSwap(u)
      PROVE  Ordered'
  BY <1>3 DEF handleSwap, Ordered
<1> QED BY <1>1, <1>2, <1>3 DEF CNext, ClientStep, clients, cvars, update, getAccountInfo,
                                getTokenAccountBalance

(* What the slippage leaves of a quote.                                    *)
LEMMA SlippageLeaves == 10000 - SLIPPAGE_BPS \in Nat
<1>1. \A s \in 0..10000 : 10000 - s \in Nat
  OBVIOUS
<1> QED BY <1>1, ClientAssumption

LEMMA MinOutNoMore ==
  ASSUME NEW q \in Nat \ {0}
  PROVE  MinOut(q) <= q
<1> DEFINE k == 10000 - SLIPPAGE_BPS
           m == (q * k) \div 10000
<1>1. k \in 0..10000
  BY ClientAssumption
<1> HIDE DEF k
<1>2. q * k \in Nat /\ q * k <= q * 10000
  BY <1>1, MulPos, MulMono
<1>3. m \in Nat /\ 10000 * m <= q * k
  BY <1>2, DivFacts
<1>4. MinOut(q) = IF m >= 1 THEN m ELSE 1
  BY DEF MinOut, Larger, k
<1> HIDE DEF m
<1>5. m <= q
  BY <1>2, <1>3
<1> QED BY <1>4, <1>5

LEMMA PanelBuy ==
  ASSUME ClientInv, Ordered, NEW u \in Users,
         order # NoOrder, order.buy, order.given = <<sol_reserve, vault>>,
         calc_swap_fee(order.amount) # None,
         getSwapQuote(sol_reserve, vault, order.amount, TRUE, 0) > 0,
         sol[u] >= order.amount
  PROVE  BuyAccepted(u, order.amount, order.minimum)
<1>1. PICK a \in Nat : a = order.amount
  BY DEF ClientInv
<1>2. PICK fee : fee = calc_swap_fee(a)
  OBVIOUS
<1>3. PICK r : r = calc_swap_output(a - fee, sol_reserve, vault)
  OBVIOUS
<1>4. PICK q : q = getSwapQuote(sol_reserve, vault, a, TRUE, 0)
  OBVIOUS
<1>5. sol_reserve > 0 /\ vault > 0 /\ a > 0
  <2>1. q > 0
    BY <1>1, <1>4
  <2>2. sol_reserve <= 0 \/ vault <= 0 \/ a <= 0 => q = 0
    BY <1>4 DEF getSwapQuote
  <2>3. sol_reserve \in Int /\ vault \in Int
    BY PoolAssumption DEF ClientInv, Sound, TypeOK, sol_reserve, SatSub
  <2> QED BY <2>1, <2>2, <2>3
<1>6. /\ created /\ sol_reserve \in Nat \ {0} /\ vault \in Nat \ {0}
      /\ vault \in 0..U64_MAX
  <2>1. created
    BY <1>5 DEF ClientInv, Sound, Unborn
  <2> QED BY <2>1, AliveFacts, ReservesAreU64 DEF ClientInv
<1>7. fee # None /\ fee \in 1..a /\ JsSwapFee(a) = fee
  BY <1>1, <1>2, <1>5, SwapFeeBound, JsFeeIsFee
<1>8. a - fee \in Nat
  BY <1>7
<1>9. r \in Nat /\ r < vault
  <2>1. PICK e \in Nat : e = a - fee
    BY <1>8
  <2>2. r = calc_swap_output(e, sol_reserve, vault)
    BY <1>3, <2>1
  <2> QED BY <1>6, <2>2, SwapOutputBound
<1>10. r = ((a - fee) * vault) \div (sol_reserve + (a - fee))
  BY <1>3, <1>6, <1>8, SwapOutputNotTruncated
<1>11. q = r
  <2>1. q = r - (r * 0) \div 10000
    BY <1>4, <1>5, <1>6, <1>7, <1>10 DEF getSwapQuote, JsTransferFee
  <2>2. r * 0 = 0 /\ 0 \div 10000 = 0
    BY <1>9
  <2> QED BY <1>9, <2>1, <2>2
<1>12. order.minimum = MinOut(r)
  <2>1. order.given[1] = sol_reserve /\ order.given[2] = vault
    OBVIOUS
  <2>2. order.minimum = MinOut(getSwapQuote(sol_reserve, vault, a, order.buy, 0))
    BY <1>1, <2>1 DEF Ordered
  <2>3. getSwapQuote(sol_reserve, vault, a, order.buy, 0) = q
    BY <1>4 DEF getSwapQuote
  <2> QED BY <1>11, <2>2, <2>3
<1>13. MinOut(r) <= r /\ MinOut(r) \in Int
  <2>1. q > 0
    BY <1>1, <1>4
  <2>2. 10000 - SLIPPAGE_BPS \in Nat
    BY SlippageLeaves
  <2>3. r * (10000 - SLIPPAGE_BPS) \in Nat
    BY <1>9, <2>2, MulPos
  <2>4. (r * (10000 - SLIPPAGE_BPS)) \div 10000 \in Nat
    BY <2>3, DivFacts
  <2>5. r \in Nat \ {0}
    BY <1>9, <1>11, <2>1
  <2> QED BY <2>4, <2>5, MinOutNoMore DEF MinOut, Larger
<1>14. HasReserves /\ r # None /\ r >= order.minimum /\ fee <= a
  BY <1>5, <1>6, <1>7, <1>9, <1>12, <1>13 DEF HasReserves, None
<1> QED BY <1>1, <1>2, <1>3, <1>5, <1>7, <1>9, <1>14 DEF BuyAccepted, BuyOutput

(* A buy that the panel quoted on the pool's present reserves goes         *)
(* through, whatever slippage was chosen and however long ago it was       *)
(* quoted: the program's bound is met before the transfer fee is taken.    *)
THEOREM QuotedBuysGoThrough == CSpec => []QuotedBuyGoesThrough
<1>1. CInit => Ordered
  BY DEF CInit, Ordered
<1>2. Ordered /\ [CNext]_cvars => Ordered'
  BY OrderedStep
<1>3. ClientInv /\ Ordered => QuotedBuyGoesThrough
  BY PanelBuy DEF QuotedBuyGoesThrough
<1> QED BY <1>1, <1>2, <1>3, ClientsInv, PTL DEF CSpec

-----------------------------------------------------------------------------
(* The SDK's mark: on the same account, reserves and slot it is the        *)
(* program's.  The products are reduced at other places.                   *)
LEMMA InnerMod ==
  ASSUME NEW c \in Int, NEW x \in Nat
  PROVE  (c + (x % CUM_MOD)) % CUM_MOD = (c + x) % CUM_MOD
<1> DEFINE M == CUM_MOD
           r == x % M
           j == x \div M
           v == (c + r) % M
           w == (c + x) % M
           a == (c + r) \div M
           b == (c + x) \div M
<1>1. M \in Nat \ {0}
  BY OracleAssumption
<1>2. r \in 0..(M - 1) /\ j \in Int /\ x = M * j + r
  BY <1>1, ModMultiple
<1> HIDE DEF M, r, j
<1>3. c + r \in Int /\ c + x \in Int
  BY <1>1, <1>2
<1>4. v \in 0..(M - 1) /\ a \in Int /\ c + r = M * a + v
  BY <1>1, <1>3, ModMultiple
<1>5. w \in 0..(M - 1) /\ b \in Int /\ c + x = M * b + w
  BY <1>1, <1>3, ModMultiple
<1> HIDE DEF v, w, a, b
<1>6. v = M * (b - a - j) + w /\ b - a - j \in Int
  <2>1. M * (b - a - j) = M * b - M * a - M * j
    BY <1>1, <1>2, <1>4, <1>5
  <2>2. M * b \in Int /\ M * a \in Int /\ M * j \in Int /\ v \in Int /\ w \in Int /\ r \in Int
    BY <1>1, <1>2, <1>4, <1>5
  <2> DEFINE mb == M * b
             ma == M * a
             mj == M * j
  <2>3. mb \in Int /\ ma \in Int /\ mj \in Int /\ x = mj + r /\ c + r = ma + v
        /\ c + x = mb + w
    BY <1>2, <1>4, <1>5, <2>2
  <2> HIDE DEF mb, ma, mj
  <2>4. v = mb - ma - mj + w
    BY <2>2, <2>3
  <2> QED BY <1>2, <1>4, <1>5, <2>1, <2>4 DEF mb, ma, mj
<1>7. v = w
  BY <1>1, <1>4, <1>5, <1>6, ModUnique
<1> QED BY <1>7 DEF v, w, r, M

(* What the loop keeps of the eligible snapshots is the newest of them.    *)
LoopKeeps(obs, old) ==
  obs[CHOOSE i \in old :
        \A j \in old : \/ obs[j].slot < obs[i].slot
                       \/ obs[j].slot = obs[i].slot /\ i <= j]

LEMMA LoopStart ==
  ASSUME NEW o \in Oracle, RingGood(o), NEW now \in Nat, NEW k \in Nat,
         NEW old, old = OldEnough(o, now, k), old # {}
  PROVE  LoopKeeps(o.observations, old) = WindowStart(o, now, k)
<1> DEFINE at(i) == o.observations[i].slot
           kept(i) == \A j \in old : at(j) < at(i) \/ (at(j) = at(i) /\ i <= j)
           best == CHOOSE i \in old : kept(i)
<1>1. PICK m \in Index : NewestOf(o, old, m)
  BY StartExists
<1>2. old \subseteq Index /\ \A i \in old : at(i) \in Nat /\ at(i) # 0
  BY DEF OldEnough, Oracle, Observation
<1>3. m \in old /\ \A j \in old : at(j) <= at(m) /\ (j # m => at(j) # at(m))
  BY <1>1, <1>2, SlotsDiffer DEF NewestOf
<1>4. kept(m)
  <2>1. m <= m
    BY <1>2, <1>3 DEF Index
  <2> HIDE DEF at
  <2> QED BY <1>2, <1>3, <2>1
<1>5. best \in old /\ kept(best)
  <2> HIDE DEF kept
  <2> QED BY <1>3, <1>4
<1> HIDE DEF best, at
<1>6. NewestOf(o, old, best)
  <2>1. \A j \in old : at(j) <= at(best)
    BY <1>2, <1>5
  <2> QED BY <1>5, <2>1 DEF NewestOf, at
<1>7. WindowStart(o, now, k) = o.observations[best]
  BY <1>2, <1>5, <1>6, StartIs
<1> QED BY <1>7 DEF best, at, LoopKeeps

LEMMA MirrorReads ==
  ASSUME NEW now \in Nat, NEW k \in Nat, view.oracle \in Oracle, RingGood(view.oracle),
         view.sol \in Nat, view.tok \in Nat
  PROVE  readTwapSolPerTok(now, k)
           = read_twap_sol_per_tok(view.oracle, view.sol, view.tok, now, k)
<1> DEFINE o == view.oracle
           price == price_q64(view.sol, view.tok)
           gap == SatSub(now, o.last_cum_slot)
<1>1. /\ o.cum_sol_per_tok \in Int /\ o.last_cum_slot \in Nat /\ gap \in Nat
      /\ DOMAIN o.observations = Index
  BY OracleAssumption DEF Oracle, Cum, SatSub
<1> DEFINE obs == o.observations
           eligible == {i \in DOMAIN obs : obs[i].slot # 0 /\ obs[i].slot <= SatSub(now, k)}
           start == obs[CHOOSE i \in eligible :
                          \A j \in eligible : \/ obs[j].slot < obs[i].slot
                                              \/ obs[j].slot = obs[i].slot /\ i <= j]
           cum == wrapAdd(o.cum_sol_per_tok, wrapMul(price, gap))
<1>2. readTwapSolPerTok(now, k)
        = IF view.tok = 0 \/ eligible = {} THEN NoMark
          ELSE IF SatSub(now, start.slot) = 0 THEN NoMark
          ELSE wrapSub(cum, start.cum_sol_per_tok) \div SatSub(now, start.slot)
  BY DEF readTwapSolPerTok, price_q64
<1>3. eligible = OldEnough(o, now, k)
  BY <1>1 DEF OldEnough
<1>4. eligible # {} => start = WindowStart(o, now, k)
  <2>1. start = LoopKeeps(obs, eligible)
    BY DEF LoopKeeps
  <2> HIDE DEF eligible, start
  <2> QED BY <1>3, <2>1, LoopStart
<1>5. view.tok # 0 => cum = accumulate_price(o.cum_sol_per_tok, price, gap)
  <2> SUFFICES ASSUME view.tok # 0
               PROVE  cum = accumulate_price(o.cum_sol_per_tok, price, gap)
    OBVIOUS
  <2>1. price \in Nat
    BY PriceType
  <2> DEFINE c == o.cum_sol_per_tok
             x == price * gap
  <2>2. x \in Nat /\ c \in Int
    BY <1>1, <2>1, MulPos
  <2>3. cum = (c + (x % CUM_MOD)) % CUM_MOD
    BY DEF wrapAdd, wrapMul
  <2>4. accumulate_price(c, price, gap) = (c + x) % CUM_MOD
    BY DEF accumulate_price
  <2> HIDE DEF c, x
  <2>5. (c + (x % CUM_MOD)) % CUM_MOD = (c + x) % CUM_MOD
    BY <2>2, InnerMod
  <2> QED BY <2>3, <2>4, <2>5 DEF c
<1>6. wrapSub(cum, start.cum_sol_per_tok) = (cum - start.cum_sol_per_tok) % CUM_MOD
  BY DEF wrapSub
<1>7. read_twap_sol_per_tok(o, view.sol, view.tok, now, k)
        = IF view.tok = 0 \/ OldEnough(o, now, k) = {} THEN NoMark
          ELSE IF SatSub(now, WindowStart(o, now, k).slot) = 0 THEN NoMark
          ELSE ((accumulate_price(o.cum_sol_per_tok, price, gap)
                   - WindowStart(o, now, k).cum_sol_per_tok) % CUM_MOD)
                 \div SatSub(now, WindowStart(o, now, k).slot)
  BY DEF read_twap_sol_per_tok
<1> HIDE DEF eligible, start, cum, price, gap
<1> QED BY <1>2, <1>3, <1>4, <1>5, <1>6, <1>7

-----------------------------------------------------------------------------
(* The pool's oracle under the clients' swaps, and what remains true of an *)
(* oracle that was read long ago: prices since its snapshots are known,    *)
(* and its head has gained an integral of them.                            *)
Remains(o) ==
  /\ RingGood(o) /\ o.last_cum_slot <= slot /\ Integrates(o, seen, skipped)
  /\ \A i \in Index : o.observations[i].slot # 0 =>
       created /\ (o.observations[i].slot)..slot \subseteq DOMAIN seen
View == [stage : {"none", "account", "ready"}, sol : Nat, tok : Nat, oracle : Oracle]
ViewInv == view \in View /\ Remains(view.oracle)
ReadInv == RingInv /\ MarkInv /\ ViewInv

LEMMA SwapTrades ==
  ASSUME ClientInv, NEW u \in Users, handleSwap(u)
  PROVE  Traded /\ Recorded
<1>1. \/ handle_buy(u, u, order.amount, order.minimum)
      \/ handle_sell(u, u, order.amount, order.minimum)
  BY DEF handleSwap
<1>2. Traded
  BY <1>1 DEF handle_buy, BuyAccepted, handle_sell, SellAccepted, AdvanceOracle, HasReserves,
              Traded, Called
<1> QED BY <1>2 DEF handleSwap

(* What any step of the system is to the oracle and to its history.        *)
LEMMA ReadStep ==
  ASSUME ClientInv, ReadInv, [CNext]_cvars
  PROVE  /\ Sound' /\ (Idle \/ Born \/ Traded)
         /\ Remembers \/ UNCHANGED hvars
<1>1. Sound /\ Sound' /\ SeenInv
  BY ClientInvStep DEF ClientInv, ReadInv, MarkInv
<1>2. CASE HNext
  <2>1. Idle \/ Born \/ Traded
    BY <1>1, <1>2, HistoryStep, OracleMoves
  <2> QED BY <1>1, <1>2, <2>1, TickRemembers, StepRemembers DEF HNext
<1>3. CASE ClientStep \/ UNCHANGED cvars
  <2>1. UNCHANGED hvars
    BY <1>3 DEF ClientStep, update, getAccountInfo, getTokenAccountBalance, ShowQuote, cvars
  <2> QED BY <1>1, <2>1, OracleMoves DEF hvars
<1>4. ASSUME NEW u \in Users, handleSwap(u)
      PROVE  Traded /\ Remembers
  <2>1. Traded /\ Recorded
    BY <1>4, SwapTrades
  <2> QED BY <1>1, <2>1, CallRemembers DEF Traded
<1> QED BY <1>1, <1>2, <1>3, <1>4 DEF CNext

LEMMA RemainsLonger ==
  ASSUME NEW o \in Oracle, Remains(o), Sound, Sound', Idle \/ Born \/ Traded,
         Remembers \/ UNCHANGED hvars
  PROVE  Remains(o)'
<1>1. slot \in Nat /\ slot' \in Nat /\ (created => created')
  BY DEF Sound, TypeOK, Idle, Born, Traded
<1>2. o.last_cum_slot \in Nat /\ \A i \in Index : o.observations[i].slot \in Nat
  BY DEF Oracle, Observation
<1>3. CASE UNCHANGED hvars
  BY <1>3 DEF Remains, hvars, vars, history
<1>4. CASE Remembers
  <2>1. /\ slot' >= slot /\ skipped \subseteq skipped'
        /\ \A s \in DOMAIN seen : s \in DOMAIN seen' /\ seen[s] \subseteq seen'[s]
        /\ created => (slot + 1)..slot' \subseteq DOMAIN seen'
    BY <1>4 DEF Remembers, SeenGrows
  <2>2. o.last_cum_slot <= slot'
    BY <1>1, <1>2, <2>1 DEF Remains
  <2>3. ASSUME NEW i \in Index, o.observations[i].slot # 0
        PROVE  created' /\ (o.observations[i].slot)..slot' \subseteq DOMAIN seen'
    <3>1. created /\ (o.observations[i].slot)..slot \subseteq DOMAIN seen
      BY <2>3 DEF Remains
    <3>2. ASSUME NEW s \in (o.observations[i].slot)..slot' PROVE s \in DOMAIN seen'
      <4>1. s \in (o.observations[i].slot)..slot \/ s \in (slot + 1)..slot'
        BY <1>1, <1>2
      <4> QED BY <2>1, <3>1, <4>1
    <3> QED BY <1>1, <3>1, <3>2
  <2>4. ASSUME NEW i \in Index, o.observations[i].slot # 0,
               NEW s \in (o.observations[i].slot)..(o.last_cum_slot)
        PROVE  seen[s] \subseteq seen'[s]
    <3>1. s \in (o.observations[i].slot)..slot
      BY <1>1, <1>2 DEF Remains
    <3>2. s \in DOMAIN seen
      BY <2>4, <3>1 DEF Remains
    <3> QED BY <2>1, <3>2
  <2>5. Integrates(o, seen', skipped')
    BY <2>1, <2>4, IntegratesMore DEF Remains
  <2> QED BY <2>2, <2>3, <2>5 DEF Remains
<1> QED BY <1>3, <1>4

LEMMA ViewStep ==
  ASSUME ClientInv, ReadInv, [CNext]_cvars
  PROVE  ViewInv'
<1>1. /\ Sound /\ Sound' /\ (Idle \/ Born \/ Traded)
      /\ Remembers \/ UNCHANGED hvars
  BY ReadStep DEF ClientInv
<1>2. view \in View /\ view.oracle \in Oracle /\ Remains(view.oracle)
  BY DEF ReadInv, ViewInv, View
<1>3. PICK o : o = view.oracle
  OBVIOUS
<1>4. o \in Oracle /\ Remains(o)'
  BY <1>1, <1>2, <1>3, RemainsLonger
<1>5. CASE view' = view
  BY <1>2, <1>3, <1>4, <1>5 DEF ViewInv, Remains
<1>6. CASE getTokenAccountBalance
  <2>1. view' = [view EXCEPT !.stage = "ready", !.tok = vault]
    BY <1>6 DEF getTokenAccountBalance
  <2>2. vault \in Nat
    BY <1>1 DEF Sound, TypeOK
  <2>3. view' \in View /\ view'.oracle = o
    BY <1>2, <1>3, <2>1, <2>2 DEF View
  <2> QED BY <1>4, <2>3 DEF ViewInv, Remains
<1>7. CASE getAccountInfo
  <2>1. /\ created /\ UNCHANGED hvars
        /\ view' = [stage |-> "account", sol |-> lamports - RENT, tok |-> 0,
                    oracle |-> oracle]
    BY <1>7 DEF getAccountInfo
  <2>2. lamports - RENT \in Nat /\ oracle \in Oracle
    BY <1>1, <2>1, PoolAssumption DEF Sound, TypeOK, Alive
  <2>3. Remains(oracle)
    BY DEF ReadInv, RingInv, MarkInv, SeenInv, Known, Remains
  <2>4. view' \in View /\ view'.oracle = oracle
    BY <2>1, <2>2 DEF View
  <2> QED BY <2>1, <2>3, <2>4 DEF ViewInv, Remains, hvars, vars, history
<1> QED BY <1>5, <1>6, <1>7
        DEF CNext, ClientStep, clients, cvars, update, ShowQuote, handleSwap

LEMMA ReadInvStep ==
  ASSUME ClientInv, ReadInv, [CNext]_cvars
  PROVE  ReadInv'
<1>1. /\ Sound' /\ (Idle \/ Born \/ Traded)
      /\ Remembers \/ UNCHANGED hvars
  BY ReadStep
<1>2. RingInv'
  BY <1>1, RingStep DEF ReadInv
<1>3. MarkInv'
  <2>1. CASE Remembers
    BY <1>1, <1>2, <2>1, MarkStep DEF ReadInv
  <2>2. CASE UNCHANGED hvars
    <3>1. UNCHANGED <<oracle, created, slot, sol_reserve, vault, seen, skipped>>
      BY <2>2 DEF hvars, vars, history, sol_reserve
    <3> QED BY <3>1 DEF ReadInv, MarkInv, SeenInv, Known, Spot, sol_reserve
  <2> QED BY <1>1, <2>1, <2>2
<1> QED BY <1>2, <1>3, ViewStep DEF ReadInv

LEMMA ReadInvFirst ==
  ASSUME CInit
  PROVE  ReadInv
<1>1. RingInv /\ MarkInv
  BY InitRing, InitMark DEF CInit, HInit
<1>2. view = [stage |-> "none", sol |-> 0, tok |-> 0, oracle |-> init_oracle(0)]
  BY DEF CInit
<1>3. oracle = init_oracle(0)
  BY DEF CInit, HInit, Init
<1>4. oracle \in Oracle /\ Remains(oracle)
  BY <1>1 DEF RingInv, MarkInv, SeenInv, Known, Remains, Sound, TypeOK
<1>5. view \in View /\ view.oracle = oracle
  BY <1>2, <1>3, <1>4 DEF View
<1> QED BY <1>1, <1>4, <1>5 DEF ReadInv, ViewInv

LEMMA ReadersInv == CSpec => []ReadInv
<1>1. CInit => ReadInv
  BY ReadInvFirst
<1>2. ClientInv /\ ReadInv /\ [CNext]_cvars => ReadInv'
  BY ReadInvStep
<1> QED BY <1>1, <1>2, ClientsInv, PTL DEF CSpec

(* twap.ts returns the program's mark, or its refusal, from the same       *)
(* account, reserves and slot: for every ring, modulus and window.         *)
THEOREM MirrorIsFaithful == CSpec => []MirrorAgrees
<1>1. ReadInv => MirrorAgrees
  <2> SUFFICES ASSUME ReadInv, Ready, view.sol = sol_reserve, view.tok = vault,
                      view.oracle = oracle, NEW k \in Lookbacks
               PROVE  readTwapSolPerTok(slot, k) = Mark(k)
    BY DEF MirrorAgrees
  <2>1. /\ view.oracle \in Oracle /\ RingGood(view.oracle)
        /\ view.sol \in Nat /\ view.tok \in Nat /\ slot \in Nat /\ k \in Nat
    BY PoolAssumption DEF ReadInv, ViewInv, View, Remains, RingInv, Sound, TypeOK
  <2>2. readTwapSolPerTok(slot, k)
          = read_twap_sol_per_tok(view.oracle, view.sol, view.tok, slot, k)
    BY <2>1, MirrorReads
  <2> QED BY <2>2 DEF Mark
<1> QED BY <1>1, ReadersInv, PTL

(* A mark computed from an account that was read long ago, with reserves   *)
(* that belong together, is an average of prices shown in its window.      *)
THEOREM OldMarksAreAverages == CSpec => []OldReadStillAverages
<1>1. ReadInv => OldReadStillAverages
  <2> SUFFICES ASSUME ReadInv, Ready, NEW k \in Lookbacks, WindowIsTrue(k),
                      price_q64(view.sol, view.tok) \in PricesInWindow(k)
               PROVE  AnAverage(k)
    BY DEF OldReadStillAverages
  <2> DEFINE start == WindowStart(view.oracle, slot, k).slot
             prices == PricesInWindow(k)
  <2>1. /\ view.oracle \in Oracle /\ Remains(view.oracle)
        /\ view.sol \in Nat /\ view.tok \in Nat /\ slot \in Nat /\ k \in Nat
    BY PoolAssumption DEF ReadInv, ViewInv, View, RingInv, Sound, TypeOK
  <2>2. readTwapSolPerTok(slot, k)
          = read_twap_sol_per_tok(view.oracle, view.sol, view.tok, slot, k)
    BY <2>1, MirrorReads DEF Remains
  <2>3. read_twap_sol_per_tok(view.oracle, view.sol, view.tok, slot, k) # NoMark
    BY <2>2 DEF WindowIsTrue
  <2>4. OldEnough(view.oracle, slot, k) # {}
    BY <2>3 DEF read_twap_sol_per_tok
  <2>5. PICK i \in Index : view.oracle.observations[i].slot = start /\ start # 0
    BY <2>1, <2>4, WindowSeen DEF Remains
  <2>6. start..slot \subseteq DOMAIN seen
    BY <2>1, <2>5 DEF Remains
  <2>7. prices \subseteq Nat
    BY <2>6 DEF PricesInWindow, ReadInv, MarkInv, SeenInv
  <2>8. TrueReading(view.oracle, view.sol, view.tok, slot, k, seen, skipped, prices)
    BY <2>1, <2>7 DEF TrueReading, Remains, WindowIsTrue, PricesInWindow
  <2>9. Averages(readTwapSolPerTok(slot, k), prices)
    BY <2>2, <2>3, <2>8, AverageOf
  <2> QED BY <2>9 DEF Averages, AnAverage
<1> QED BY <1>1, ReadersInv, PTL
=============================================================================
