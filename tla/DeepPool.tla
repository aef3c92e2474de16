------------------------------ MODULE DeepPool ------------------------------
(***************************************************************************)
(* One pool of programs/deep_pool: its SOL (the lamports of the pool PDA   *)
(* above rent), its token vault, its LP mint with the share locked in the  *)
(* pool's own LP account, and its TWAP oracle, together with the wallets   *)
(* of the users that call it.  Every instruction is one atomic action: a   *)
(* Solana transaction commits whole or reverts whole, so a `require!` or a *)
(* failed CPI is a conjunct of the guard.                                  *)
(*                                                                         *)
(* The actions of the last group are not instructions of the program: the  *)
(* System and Token-2022 programs let anyone do them to the accounts the   *)
(* pool reads its reserves and supply from.                                *)
(***************************************************************************)
EXTENDS PoolMath, TwapOracle, Wallets

CONSTANTS Users,
          RENT,                     \* Rent::minimum_balance(Pool::LEN)
          MIN_INITIAL_SOL,          \* constants.rs:19
          MIN_INITIAL_TOKENS,       \* constants.rs:22
          MIN_POOL_RESERVE_SOL,     \* constants.rs:30
          MIN_POOL_RESERVE_TOKENS,  \* constants.rs:31
          TRANSFER_FEE_BPS,         \* Token-2022 TransferFeeConfig of the mint
          MAX_TRANSFER_FEE,
          SolEndowment, TokEndowment,  \* what each user's wallet starts with
          StartSlot,                \* the slot the model starts in
          \* The arguments that callers may pass:
          InitialAmounts,           \* create_pool: <<sol, tokens>>
          SwapAmounts, DepositAmounts, RedeemAmounts,
          Bounds,                   \* minimum outputs
          MaxBounds,                \* maximum SOL of add_liquidity
          GiftAmounts,              \* transfers straight to the pool's accounts
          SlotSteps,                \* how far the clock may move at once
          Lookbacks                 \* windows that readers of the oracle ask for

ASSUME PoolAssumption ==
  /\ RENT \in Nat
  /\ MIN_INITIAL_SOL \in Nat \ {0} /\ MIN_INITIAL_TOKENS \in Nat \ {0}
  /\ MIN_POOL_RESERVE_SOL \in Nat \ {0} /\ MIN_POOL_RESERVE_TOKENS \in Nat \ {0}
  /\ TRANSFER_FEE_BPS \in 0..10000 /\ MAX_TRANSFER_FEE \in Nat
  /\ SolEndowment \in [Users -> Nat] /\ TokEndowment \in [Users -> Nat]
  /\ StartSlot \in Nat /\ StartSlot >= MIN_OBS_SPACING_SLOTS
  /\ InitialAmounts \subseteq Nat \X Nat
  /\ SwapAmounts \subseteq Nat /\ DepositAmounts \subseteq Nat
  /\ RedeemAmounts \subseteq Nat /\ GiftAmounts \subseteq Nat
  /\ Bounds \subseteq Nat /\ MaxBounds \subseteq Nat
  /\ SlotSteps \subseteq Nat \ {0} /\ Lookbacks \subseteq Nat \ {0}

(* Lamports, and the units of a mint, are counted in a u64.                *)
ASSUME EndowmentAssumption ==
  /\ IsFiniteSet(Units(SolEndowment)) /\ InWallets(SolEndowment) <= U64_MAX
  /\ IsFiniteSet(Units(TokEndowment)) /\ InWallets(TokEndowment) <= U64_MAX

(* The creation gates are high enough for the born lock to be a unit of LP *)
(* at least (in the program: 13,942 units of the 69,710 that 5 SOL and one *)
(* token unit mint).                                                       *)
ASSUME BornLockAssumption ==
  (integer_sqrt(MIN_INITIAL_SOL) - MIN_LIQUIDITY) * LP_LOCK_CREATOR_BPS >= 10000

VARIABLES created,   \* the pool account exists
          lamports,  \* balance of the pool PDA, rent included
          vault,     \* token_vault.amount
          supply,    \* lp_mint.supply
          locked,    \* pool_lp_account.amount
          oracle,    \* the TWAP fields of Pool
          sol, tok, lp,  \* the wallets: lamports, tokens and LP of each user
          withheld,  \* tokens withheld by the transfer fee
          slot,      \* Clock::get()?.slot
          last       \* the last committed call: arguments, and amounts it reports

reserves == <<created, lamports, vault>>
shares == <<supply, locked, lp>>
vars == <<created, lamports, vault, supply, locked, oracle, sol, tok, lp,
          withheld, slot, last>>

-----------------------------------------------------------------------------
(* Pool::sol_reserve                                                       *)
sol_reserve == SatSub(lamports, RENT)

(* Token-2022 withholds ceil(amount * bps / 10000), at most the maximum,   *)
(* from what the recipient is credited with.                               *)
TransferFee(amount) ==
  Smaller(CeilDiv(amount * TRANSFER_FEE_BPS, 10000), MAX_TRANSFER_FEE)
Net(amount) == amount - TransferFee(amount)

Called(op, user, bound, paid, got) ==
  [op |-> op, user |-> user, bound |-> bound, paid |-> paid, got |-> got]

Init ==
  /\ created = FALSE /\ lamports = 0 /\ vault = 0
  /\ supply = 0 /\ locked = 0
  /\ oracle = init_oracle(0)
  /\ sol = SolEndowment /\ tok = TokEndowment /\ lp = [u \in Users |-> 0]
  /\ withheld = 0
  /\ slot = StartSlot
  /\ \E u \in Users : last = Called("none", u, 0, 0, 0)

(* A pool that trades: the EmptyPool gates of the handlers.                *)
HasReserves == created /\ sol_reserve > 0 /\ vault > 0

(* What an instruction does to the accounts, CPI by CPI.  The vault is     *)
(* credited with what arrives, and a user with what is left of what the    *)
(* vault pays.                                                             *)
DepositTokens(user, amount) ==
  /\ tok[user] >= amount
  /\ tok' = [tok EXCEPT ![user] = @ - amount]
  /\ vault' = vault + Net(amount)
  /\ withheld' = withheld + TransferFee(amount)
PayTokens(user, amount) ==
  /\ vault' = vault - amount
  /\ tok' = [tok EXCEPT ![user] = @ + Net(amount)]
  /\ withheld' = withheld + TransferFee(amount)
DepositSol(source, amount) ==
  /\ sol[source] >= amount
  /\ sol' = [sol EXCEPT ![source] = @ - amount]
  /\ lamports' = lamports + amount
PaySol(sink, amount) ==
  /\ lamports' = lamports - amount
  /\ sol' = [sol EXCEPT ![sink] = @ + amount]
\* Mutant: the user gets the locked share too.
MintLp_all_to_user(user, amount, lp_burn) ==
  /\ supply' = supply + amount
  /\ lp' = [lp EXCEPT ![user] = @ + amount]
  /\ locked' = locked + lp_burn
(* mint_to twice: what is not locked to the user, lp_burn to the pool.     *)
MintLp(user, amount, lp_burn) ==
  /\ supply' = supply + amount
  /\ lp' = [lp EXCEPT ![user] = @ + (amount - lp_burn)]
  /\ locked' = locked + lp_burn
\* Mutant: burns more than the account holds.
BurnLp_unchecked(user, amount) ==
  /\ supply' = supply - amount
  /\ lp' = [lp EXCEPT ![user] = @ - amount]
  /\ UNCHANGED locked
\* Mutant: burns from the pool's LP account.
BurnLp_from_pool(user, amount) ==
  /\ locked >= amount
  /\ supply' = supply - amount
  /\ locked' = locked - amount
  /\ UNCHANGED lp
BurnLp(user, amount) ==
  /\ lp[user] >= amount
  /\ supply' = supply - amount
  /\ lp' = [lp EXCEPT ![user] = @ - amount]
  /\ UNCHANGED locked
\* Mutant: accumulates the reserves the swap leaves.
AdvanceOracle_after_swap ==
  oracle' = record_observation(oracle, sol_reserve', vault', slot)
(* The oracle accumulates the reserves from before the swap.               *)
AdvanceOracle == oracle' = record_observation(oracle, sol_reserve, vault, slot)

-----------------------------------------------------------------------------
(* create_pool::handler with the account constraints: `creator` pays the   *)
(* rent that the PDA lacks and the tokens, `source` pays the SOL.  LP is   *)
(* minted on the declared SOL and the received tokens.                     *)
create_pool(creator, source, sol_amount, token_amount) ==
  LET net_tokens == Net(token_amount)
      root == integer_sqrt(sol_amount * net_tokens)
      lp_total == root - MIN_LIQUIDITY
      lp_burn == CreatorLock(lp_total)
      rent_due == SatSub(RENT, lamports)
  IN /\ ~created
     /\ sol_amount >= MIN_INITIAL_SOL
     /\ token_amount >= MIN_INITIAL_TOKENS
     /\ net_tokens > 0
     /\ root > MIN_LIQUIDITY
     /\ lp_total > lp_burn
     /\ DepositTokens(creator, token_amount)
     /\ sol[creator] >= rent_due
     /\ sol[source] >= sol_amount + (IF source = creator THEN rent_due ELSE 0)
     /\ sol' = [[sol EXCEPT ![creator] = @ - rent_due] EXCEPT ![source] = @ - sol_amount]
     /\ lamports' = lamports + rent_due + sol_amount
     /\ MintLp(creator, lp_total, lp_burn)
     /\ created' = TRUE
     /\ oracle' = init_oracle(slot)
     /\ last' = Called("create", creator, 0, sol_amount, lp_total - lp_burn)
     /\ UNCHANGED slot

(* What a swap of `amount_in` pays, and whether the transaction commits:   *)
(* every `require!` on the way, and the balance that the System Program    *)
(* or Token-2022 asks for.                                                 *)
BuyOutput(amount_in) ==
  calc_swap_output(amount_in - calc_swap_fee(amount_in), sol_reserve, vault)
BuyAccepted(source, amount_in, minimum_out) ==
  LET pool_fee == calc_swap_fee(amount_in)
      tokens_out == BuyOutput(amount_in)
  IN /\ amount_in > 0
     /\ HasReserves
     /\ pool_fee # None /\ pool_fee <= amount_in
     /\ tokens_out # None
     /\ tokens_out >= minimum_out
     /\ tokens_out < vault
     /\ sol[source] >= amount_in

(* A sell is priced on the reserves read before the transfer in.           *)
SellOutput(amount_in) ==
  LET net_received == Net(amount_in)
  IN calc_swap_output(net_received - calc_swap_fee(net_received), vault, sol_reserve)
SellAccepted(user, amount_in, minimum_out) ==
  LET net_received == Net(amount_in)
      pool_fee == calc_swap_fee(net_received)
      sol_out == SellOutput(amount_in)
  IN /\ amount_in > 0
     /\ HasReserves
     /\ net_received > 0
     /\ pool_fee # None /\ pool_fee <= net_received
     /\ sol_out # None
     /\ sol_out >= minimum_out
     /\ sol_out < sol_reserve
     /\ SatSub(lamports, sol_out) >= RENT
     /\ tok[user] >= amount_in

(* swap::handler with buy = true: SOL from `source`, tokens to `user`.     *)
handle_buy(user, source, amount_in, minimum_out) ==
  /\ BuyAccepted(source, amount_in, minimum_out)
  /\ DepositSol(source, amount_in)
  /\ PayTokens(user, BuyOutput(amount_in))
  /\ AdvanceOracle
  /\ last' = Called("buy", user, minimum_out, amount_in, BuyOutput(amount_in))
  /\ UNCHANGED <<created, shares, slot>>

(* swap::handler with buy = false: tokens from `user`, SOL to `source`.    *)
handle_sell(user, source, amount_in, minimum_out) ==
  /\ SellAccepted(user, amount_in, minimum_out)
  /\ DepositTokens(user, amount_in)
  /\ PaySol(source, SellOutput(amount_in))
  /\ AdvanceOracle
  /\ last' = Called("sell", user, minimum_out, amount_in, SellOutput(amount_in))
  /\ UNCHANGED <<created, shares, slot>>

\* Mutant: the reserves in the wrong order.
worst_case_sol_swapped(token_amount) ==
  calc_proportional_ceil(token_amount, sol_reserve, vault)
(* The SOL side of a deposit of that many tokens.  The bound is checked on *)
(* the gross amount, the charge is computed on the net one.                *)
worst_case_sol(token_amount) == calc_proportional_ceil(token_amount, vault, sol_reserve)
sol_required(net_tokens) == calc_proportional_ceil(net_tokens, vault, sol_reserve)

(* add_liquidity::handler.  The LP bound is checked on lp_amount, of which *)
(* lp_burn then stays in the pool.                                         *)
add_liquidity(provider, token_amount, max_sol_amount, min_lp_out) ==
  LET net_tokens == Net(token_amount)
      sol_in == sol_required(net_tokens)
      lp_amount == calc_lp_mint(supply, net_tokens, vault)
      lp_burn == ProviderLock(lp_amount)
  IN /\ token_amount > 0
     /\ HasReserves
     /\ supply > 0
     /\ worst_case_sol(token_amount) > 0
     /\ worst_case_sol(token_amount) <= max_sol_amount
     /\ net_tokens > 0
     /\ sol_in > 0
     /\ lp_amount > 0
     /\ lp_amount >= min_lp_out
     /\ lp_amount > lp_burn
     /\ supply + lp_amount <= U64_MAX
     /\ DepositTokens(provider, token_amount)
     /\ DepositSol(provider, sol_in)
     /\ MintLp(provider, lp_amount, lp_burn)
     /\ last' = Called("add", provider, <<max_sol_amount, min_lp_out>>,
                       sol_in, lp_amount - lp_burn)
     /\ UNCHANGED <<created, oracle, slot>>

\* Mutant: values LP against the supply that is not locked.
RedeemedSol_of_circulating(lp_amount) ==
  calc_lp_redeem(lp_amount, sol_reserve, supply - locked)
(* What `lp_amount` LP redeems, and the retention floor on what stays.     *)
RedeemedSol(lp_amount) == calc_lp_redeem(lp_amount, sol_reserve, supply)
RedeemedTokens(lp_amount) == calc_lp_redeem(lp_amount, vault, supply)
\* Mutant: the creation gates as the retention floor.
AboveRetentionFloor_of_creation(sol_out, tokens_out) ==
  /\ sol_reserve - sol_out >= MIN_INITIAL_SOL
  /\ vault - tokens_out >= MIN_INITIAL_TOKENS
AboveRetentionFloor(sol_out, tokens_out) ==
  /\ sol_reserve - sol_out >= MIN_POOL_RESERVE_SOL
  /\ vault - tokens_out >= MIN_POOL_RESERVE_TOKENS

(* What commits a redemption: the account constraint on the provider's LP, *)
(* and every `require!` of the handler.                                    *)
RemoveAccepted(provider, lp_amount, min_sol_out, min_tokens_out) ==
  LET sol_out == RedeemedSol(lp_amount)
      tokens_out == RedeemedTokens(lp_amount)
  IN /\ lp[provider] >= lp_amount
     /\ lp_amount > 0
     /\ HasReserves
     /\ supply > 0
     /\ sol_out # None /\ tokens_out # None
     /\ sol_out >= min_sol_out
     /\ tokens_out >= min_tokens_out
     /\ AboveRetentionFloor(sol_out, tokens_out)

(* remove_liquidity::handler                                               *)
remove_liquidity(provider, lp_amount, min_sol_out, min_tokens_out) ==
  LET sol_out == RedeemedSol(lp_amount)
      tokens_out == RedeemedTokens(lp_amount)
  IN /\ RemoveAccepted(provider, lp_amount, min_sol_out, min_tokens_out)
     /\ BurnLp(provider, lp_amount)
     /\ PayTokens(provider, tokens_out)
     /\ PaySol(provider, sol_out)
     /\ last' = Called("remove", provider, <<min_sol_out, min_tokens_out>>,
                       lp_amount, <<sol_out, tokens_out>>)
     /\ UNCHANGED <<created, oracle, slot>>

-----------------------------------------------------------------------------
(* What other programs let users do to the pool's accounts: send lamports  *)
(* to the PDA (before it is created too) or tokens to the vault, and move  *)
(* or burn their own LP.                                                   *)
gift_sol(user, amount) ==
  /\ DepositSol(user, amount)
  /\ last' = Called("gift_sol", user, 0, amount, 0)
  /\ UNCHANGED <<created, vault, shares, oracle, tok, withheld, slot>>

gift_tokens(user, amount) ==
  /\ created
  /\ DepositTokens(user, amount)
  /\ last' = Called("gift_tokens", user, 0, amount, 0)
  /\ UNCHANGED <<created, lamports, shares, oracle, sol, slot>>

(* The LP account of the pool PDA accepts transfers like any other: LP     *)
(* sent there is locked.                                                   *)
lp_to_pool(user, amount) ==
  /\ lp[user] >= amount
  /\ lp' = [lp EXCEPT ![user] = @ - amount]
  /\ locked' = locked + amount
  /\ last' = Called("lp_to_pool", user, 0, amount, 0)
  /\ UNCHANGED <<reserves, supply, oracle, sol, tok, withheld, slot>>

lp_transfer(user, to, amount) ==
  /\ user # to
  /\ lp[user] >= amount
  /\ lp' = [lp EXCEPT ![user] = @ - amount, ![to] = @ + amount]
  /\ last' = Called("lp_transfer", user, 0, amount, 0)
  /\ UNCHANGED <<reserves, supply, locked, oracle, sol, tok, withheld, slot>>

lp_self_burn(user, amount) ==
  /\ BurnLp(user, amount)
  /\ last' = Called("lp_self_burn", user, 0, amount, 0)
  /\ UNCHANGED <<reserves, oracle, sol, tok, withheld, slot>>

(* The cluster's clock.                                                    *)
advance_slot(step) ==
  /\ slot' = slot + step
  /\ UNCHANGED <<reserves, shares, oracle, sol, tok, withheld, last>>

-----------------------------------------------------------------------------
Create(u) ==
  \E s \in Users, a \in InitialAmounts : create_pool(u, s, a[1], a[2])
Buy(u) == \E s \in Users, a \in SwapAmounts, b \in Bounds : handle_buy(u, s, a, b)
Sell(u) == \E s \in Users, a \in SwapAmounts, b \in Bounds : handle_sell(u, s, a, b)
Add(u) ==
  \E a \in DepositAmounts, m \in MaxBounds, b \in Bounds : add_liquidity(u, a, m, b)
Remove(u) ==
  \E a \in RedeemAmounts, b, c \in Bounds : remove_liquidity(u, a, b, c)
External(u) ==
  \E a \in GiftAmounts :
    \/ gift_sol(u, a)
    \/ gift_tokens(u, a)
    \/ lp_to_pool(u, a)
    \/ lp_self_burn(u, a)
    \/ \E v \in Users : lp_transfer(u, v, a)
Step(u) == Create(u) \/ Buy(u) \/ Sell(u) \/ Add(u) \/ Remove(u) \/ External(u)
Tick == \E d \in SlotSteps : advance_slot(d)

Next == Tick \/ \E u \in Users : Step(u)

Spec == Init /\ [][Next]_vars

-----------------------------------------------------------------------------
(* Type invariant.  `last` is only used to tell calls apart.               *)
Ops == {"none", "create", "buy", "sell", "add", "remove", "gift_sol",
        "gift_tokens", "lp_to_pool", "lp_transfer", "lp_self_burn"}
TypeOK ==
  /\ created \in BOOLEAN
  /\ lamports \in Nat /\ vault \in Nat
  /\ supply \in Nat /\ locked \in Nat
  /\ oracle \in Oracle
  /\ sol \in [Users -> Nat] /\ tok \in [Users -> Nat] /\ lp \in [Users -> Nat]
  /\ withheld \in Nat /\ slot \in Nat
  /\ last.op \in Ops /\ last.user \in Users

(* No LP appears or vanishes: the mint's supply is what the users hold and *)
(* what the pool's account locks, through every mint (two recipients),     *)
(* redemption, transfer and burn.                                          *)
LpAccounted == supply = locked + InWallets(lp)

(* A pool never dies.  Once created it has SOL above rent, tokens, and     *)
(* locked LP that nobody can redeem, so EmptyPool is never again the       *)
(* answer to a swap or a deposit.                                          *)
NeverEmpty ==
  created => /\ sol_reserve > 0 /\ vault > 0
             /\ locked > 0 /\ locked <= supply

(* The LP supply is backed: its square never exceeds the product of the    *)
(* reserves, whatever mix of swaps, deposits, redemptions and gifts the    *)
(* pool went through and however each rounded.                             *)
BackedSupply == created => supply * supply <= sol_reserve * vault

(* What a share of the pool is worth, sqrt(sol * tokens) / supply, never   *)
(* decreases: every rounding favours the pool.                             *)
ShareGrowth ==
  [][created => sol_reserve' * vault' * (supply * supply)
                  >= sol_reserve * vault * (supply' * supply')]_vars

(* Deposits, redemptions and everything that is not a swap leave every     *)
(* remaining share at least as much of each asset as it had.               *)
OthersKeepTheirShare ==
  [][created /\ last'.op \notin {"buy", "sell"} =>
       /\ sol_reserve' * supply >= sol_reserve * supply'
       /\ vault' * supply >= vault * supply']_vars

(* The locked share of the pool, rounded up, is worth the retention floor  *)
(* on both sides: what the comments of the floor call the normal case, up  *)
(* to a decline of the price by more than 90%.                             *)
LockCoversFloor ==
  /\ sol_reserve * locked > (MIN_POOL_RESERVE_SOL - 1) * supply
  /\ vault * locked > (MIN_POOL_RESERVE_TOKENS - 1) * supply

(* Nobody's LP is frozen: as long as the locked share is worth the floor,  *)
(* every holder may redeem any part of what they hold, all of it included, *)
(* whatever the others redeemed before (the retention floor is the dust    *)
(* backstop that its comment says, and no arithmetic on the way fails).    *)
HoldersCanExit ==
  created /\ LockCoversFloor =>
    \A u \in Users : \A a \in 1..lp[u] : RemoveAccepted(u, a, 0, 0)

(* What is locked stays locked: the pool's LP account is never debited.    *)
LockedNeverFalls == [][locked' >= locked]_vars

(* The bounds that a caller gave hold of what moved, not of what was       *)
(* computed first: outputs leave the pool in at least the minimum amount,  *)
(* and a deposit is charged no more SOL than its bound although the bound  *)
(* was checked on another amount.                                          *)
BoundsHonoured ==
  [][slot' = slot =>
       LET u == last'.user b == last'.bound IN
       /\ last'.op = "buy" => vault - vault' >= b
       /\ last'.op = "sell" => lamports - lamports' >= b
       /\ last'.op = "add" => sol[u] - sol'[u] <= b[1]
       /\ last'.op = "remove" => /\ sol'[u] - sol[u] >= b[1]
                                 /\ vault - vault' >= b[2]]_vars

(* The doc comment of AddLiquidityArgs.min_lp_out: the minimum LP that the *)
(* provider must receive after the protocol lock.                          *)
MinLpOutAfterLock ==
  [][slot' = slot /\ last'.op = "add" =>
       lp'[last'.user] - lp[last'.user] >= last'.bound[2]]_vars

-----------------------------------------------------------------------------
(* The oracle as its readers see it.                                       *)
Mark(lookback) == read_twap_sol_per_tok(oracle, sol_reserve, vault, slot, lookback)

(* How many snapshots were written after entry i of the ring.              *)
Age(i) == (oracle.obs_head - 1 - i) % TWAP_RING_SIZE

(* The ring keeps its promise of frequency independence: from the newest   *)
(* entry back, each snapshot is at least one spacing older than the next,  *)
(* across the wrap of obs_head, and none is ahead of the head or the clock.*)
RingOrdered ==
  /\ oracle.last_cum_slot <= slot
  /\ \A i \in Index :
       LET a == oracle.observations[i].slot IN
       /\ a <= oracle.last_cum_slot
       /\ \A j \in Index :
            LET b == oracle.observations[j].slot IN
            Age(i) < Age(j) /\ b # 0 =>
              a >= b + MIN_OBS_SPACING_SLOTS * (Age(j) - Age(i))

(* Moving the mark takes time: a swap, of any size, leaves the mark of its *)
(* own slot where it was, because what it accumulates is the price before  *)
(* it.  For windows within the ring's guaranteed span and pools above the  *)
(* oracle's liquidity floor.                                               *)
MarkTakesTime ==
  [][last'.op \in {"buy", "sell"} /\ slot' = slot /\ sol_reserve >= MIN_SPOT_RESERVE =>
       \A k \in Lookbacks :
         k <= (TWAP_RING_SIZE - 1) * MIN_OBS_SPACING_SLOTS => Mark(k)' = Mark(k)]_vars
=============================================================================
