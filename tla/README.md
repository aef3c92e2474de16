# DeepPool: a TLA+ verification project

DeepPool is a constant-product AMM on Solana (`src/programs/deep_pool`), with an
indexer (`src/indexer`), a TypeScript SDK and web application (`src/packages`) and
an adapter for the Jupiter router (`src/crates/jupiter-amm-deeppool`). This
directory holds TLA+ modules translated from that code, the TLC configurations that
model-check them on small instances, theorems about them checked by TLAPS, and
`PROJECT.json`, which maps every definition to the lines it stands for.

Run inside this directory:

    tlc -workers 2 -config Pool.cfg MCDeepPool       # any .cfg with its MC module
    tlapm DeepPoolProofs.tla                         # any module named *Proofs

## 1. Inventory of the system

### Pool program (`src/programs/deep_pool/src`)

| part | state | operations | what makes it correct |
| --- | --- | --- | --- |
| Arithmetic, `math.rs` | none | fee, swap output, LP mint and redeem, proportional deposit, square root, price, accumulator | each rounding favours the pool; results fit their type; the root loop ends |
| Oracle, `state.rs` | two cumulative prices mod 2^128, `last_cum_slot`, ring of 16 snapshots, `obs_head` | `init_oracle`, `record_observation` (every swap), `read_twap_sol_per_tok` (consumers) | the ring stays ordered and spaced; a mark is an average of prices shown; no swap moves the mark of its own slot |
| Instructions, `instructions/*.rs` | lamports of the pool PDA, token vault, LP mint supply, LP account of the pool (the lock), wallets | `create_pool`, `swap` (buy or sell), `add_liquidity`, `remove_liquidity` | LP accounted; pool never empty; supply backed; nobody diluted; lock permanent; callers' bounds kept |
| Mint gate, `create_pool.rs:33-65` | none | refuses mints with hazardous extensions | |

Instructions are transactions: they commit whole or revert whole, one after another
on the accounts of a pool. What is hard is not concurrency inside an instruction
but *sequences* of legal calls by several users, the roundings along them, and the
steps that no handler makes: lamports and tokens sent straight to the pool's
accounts, LP moved, locked or burned with the token program, a transfer fee of the
mint between what is sent and what arrives, and the cluster clock between swaps.

### Indexer (`src/indexer/src`)

| part | state | operations | what makes it correct |
| --- | --- | --- | --- |
| Subscriber, `stream/grpc.rs` | resume slot, bounded channel (128) | connect, decode a block, reconnect | no block between two connections is lost |
| Writer, `stream/writer.rs` | database tables, checkpoint, pool and LP-supply caches | write one block in a transaction, publish its rows | checkpoint never passes an unwritten block; caches agree with committed rows; replay is idempotent |
| Backfill, `stream/backfill.rs` | cursor, caches of its own | walk history backwards in pages, one transaction per page | no page walked through is left out; the live writer beside it is not harmed; it ends |
| Domain, `domain/*.rs`, `db/01-schema.sql` | tables | inserts keyed by (signature, index), derived reserves | a row is never stored twice or changed |
| API, `api.rs`, `services/*.rs` | none | lists in a REPEATABLE READ snapshot, websocket sessions | a response is one snapshot |
| Broadcast, `contracts.rs` | ring of 1024 frames, receivers | publish after commit, receive, lag | what a slow session misses is known |
| Start-up, `main.rs`, `config.rs`, `db.rs` | none | load the checkpoint and caches, spawn tasks | |

The hard behaviours here are crashes and reconnects between a commit and what
follows it, a failed block followed by a good one, two writers of the same tables,
and events applied in an order that is not the chain's.

### Clients

| part | state | what makes it correct |
| --- | --- | --- |
| SDK event bus, `packages/sdk/src/bus.ts` | socket, timer, time of the last frame seen, pools seen, gap fills under way | what it may miss over reconnects is bounded and known; it gets there; it stays closed |
| SDK quotes and TWAP mirror, `getters.ts`, `twap.ts` | none | agree with the program |
| SDK builders, `transactions.ts`, `pda.ts` | none | encode accounts and arguments |
| Jupiter adapter, `crates/jupiter-amm-deeppool` | cached accounts | a quote equals what the handler would pay, and is given exactly when the handler accepts |
| Web application, `packages/app` | view state | the swap panel does not ask for more than the program pays |

How they interact: the handlers emit events in the transaction; the subscriber
receives blocks with those events, the writer derives reserves and supplies and
stores them; the broadcaster passes committed rows to websocket sessions; the event
bus of the SDK merges those frames with pages of the HTTP API. Readers of the
oracle and the Jupiter adapter read the pool account itself.

## 2. Modules

| module | models | state it declares |
| --- | --- | --- |
| `PoolMath` | `math.rs` and the two lock formulas, as operators | |
| `TwapOracle` | the oracle methods of `state.rs`, as operators on a record | |
| `Wallets` | the total of a balance over the users, as a cardinality | |
| `DeepPool` | one pool with its users, every instruction an action | `created`, `lamports`, `vault`, `supply`, `locked`, `oracle`, `sol`, `tok`, `lp`, `withheld`, `slot`, `last` |
| `DeepPoolHistory` | `DeepPool` with recorders for properties about the past | `birth`, `base`, `seen`, `skipped` |
| `MCDeepPool` | bounds for TLC | `ops` |
| `IntegerSqrt`, `MCIntegerSqrt` | the Newton loop of `integer_sqrt`, an iteration per step | `n`, `x`, `y`, `pc` |
| `EventStore` | what the database promises, abstractly | `stored`, `announced` |
| `Store` | the tables with their keys and sequences, and what one batch of events does to them (`domain/*.rs`, the passes of `write_block`) | `pools`, `reserves`, `swaps`, `liquidity`, two sequences |
| `Indexer` | `run_live`: subscriber, channel, writer, crashes; implements `EventStore` | `tip`, `checkpoint`, `running`, caches, `rx`, stream, `resume`, histories |
| `Backfill` | the `backfill` subcommand beside `Indexer`, on the same `Store` | `phase`, `outcome`, `attempt`, cursor, page, its caches, histories of what it left out |
| `EventBus` | broadcast channel, websocket session and the SDK's bus, from the commit of a block to a handler | `committed`, `sent`, `session`, `pos`, `wire`, the bus's fields, histories |
| `SwapClients` | Jupiter adapter, SDK quotes and TWAP mirror, swap panel, beside `DeepPoolHistory` | `amm`, `view`, `order` |
| `MCIndexer`, `MCBackfill`, `MCEventBus`, `MCSwapClients` | chains, logs and bounds for TLC | |
| `MathLaws` | the laws checked in `kani_proofs.rs`, each for all amounts | |
| `PoolMathProofs` | theorems about `PoolMath` and `MathLaws`, and the arithmetic the others use | |
| `DeepPoolProofs`, `HistoryProofs` | theorems about the pool: holdings; oracle and what is remembered | |
| `SwapClientsProofs` | theorems about adapter, SDK and panel | |
| `IndexerProofs`, `BackfillProofs`, `EventBusProofs` | theorems about the live indexer, the backfill beside it, the bus | |
| `IntegerSqrtProofs` | theorems about the root loop | |

### How `DeepPool` corresponds to the code

- `lamports` is the balance of the pool PDA and `sol_reserve` what it holds above
  rent (`Pool::sol_reserve`, a saturating subtraction); `vault` is
  `token_vault.amount`; `supply` is `lp_mint.supply`; `locked` is the LP account
  that the pool PDA owns. `slot` is the Clock sysvar.
- Actions `create_pool`, `handle_buy`, `handle_sell`, `add_liquidity` and
  `remove_liquidity` are the handlers. A `require!`, a `?` on `None`, and the failure of
  a CPI for lack of balance are conjuncts; the CPIs are the operators
  `DepositTokens`, `PayTokens`, `DepositSol`, `PaySol`, `MintLp` and `BurnLp`. What decides
  whether a swap or a redemption commits is an operator of its own (`BuyAccepted`,
  `SellAccepted`, `RemoveAccepted`), which properties speak of. SOL may come
  from or go to another signer (`sol_source`), so those actions take a second user.
- Failure results (`Option::None`) are `-1`. `U64_MAX` is small in the runs, so
  that `calc_swap_fee`, `try_from` and the mint's own limit really fail there.
- A transfer fee takes `TransferFee(amount)` out of every token transfer; it stays
  withheld outside the vault's amount.
- `gift_sol` (also before creation: the rent top-up of `create_pool` depends on it),
  `gift_tokens`, `lp_to_pool`, `lp_transfer`, `lp_self_burn` and `advance_slot` are not
  code of the repository. They are what the System and Token-2022 programs let
  anyone do to the accounts that `Pool::sol_reserve`, `token_vault.amount` and
  `lp_mint.supply` read, and are marked external.
- `last` records the latest committed call for the action properties; no guard
  reads it. Events are not modelled here; `Indexer` starts from them.

`TwapOracle` keeps the accumulators modulo `CUM_MOD` (2^128 in the program) and prices
with `PRICE_ONE` (2^64). The only caller that writes it is `swap::handler`
(`AdvanceOracle`), with the reserves from before the swap. `Mark(k)` is what a consumer
gets from `read_twap_sol_per_tok`.

`DeepPoolHistory` adds what its properties compare with: what the users held together at
birth (`Purse`), the holdings when the present run of redemptions began, the spot prices shown in
each slot, and the slots that the dust gate skipped.

### How `Store` and `Indexer` correspond to the code

- An event is its position in `Chain`, and the chain is a constant: all that the indexer
  could be told. A record has the slot, the signature as a number (signatures are only
  compared), the index within the transaction, the kind, the pool and the LP supply
  after it; amounts and keys of users are left out, since they are copied.
- A table is a function from what its UNIQUE constraint names (a pubkey, an event) to
  the columns that are derived: the pool id, the LP supply, the serial number.
  `Over` is `ON CONFLICT DO NOTHING`. Ids come from sequences that a rollback does not
  rewind, hence `pool_serial` apart from the tables.
- The passes of `write_block` are `InsertedPools`, `CachedPools` (pass 1), `Known`,
  `LpSupply`, `ReservesRows`, `CachedSupplies` (pass 2) and `InsertAll`. Loops over the sorted
  events became set expressions: the supply of a swap is that of the last event
  before it, in the order of the sort, that carries one.
- `run_live` is start-up; `subscribe_once`, `receive_block`, `FallBackToTip` and `Disconnect`
  are the subscriber; `run_writer(acknowledged)` is a transaction that commits, and
  `WriteFails(reached)` one that does not, by the last statement it reached, because the
  caches are changed on the way. An unacknowledged commit is one whose answer is lost,
  or after which the process dies before it broadcasts. `Crash` loses everything but
  the database.
- A write also fails without a fault, when a cached pool id has no row
  (`ForeignKeysHold`): that happens after the block that created the pool was rolled back.
- `Produce` is the cluster and `Oldest` the replay window of Laserstream; both are
  external. Every slot has a block. `missed` is a history of the slots that failed to be
  written or that a start from the tip jumped over; `published` counts broadcasts of an
  event's reserves row (the other rows of the event go with it, in the same loop).

- A transaction that failed after the program ran has events too, as neither the
  subscriber nor the backfill reads the error of a transaction; such events have
  `ok = FALSE` in the chain.

### How `Backfill` corresponds to the code

- `run` starts the subcommand and loads its caches; `get_signatures` lists a page;
  `decode_tx` fetches one transaction of it, oldest first, or goes on without; `apply_page`
  is the transaction of the page with the stop condition that follows it. `rpc_call_again`
  is a retry within `MAX_HTTP_ATTEMPTS`, `ListingFails` and `PageFails` are the `?` that end
  the run, at the call and in the transaction.
- The passes over a page are those of a block, so `apply_page` uses the operators of `Store`,
  with `its_pools` and `its_supplies` in the place of the live writer's caches.
- `History` is what the node would list: it also has transactions without events.
  `unread` and `unknown` record the two ways of the code to skip what it cannot use.
- Each page, and each block of the live writer, is one step: two Postgres transactions
  that overlap in time are taken as one after the other. The inserts wait for one
  another on the unique keys, and a later SELECT of the same transaction sees what the
  first committed (READ COMMITTED), so the orders left out concern only supplies and ids
  read before the wait.

### How `EventBus` corresponds to the code

- `Commit` and `publish` are `run_writer`; rows are numbered in the order they are
  published, so a frame is a number. `ServerCrash` between the two loses the frames of
  rows that stay in the database.
- `subscribe`, `forward` and `lagged` are `ws_session`: a tokio broadcast receiver that is
  more than the capacity behind goes on with the oldest frame left. The upgrade is
  answered before the session subscribes, hence `session = "upgraded"`.
- `connect`, `open`, `receive`, `on_close`, `close` are the handlers of the bus's socket
  and timer; `fetch`, `dispatch` and `FetchFails` are the three requests of `gapFill`, each a
  request and a later answer, so that frames, cuts and `close` come between. `fills` holds
  every gap fill started: nothing cancels an old one.
- `Limited` is `ORDER BY created_at DESC LIMIT n`: which rows of one second are cut off is
  for the database to choose.
- `first`, `excused` and `early` are histories from which the properties say what the bus could
  not know of.

### How `SwapClients` corresponds to the code

- `update` is the adapter's copy of the three accounts, which the router hands over
  together; `given` records from which balances. `quote_buy` and `quote_sell` are the two
  directions of `quote`, with `Refused` for an error.
- `getAccountInfo` and `getTokenAccountBalance` are the two requests of the SDK;
  `getSwapQuote` and `readTwapSolPerTok` compute on what they returned. Its doubles are kept
  exact: token and lamport amounts below 2^53.
- `ShowQuote` and `handleSwap` are the panel: a quote without transfer fee, less the
  slippage, sent when the button is pressed. The pool changes as it likes in between.

## 3. Runs

| run | question | bounds |
| --- | --- | --- |
| `pool` | Do LP accounting, liveness of the pool, backing, share worth, the lock, the holders' exits and the callers' bounds survive every interleaving of calls? | two users, transfer fee of 10% capped at 2, births <<36,36>>, <<40,70>> and <<60,24>>, retention floors of 6 and 4, four calls and a tick of the clock |
| `free_lunch` | Can any sequence of calls end with the tokens and LP of the start and more SOL? | one user (the users act as a coalition), no transfer fee (the best case for them), six calls, several sizes of each |
| `oracle` | Do ring and marks stay right over time, and is the SDK's mark the program's? | ring of 2 with spacing 2, accumulators modulo 128, five calls in seven slots, windows 1, 2, 4, one reader |
| `quotes` | Do the adapter, the SDK and the panel promise what the program pays and accepts? | one user, transfer fee of 10% capped at 2, three births, amounts 1, 11, 23, four calls |
| `integer_sqrt` | Does the Newton loop return the floor of the root, and end? | arguments to 2000 |
| `indexer` | What do disconnections, crashes, failed and unacknowledged transactions do to rows, caches, derived supplies and announcements, and does the store catch up? | thirteen events of two pools in slots 4 to 8, slot 6 empty, one event reverted; cold start and start from checkpoint 3, buffer of 1, channel of 2, replay window of 2, two faults |
| `backfill` | What does a backfill leave out, what does it do to the live writer and the tables, whose supplies do rows get, and does it end? | seven events in four slots, one transaction without events, pages of two, two runs beside a live indexer, two attempts per call, one transaction that cannot be fetched, one fault |
| `event_bus` | What can a subscriber of the bus miss, does it get the rest, is a closed bus silent? | six rows of three blocks, two of them in one second, channel of three, lists of one, a socket of one frame, two faults |
| `min_lp_out`, `replay_gap`, `backfill_stop`, `bus_gap` | disagreements between a comment or document and the code (section 6) | |

What they show, by property:

- `LpAccounted`, `NeverEmpty`, `BackedSupply`, `ShareGrowth`, `OthersKeepTheirShare`,
  `LockedNeverFalls`: the safety of the pool; also proved (section 5).
- `LockedFloor`: after any run of redemptions, mixed with nothing else, the pool
  keeps at least the locked fraction of what it held (docs/audit.md:473).
- `HoldersCanExit`: while the locked share of the reserves, rounded up, is worth the
  retention floor (`LockCoversFloor`), every holder may redeem any part of their LP, all
  of it included. This is what remove_liquidity.rs:95-102 says of the floor, and what
  was once wrong: with the creation minimums in its place (the mutant) a pool of
  minimal birth refuses every redemption. Sales in the run take pools below the
  condition, so that it holds and fails among the states.
- `BoundsHonoured`: `minimum_out`, `max_sol_amount`, `min_sol_out` and
  `min_tokens_out` bound what moved, although `max_sol_amount` is checked on the
  gross token amount and the charge follows from the net one.
- `NoFreeLunch`: the composite of all roundings and fees, over sequences.
- `RingOrdered`: from the newest entry backwards, over the wrap of `obs_head`,
  entries are at least one spacing apart.
- `MarkWithinSeen`: a mark lies between two prices that were shown in its window,
  through wrap-around of the accumulators, the extension of the head and the search
  of the ring. Redemptions and gifts change reserves without advancing the oracle, and
  the reader prices the time before them at what they left. The run has redemptions, and
  no gifts, for the size of its state space; the theorem (section 5) has both.
- `MarkTakesTime`: a swap, of any size, does not change a mark of its own slot.
- `ReturnsFloorSqrt`, `NeverBelow`, `Terminates`: the loop of `integer_sqrt`.
- `LostOnlyWhenMissed`: up to the checkpoint, an event without a row belongs to a slot
  whose write failed or that was jumped, or to a pool created in such a slot. Nothing
  else is lost: not by a cut, a crash, a replay or a full channel.
- `CacheTrue`: a cached pool id is the one in the table, unless the transaction that was
  to create the pool failed; a replay of that block repairs it.
- `TablesAgree`: the four tables hold the same events under the same pool ids.
- `LatestIsNewest`: the row read as the current reserves of a pool is that pool's newest
  event's, though rows may be inserted out of order (checked with both writers, where they are). Rows lack the position of a transaction in its
  block, so among transactions of one slot any may be taken.
- `LpSupplyRight`: the LP supply put into a swap's row is the one the chain had, through
  restarts and replays; excepted are rows of a pool after a missed slot with an event of
  it, pools with events of one block whose signatures sort against the order of the
  block, or with a supply change that was reverted, and rows after a replay that took
  the cache back to older supplies and was then given up for the tip. All four
  exceptions occur in the run.
- `SupplyAsLastTold`: the same without the chain's order, hence with fewer exceptions: a
  swap's row has the supply of the last event before it, in the writer's order, that told
  one. Reverted events and signatures against the order of the block are no excuse here,
  and a lapse must not outlast the next telling event: excused are only rows of a pool of
  which a block was missed, or whose stream gave its place up, since the last telling
  event, and pools whose creation was missed.
- `KeepsThePromise`: the refinement of `EventStore`: only whole events are added, none
  before its pool, each announced at most once and never before it is stored.
- `LeavesOutOnlyTheUnknown`: of the pages a backfill has walked through every event is
  stored, but for transactions it could not fetch and events whose pool was not in
  the database yet. The second is common: pages come newest first, a pool's creation is
  on the oldest.
- `StaleOnlyAfterRollback`: the backfill stores pools under the live writer's feet, and the
  ids that writer has cached stay right (but for its own rollbacks, as in `CacheTrue`).
- `SuppliesOfThePool`: with a backfill beside the live writer a swap's row may carry a supply
  of another time, or 0 (section 6), but never that of another pool; and it is the right
  one where the event carries it or the swap's own transaction changed it before.
- `BackfillEnds`: each run ends, whatever fails and whatever the live indexer adds.
- `SettledMeansComplete`: once everything under way has arrived, an open bus has every
  event since it was first connected, but for rows it could not know of: frames the
  server skipped for a lagging session, rows that a list left out or whose request
  failed, rows published between the reading of the list and the subscription. Each
  exception names its cause.
- `EverythingArrives`: the bus gets to such a state again and again.
- `ClosedForGood`: after `close` no handler is called and no socket opened, though a timer,
  a socket or a gap fill is under way.
- `QuoteIsReceipt`, `QuotedMeansAccepted`: while the pool is as the adapter saw it, its
  quote is to the unit what the wallet gets, and it quotes exactly what the program accepts.
- `SdkQuoteClose`: the SDK, told the transfer fee's rate, promises at most one token unit
  (or its worth in SOL) more than is paid.
- `QuotedBuyGoesThrough`: a buy that the panel quoted on the present reserves is accepted.
- `MirrorAgrees`: on the same account, reserves and slot the SDK's mark is the program's.
- `OldReadStillAverages`: a mark from an account read long ago is an average of prices
  shown, as long as the two reserves belong to one moment.
- `CatchesUp`: again and again every event up to the tip is stored, but for missed ones.

Why the bounds are enough. Amounts of a few tens make every rounding case of the
formulas appear (remainders zero and not), with a U64_MAX of 300 that is
reached by the product in `calc_swap_fee`. Fee and locks are large fractions so that
they are not always rounded to the minimum. A property over two steps with a
birth before them needs three calls, the deepest mutants (a redemption rounded up
until the backing is gone) need four. `Traders` may be a superset of
`Creators`: who creates does not matter to the others, so one creator is enough
and two users suffice to move LP between wallets. The ring of two entries wraps
after two snapshots, and the swaps of a behaviour pass its head more than once; seven slots exceed both
its span and the longest window, and the accumulators wrap within them. No symmetry is used: users start equal but the
creator differs.

The chain of `indexer` has, for swaps that must remember a supply, a change of it later in
the same block, earlier in it, in an earlier block only, and an event of one pool in
the transaction that creates the other. That transaction also changes the supply of the
older pool, and the block after it swaps in it: a deposit may be missed there and the
supply told again by the next. A window of two slots is both kept and
outrun within the five that have events; a channel of two fills; two faults allow a failure with its
replay, a crash during a replay, and a failed creation followed by the refusal of
what depends on it. With `REORG_BUFFER_SLOTS` = 1 and slots that start at 4, two crashes
cannot walk the checkpoint below the buffer.

In `backfill` a page boundary falls between a pool's creation and its swaps, the page
with the newest pool may be stored by either writer, a page may insert nothing, and
the second run meets what the first left. In `event_bus` the channel is shorter than the
log, so a session lags; a block is cut in two, two blocks share a second, and a list
is longer than its limit; two faults give a reconnect during a gap fill, a close
during a reconnect, and a crash between commit and broadcast followed by a cut.
`quotes` has amounts whose whole input is taken by the fees, and one (23) whose fee
overflows `U64_MAX`.

Fairness of `backfill`: `RunStep` is weakly fair, that is, the process keeps being
scheduled and a call is answered, well or badly; nobody has to start a run. Of
`event_bus`: `Work`, that is, the server's tasks, the timer, and requests and sockets that
are not cut make progress; nothing makes the user call `close`, and faults are bounded.

Runs of `MCIndexer` stop when the chain does (`LastSlot`). Their fairness: docker-compose.yml
restarts the process (`restart: unless-stopped`), its tasks keep being scheduled and
`run_subscriber` reconnects for ever, so `run_live`, `FallBackToTip`, `subscribe_once` and
`receive_block` are weakly fair, and the writer takes the next block of the channel, well
or badly. Nothing makes a write succeed; the number of faults is bounded instead.

Runs of `MCDeepPool` stop at `MaxOps` calls and slot `MaxSlot`, so they do not check for
deadlock; `IntegerSqrt` stops because the function returns. The pool makes no
liveness promise: nothing in it acts by itself. `IntegerSqrt` assumes `WF_vars(Next)`: a loop on a running processor takes its next step.

## 4. Mutants

Next to a definition stands, under the comment `Mutant:`, a variant with a plausible
bug: a rounding in the other direction, a check left out, reserves swapped, the
oracle advanced after the swap. `PROJECT.json` names, for every property of a passing
run, the mutant that makes it fail. No specification uses the variants.

## 5. What is proved

Eight modules of theorems, checked by TLAPS for every value of the constants under the
assumptions that the modules name and TLC evaluates on its instances:

- `MathAssumption`, `OracleAssumption`, `PoolAssumption`, `ClientAssumption`: constants are
  naturals, the fee and locks are fractions, gates, floors, ring size and spacing are
  positive, and the model starts at a slot not below the spacing.
- `EndowmentAssumption`: the lamports, and the units of the mint, that exist in all fit a
  u64 and are finitely many. That is so of any Solana mint and of SOL.
- `BornLockAssumption`: the creation gates give a born lock of one unit or more. In
  the program (integer_sqrt(5 * 10^9) - 1000) * 2000 is 139,420,000, which has to be
  at least 10,000.
- `ChainShape`, `ChainAssumption`: what the program and the cluster guarantee of events:
  slots do not decrease, signatures are unique, a transaction fails whole, a pool is
  created once and before its other events, and swaps leave the LP supply alone.
- `IndexerAssumption`, `StartAssumption`: buffer and window are naturals, the channel
  holds a block, and what precedes the first checkpoint is not part of the chain.
- `BackfillAssumption`: the node's history has every transaction of the chain, in order.
- `BusAssumption`: rows come block by block and table by table, with one time per block.

### The pool

| theorem | says |
| --- | --- |
| `TypeCorrect` | no balance, supply or lock is ever negative; the oracle stays in range |
| `LpIsAccounted` | the supply is the wallets plus the lock |
| `PoolNeverEmpty` | a created pool keeps SOL, tokens and lock for ever |
| `SupplyIsBacked` | supply^2 is at most the product of the reserves |
| `ShareNeverLosesWorth` | no step lowers sqrt(sol * tokens) / supply |
| `OthersAreNotDiluted` | any step but a swap leaves at least as much of each reserve per LP |
| `LockedStaysLocked` | the pool's LP account is never debited |
| `CallersAreBound` | what a swap pays, a deposit takes in SOL and a redemption pays is within the caller's bounds (not `min_lp_out` of a deposit: section 6) |
| `AssetsAreConserved` | lamports, and tokens with what the mint withholds, are neither made nor lost |
| `HoldersMayLeave` | while the lock is worth the retention floor no holder's LP is frozen |
| `ExitsStayOpen` | only trades can end that condition |
| `NoSwapIsTruncated` | in no reachable state does the `as u64` of `calc_swap_output` change a result |
| `LockedShareRemains` | through any run of redemptions the locked share of both reserves remains |
| `NobodyGains` | no sequence of calls gives SOL to users who end with their tokens and LP |
| `RingStaysOrdered` | snapshots are a spacing apart, over the wrap of the head |
| `MarkIsNotMovedBySwaps` | no swap moves a mark of its own slot |
| `MarkIsAnAverage` | a mark lies between two prices shown in its window |

The inductive invariant of the holdings is `IInv == Sound /\ BackedSupply` with
`Sound == TypeOK /\ LpInv /\ Unborn /\ Alive`. The parts need each other:
`remove_liquidity` subtracts from the supply what it burns in one wallet, which is
known to be no more than the supply only from `LpAccounted` (`LpInv`); that the
reserves stay positive (`Alive`) follows from the `<` gates of the swaps and the
retention floor, and the types of the oracle need positive reserves to divide by;
`Unborn` gives `create_pool` an empty mint. The lock stays positive because the
creator's share is at least one (`BornLockAssumption`) and no action debits it.
Every action is shown to have one of two effects on the worth of a share: it keeps
the supply and does not lower the product (`Swapped`), or it keeps each reserve per
LP (`Kept`); `StepGrows` turns both into `ShareGrowth`, and with it the backing at birth
(`root * root <= sol * tokens`) is carried to every later state. Totals of balances
are cardinalities of sets of units (`Wallets`), because a sum over a function
would need induction over data.

`Conserved` says that the pool, the wallets and what is withheld add up to the
endowments; it is inductive beside `Sound`. With `EndowmentAssumption` it bounds the
reserves by a u64, which `SwapsAreExact` needs.

`HoldersMayLeave` needs `LpInv` (what one user holds is at most the supply without the lock),
`Conserved` (the reserves are u64 amounts, so `calc_lp_redeem` does not fail) and
`FloorRemains`: redemptions are rounded down, so what all but the lock can take leaves the
lock's share, rounded up. `LockCoversFloor` is a condition and no invariant: after a decline of the
price, as the comment says, and at birth for a mint with a transfer fee (section 6) the last of
the exits can be refused. `ExitsStayOpen` says who can bring that about: since every step
but a swap is `Kept` and never debits the lock, only trades.

`BirthInv` carries `NoFreeLunch`. It keeps, from birth on, the reserves, the withheld
tokens, supply and lock of that moment as witnesses: conservation ties them to the
users' purse, and the product of the reserves per square of the supply has not
fallen since. Users with their tokens and LP of the start leave the pool no more
tokens and no more supply than it had, so it must have at least the SOL it had, and
conservation leaves no more for them. `BaseInv` is the same argument for the reserve
floor, with the state in which a run of redemptions began as witness.

`RingInv` is `RingOrdered` said of the ages of entries; a snapshot makes every age one
more and is allowed only a spacing after the newest. `MarkTakesTime` follows without
more state: a swap extends the head to the present slot at the price before it, which
is what a reader did, and the entry it may overwrite is not the start of a window
that the ring spans (`NextIsOldEnough`). For `MarkWithinSeen` the invariant `MarkInv` says
that what the head has gained on each snapshot is congruent, modulo `CUM_MOD`, to an
integral that is bounded below and above by any bounds of the prices shown between
(`Integrates`), so that wraps of the accumulators cancel in the difference.

In `create_pool` two wallets are debited that may be one; the model writes the two updates
one inside the other, so that the second reads the first, as the code does.

### The clients

| theorem | says |
| --- | --- |
| `QuotesAreReceipts` | the adapter's quote is to the unit what a swap pays, both directions, fees included |
| `SdkQuotesAreClose` | the SDK's quote exceeds it by at most the transfer fee's rounding |
| `MirrorIsFaithful` | twap.ts returns the program's mark or its refusal from the same data |
| `OldMarksAreAverages` | a mark from an account read any time ago is an average of prices shown |
| `QuotedExactlyWhenAccepted` | on the balances it was given the adapter quotes exactly what the handler's guard accepts |
| `QuotedBuysGoThrough` | a buy quoted on the present reserves passes every gate of the handler |
| `GuardsDecide` | a handler is its guard and an assignment to every variable |

`ClientInv` adds to `Sound` and `Conserved` that the adapter's reserves are those computed
from the balances it was given. What a swap pays is worked out from the handler
(`BuyPays`, `SellPays`) and compared with the quote; the SDK's arithmetic does not cast its
result to a u64 as the program's does, so conservation is needed to know that the cast
changes nothing. `SdkQuotesAreClose` rests on `OneMoreUnit`: one more unit of input is worth
at most the price, rounded up. `ReadInv` says of an account that was read that all
`RingInv` and `MarkInv` say of an oracle remains true of it while the pool goes on
(`RemainsLonger`), since prices are only ever added to what was shown. `MirrorIsFaithful` then is a
statement of arithmetic: reducing a product before or after it is added makes no
difference (`InnerMod`), and the loop over the ring keeps the window's start (`LoopStart`).

Whether the program accepts a swap would be ENABLED of the handler, which TLAPS cannot
expand. The two properties say it with the handler's guard instead, and `GuardsDecide` shows
that this is the same: with the guard the handler is `vars' = ` a tuple of values, which
some step always satisfies. The proof of `QuotedExactlyWhenAccepted` compares gate by
gate: the adapter does not ask whether rent remains after a sell, and need not, because an
output below the reserve leaves it; `is_active` is `HasReserves` on the balances given; and the
wallet's balance, which the adapter cannot know, is the hypothesis of the property.

### The arithmetic

`PoolMathProofs` has the facts on the formulas, among them `SwapOutputNotTruncated`: the
`as u64` cast in `calc_swap_output` never truncates when the output reserve is a u64. It also
proves every law of `MathLaws`: what the Kani harnesses of `kani_proofs.rs` check at a few amounts (symbolic
quotients being beyond Kani's solver, as its comments say) holds for all. Among them
`FeeCompoundsK`: any swap makes the product of the reserves strictly larger;
`SwapMonotonic`, `OutputBounded`, `LpMintProportional`, `CeilRoundsUp`; and
`WindowDifferenceExact`, one accumulation at a time: the difference of two heads is
the sum between them through any number of wraps, while that sum is below 2^128. A
harness's assertion that depends on its amounts (an output above zero, a root above
`MIN_LIQUIDITY`) is stated with the condition that makes it true. `IntegerSqrtProofs` proves
`SqrtCorrect` and `SqrtNeverBelow`: what the loop returns is the floor of the root
for every argument, and no guess falls below the root; and `DistanceHalves`: an iteration at
least halves what a guess is above the root, so that the loop on a u128 has at most 128
of them before the one that returns (the bound behind `Terminates`).

### The indexer and the bus

| theorem | says |
| --- | --- |
| `NothingElseIsLost` | every event up to the checkpoint is stored, but for slots missed and pools created in one |
| `CacheStaysTrue` | a cached pool id is the table's, but after a rolled back creation |
| `TablesStayInAgreement` | keys, foreign keys, and the same events in all tables |
| `LatestStaysNewest` | what is read as the newest row of a pool is |
| `SupplyStaysAsLastTold` | a swap's row has the supply told last, but for what was missed or given up since then |
| `SupplyStaysRight` | every row has the supply of its moment, but for the four exceptions |
| `LiveKeepsThePromise`, `RowsAnnouncedOnce` | the live indexer implements `EventStore` |
| `PagesAreWalkedWhole` | a backfill leaves out only what it could not fetch or place |
| `CacheSurvivesBackfill` | a wrong cached id comes from a roll back, never from the other writer |
| `TablesAgreeBeside`, `NothingElseIsLostBeside`, `BackfillKeepsThePromise` | the same of the two writers together |
| `SuppliesStayInThePool` | with two writers a row's supply is one of its pool, or 0, and right where the transaction tells |
| `RunsWindDown` | every step of a run ends it or goes on to less: an older page, fewer transactions, fewer retries |
| `BusMissesNothingItCouldKnow` | a settled bus has all events but those it could not know of |
| `CloseIsFinal` | after `close` nothing is called or opened |

`LiveInv` is the inductive invariant of the live indexer. `LossInv` says the same thing at
four places: what is behind the checkpoint, behind the slot to resume from, behind
each block of the channel, and behind the stream, is stored, missed, or ahead of
that place in the channel; each handler moves one place over what the next vouches
for. `LiveCache` says that a cached id which is not the table's is of no row at all:
sequences do not go back, so a rolled back id is never given again. `BInv` is `LiveInv` with
the backfill's cursor (`WalkInv`) and its cache. `LiveInv` is stated so that the steps of
the one writer and of the other are proved with the same lemmas on `Over`.

`SupplyInv` is the longest argument. That a swap carries the right supply depends on what
the cache holds when its block is taken from the channel, so the invariant says what the
cache *will* hold after each prefix of the channel (`Queued`) and when the stream has
delivered (`Awaited`), for swaps that are still to come, unless one of the exceptions
of `SupplyAsLastTold` applies. `SupplyStaysRight` follows: where the sort keeps the order of
the chain and nothing was reverted, what was told last is what the chain had
(`ChainOrder`, `SupplyAtSwap`). Two of the exceptions were found while making the invariant
inductive: the missed event must be one of the same pool, and a replay that is given up
leaves older supplies in the cache (`Rewound`). TLC shows that the run reaches each exception.

`SupInv` is `BInv` with the supplies of two writers. Every cached supply belongs to the pool that
the table has under that id, or to an id that no row has or will have; a backfill's cache is
filled from the newest rows (`load_lp_supply_cache`), which exist and are right of their own
pool by induction. Within a page the carry goes through the operators on one batch
(`MirrorSound`, `WritesSound`), and that all events of a transaction are in the same page or
block (`TxStandsTogether`) makes the supply right where the transaction itself changed it.

`RunsWindDown` is the safety half of `BackfillEnds`: position of the cursor, phase, rest of
the page and retries left decrease in lexicographic order. It needs `WalkInv` (the oldest
position of a page is positive and not above the page's end); that such steps are taken at all
is fairness.

`BusInv` says of every row that it was delivered, could not be known, is still to be
asked for, or is on its way: on the wire or in the channel while the session is
subscribed (`Streamed`), or ahead of the reading of its list while it is not
(`ReadInTime`).

### Only model-checked

- `CatchesUp`, `BackfillEnds`, `EverythingArrives` and `Terminates`: liveness under fairness
  (of `BackfillEnds` and `Terminates` the decreasing measure is proved). ENABLED is in no property.
- What a fold or a recursive definition computes for every input.

A theorem says nothing about the code below the model: account constraints and signer
checks of Anchor, the token programs, Postgres, and u128 overflow, which is excluded
by the sizes of the operands.

## 6. Findings

Four runs are expected to fail; each checks a sentence of the repository.

- `min_lp_out`: the bound is documented as what the provider receives after the lock;
  the code compares it with the LP before the lock.
- `replay_gap`: a failed block is said to be re-processed by the replay on the next
  restart; the blocks after it carry the checkpoint past it, and after
  `REORG_BUFFER_SLOTS` of them no restart goes back to it.
- `backfill_stop`: a page without inserts is said to mean "already caught up"; it also
  follows from pools created on an older page, from transactions without events, and
  from the live indexer having stored that page, and the older pages are never read.
- `bus_gap`: reconnects are said to leave no "missed-event" gap; rows of one block share a
  second, `since` excludes it, and a cut between two of their frames loses the rest.

Other disagreements were met while modelling. No run checks them; the properties above
make the exceptions for them.

- `constants.rs:20` (program): the born lock "at or above the token retention floor" is not so for
  a mint with a transfer fee, since MIN_INITIAL_TOKENS is compared with the gross amount.
- `state.rs:153`: the window is not at most lookback + spacing, since only swaps write
  snapshots; a quiet period makes it longer.
- `state.rs:114`: the slots that the dust gate skips still count in the divisor, so they
  weigh in at price zero (`skipped` in `MarkWithinSeen`).
- `grpc.rs:6`: a reconnect resumes from the slot computed at start-up and not from the
  checkpoint; after a start from the tip it jumps to the tip again (`missed`).
- `backfill.rs:9`: the checkpoint does regress, to the slot of every replayed block.
- `grpc.rs:144`, `backfill.rs:394`: events of reverted transactions are stored, and their
  reserves can be the newest of the pool (`Reverted` in `LpSupplyRight`).
- `grpc.rs:7`: "idempotent UPSERTs de-dupe replays": the rows, but not the supply cache,
  which a replay sets back to older events; when the stream then gives its place up for the
  tip, the next swaps carry that supply (`Rewound` in `LpSupplyRight`).
- `events.md:106`: the supply of a swap is not always that of the most recent liquidity
  event. The live writer stores 0 for a pool that the backfill imported after the
  writer started, and the backfill carries newer supplies to older pages
  (`SuppliesOfThePool` says what remains true).
- `constants.rs:6` (indexer): a client that lags is not dropped; it goes on after a hole and has no
  reason to fill it (`excused`).
- `twap.ts:87`, `getters.ts:92`: reserves are not read as the program does, in one
  moment; a redemption between the two requests gives a mark that no price explains.
- `SwapPanel.tsx:238`: "Min received" is what leaves the vault; a buy of a mint with a transfer
  fee can deliver less, and a sell is refused once the fee exceeds the slippage.

## 7. Not modelled yet, and why

- Mint extension gate: a filter on a set, evaluated once; it has no later effect
  because the extensions concerned cannot be added to a mint afterwards.
- Events and the `initial_sol` / `initial_tokens` fields: observation only.
- Rent of the accounts that `create_pool` makes besides the PDA: it leaves the payer's
  wallet and no pool formula reads it.
- Several pools: each has its own accounts, and a handler touches one pool.
- Bytes: the decoder, base58 and the translation of fields.
- Postgres transactions that overlap (see `Backfill` above), the fallback for a block without
  a time, and `del`, which nobody calls.
- The read-only routes of the API besides the three that fill a gap: snapshots of
  committed rows, without state.
- More than one client of the broadcast (receivers are independent), subscribing and
  unsubscribing of handlers. How often and in which order a row is
  delivered: a gap fill does deliver older rows after newer ones and rows a second time,
  `bus.ts` promises nothing about that, and `delivered` is a set, so no property is about it.
- In `EventBus`, a commit that persists while the writer sees an error and lives on
  (`writer.rs:219`): its frames are never published, as after a crash at that place, which
  is modelled. `Indexer` has the unacknowledged commit.
- JavaScript doubles above 2^53, and a transfer fee that changes between two epochs.
- Transaction builders, account metas of the adapter, generated IDL, deployment scripts, the
  rest of the web application: no state of their own that the properties concern. The
  tests (litesvm, proptests) and the simulation are read as claims about the program, not
  modelled.

## 8. Plan

1. `PoolMath`, `TwapOracle`, `DeepPool`, `IntegerSqrt` and their proofs (done).
2. `EventStore`, `Store`, `Indexer` (done).
3. `Backfill`, `EventBus`, `SwapClients`, `MathLaws` (done).
4. Proofs of the safety properties of the runs (done, all of them).
5. The guards of swaps and redemptions as operators, and what they accept (done).
6. The derived supplies beside a backfill (done).
7. Open: transactions of the two writers that overlap; a second client of the broadcast.
