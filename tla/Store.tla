------------------------------- MODULE Store -------------------------------
(***************************************************************************)
(* The indexer's database (db/01-schema.sql) and what one transaction of   *)
(* domain/*.rs and stream/*.rs does to it.  The live writer and the        *)
(* backfill run the same statements on different batches of events:        *)
(* stream/writer.rs write_block and stream/backfill.rs apply_page.         *)
(*                                                                         *)
(* An event is its position on the chain.  A table is a function from the  *)
(* key that its UNIQUE constraint names to the columns the properties are  *)
(* about.                                                                  *)
(***************************************************************************)
EXTENDS Integers, Sequences, FiniteSets

CONSTANTS Pubkeys,  \* of pools
          Chain     \* the events that deep_pool emits, in the order of the chain

Kinds == {"create", "swap", "add", "remove"}
Events == 1..Len(Chain)

(* slot, sig (the transaction's signature, compared as text) and ix        *)
(* (inner_ix_idx) identify an event.  lp is the supply after it; the       *)
(* payload of a swap does not carry it.  ok says that the transaction did  *)
(* not fail after the event was emitted: the cluster delivers the inner    *)
(* instructions of failed transactions too.                                *)
ASSUME ChainShape ==
  Chain \in Seq([slot : Nat \ {0}, sig : Nat, ix : Nat, kind : Kinds,
                 pool : Pubkeys, lp : Nat, ok : BOOLEAN])

(* What the program and the cluster guarantee: slots do not decrease,      *)
(* signatures are unique, a transaction fails whole, a pool is created     *)
(* once and before its other events, and a swap leaves the LP supply as it *)
(* was.  Failed transactions that would create a pool are left out.        *)
InEffect(a, b) ==
  /\ Chain[a].pool = Chain[b].pool
  /\ Chain[a].ok \/ Chain[a].sig = Chain[b].sig
ASSUME ChainAssumption ==
  /\ \A a, b \in Events :
       /\ a < b => Chain[a].slot <= Chain[b].slot
       /\ Chain[a].sig = Chain[b].sig =>
            /\ Chain[a].slot = Chain[b].slot /\ Chain[a].ok = Chain[b].ok
            /\ a < b => Chain[a].ix < Chain[b].ix
  /\ \A e \in Events : \E c \in 1..e :
       /\ Chain[c].kind = "create" /\ Chain[c].pool = Chain[e].pool
       /\ Chain[e].kind = "create" => c = e /\ Chain[e].ok
       /\ \A d \in Events :
            Chain[d].kind = "create" /\ Chain[d].pool = Chain[e].pool => d = c
  /\ \A a, b \in Events :
       /\ a < b /\ Chain[b].kind = "swap" /\ InEffect(a, b)
       /\ \A c \in (a + 1)..(b - 1) : ~InEffect(c, b)
       => Chain[b].lp = Chain[a].lp

VARIABLES pools,           \* pubkey -> pool_id
          reserves,        \* event -> [pool_id, lp_supply, reserve_id]
          swaps,           \* event -> pool_id
          liquidity,       \* event -> pool_id (table liquidity_events)
          pool_serial, reserve_serial  \* the SERIAL sequences, never rolled back
tables == <<pools, reserves, swaps, liquidity, reserve_serial>>
store == <<tables, pool_serial>>

-----------------------------------------------------------------------------
Empty == [k \in {} |-> 0]
(* f where it is defined, g elsewhere: INSERT ... ON CONFLICT DO NOTHING   *)
(* keeps the rows that are there, HashMap::insert the new ones.            *)
Over(f, g) == [k \in DOMAIN f \cup DOMAIN g |-> IF k \in DOMAIN f THEN f[k] ELSE g[k]]

(* The order in which a batch is processed: (slot, signature,              *)
(* inner_ix_idx).  All events of a block have the same slot.               *)
Precedes(a, b) ==
  \/ Chain[a].slot < Chain[b].slot
  \/ /\ Chain[a].slot = Chain[b].slot
     /\ \/ Chain[a].sig < Chain[b].sig
        \/ Chain[a].sig = Chain[b].sig /\ Chain[a].ix < Chain[b].ix
Rank(e, batch) == Cardinality({f \in batch : Precedes(f, e)})
Latest(batch) == CHOOSE e \in batch : \A f \in batch \ {e} : Precedes(f, e)

Batch(slot) == {e \in Events : Chain[e].slot = slot}
Creations(batch) == {e \in batch : Chain[e].kind = "create"}
CarriesLp(e) == Chain[e].kind # "swap"
CreationOf(e) == CHOOSE c \in Creations(Events) : Chain[c].pool = Chain[e].pool

-----------------------------------------------------------------------------
\* Mutant: a pool that is there counts as inserted under the new number.
InsertedPools_with_conflicts(batch) ==
  [p \in {Chain[e].pool : e \in Creations(batch)} |->
     pool_serial + 1
       + Rank(CHOOSE e \in Creations(batch) : Chain[e].pool = p, Creations(batch))]
(* Pass 1: the pools that the batch creates get ids from the sequence, in  *)
(* order; those whose pubkey is taken produce no row.                      *)
InsertedPools(batch) ==
  [p \in {Chain[e].pool : e \in Creations(batch)} \ DOMAIN pools |->
     pool_serial + 1
       + Rank(CHOOSE e \in Creations(batch) : Chain[e].pool = p, Creations(batch))]

\* Mutant: pools are looked up before those of the batch are inserted.
CachedPools_looked_up_first(batch, cache) ==
  LET needed == {Chain[e].pool : e \in batch} \ DOMAIN cache
  IN Over(cache, [p \in needed \cap DOMAIN pools |-> pools[p]])
(* The pool cache after pass 1: inserted pools replace what was cached,    *)
(* pools that the batch mentions and the cache lacks are looked up.        *)
CachedPools(batch, cache) ==
  LET learned == Over(InsertedPools(batch), cache)
      table == Over(pools, InsertedPools(batch))
      needed == {Chain[e].pool : e \in batch} \ DOMAIN learned
  IN Over(learned, [p \in needed \cap DOMAIN table |-> table[p]])

(* Pass 2 skips the events of pools that are still unknown.                *)
Known(batch, cache) == {e \in batch : Chain[e].pool \in DOMAIN cache}

\* Mutant: a deposit or redemption does not update the cached supply.
LpSupply_not_mirrored(e, known, cache, lp_cache) ==
  IF CarriesLp(e) THEN Chain[e].lp
  ELSE IF cache[Chain[e].pool] \in DOMAIN lp_cache THEN lp_cache[cache[Chain[e].pool]]
  ELSE 0
(* The LP supply of a reserves row: that of the event, or for a swap the   *)
(* one last mirrored into the cache, by this batch or before it, or 0.     *)
LpSupply(e, known, cache, lp_cache) ==
  LET before == {f \in known : /\ CarriesLp(f) /\ Chain[f].pool = Chain[e].pool
                               /\ Precedes(f, e)}
      pool_id == cache[Chain[e].pool]
  IN IF CarriesLp(e) THEN Chain[e].lp
     ELSE IF before # {} THEN Chain[Latest(before)].lp
     ELSE IF pool_id \in DOMAIN lp_cache THEN lp_cache[pool_id]
     ELSE 0

ReservesRows(known, cache, lp_cache) ==
  [e \in known |-> [pool_id |-> cache[Chain[e].pool],
                    lp_supply |-> LpSupply(e, known, cache, lp_cache),
                    reserve_id |-> reserve_serial + 1 + Rank(e, known)]]

\* Mutant: a supply that is cached is not replaced by later blocks.
CachedSupplies_kept(known, cache, lp_cache) ==
  LET carrying == {e \in known : CarriesLp(e)}
      of(id) == {e \in carrying : cache[Chain[e].pool] = id}
  IN Over(lp_cache,
          [id \in {cache[Chain[e].pool] : e \in carrying} |-> Chain[Latest(of(id))].lp])
(* The supply cache after pass 2.                                          *)
CachedSupplies(known, cache, lp_cache) ==
  LET carrying == {e \in known : CarriesLp(e)}
      of(id) == {e \in carrying : cache[Chain[e].pool] = id}
  IN Over([id \in {cache[Chain[e].pool] : e \in carrying} |-> Chain[Latest(of(id))].lp],
          lp_cache)

-----------------------------------------------------------------------------
(* The rows that a batch adds, given the caches after pass 1 and before    *)
(* pass 2, and what the foreign keys to pools(pool_id) ask of them.        *)
\* Mutant: every row of the batch counts as inserted.
Inserted_with_conflicts(known) == known
Inserted(known) == known \ DOMAIN reserves
ForeignKeysHold(batch, cache) ==
  LET table == Over(pools, InsertedPools(batch))
  IN \A e \in Inserted(Known(batch, cache)) :
       cache[Chain[e].pool] \in {table[p] : p \in DOMAIN table}

(* Every insert consumes a number of its sequence, conflict or not.        *)
TakePoolIds(batch) == pool_serial' = pool_serial + Cardinality(Creations(batch))

\* Mutant: the three event tables are not written together.
InsertAll_reserves_only(batch, cache, lp_cache) ==
  LET known == Known(batch, cache)
  IN /\ pools' = Over(pools, InsertedPools(batch))
     /\ reserves' = Over(reserves, ReservesRows(known, cache, lp_cache))
     /\ reserve_serial' = reserve_serial + Cardinality(known)
     /\ TakePoolIds(batch)
     /\ UNCHANGED <<swaps, liquidity>>
InsertAll(batch, cache, lp_cache) ==
  LET known == Known(batch, cache)
      columns(kinds) == [e \in {f \in known : Chain[f].kind \in kinds} |->
                           cache[Chain[e].pool]]
  IN /\ pools' = Over(pools, InsertedPools(batch))
     /\ reserves' = Over(reserves, ReservesRows(known, cache, lp_cache))
     /\ swaps' = Over(swaps, columns({"swap"}))
     /\ liquidity' = Over(liquidity, columns({"add", "remove"}))
     /\ reserve_serial' = reserve_serial + Cardinality(known)
     /\ TakePoolIds(batch)

-----------------------------------------------------------------------------
(* load_pool_cache and load_lp_supply_cache: the newest row of each pool   *)
(* by (last_slot, reserve_id).                                             *)
load_pool_cache == pools
load_lp_supply_cache ==
  LET of(id) == {e \in DOMAIN reserves : reserves[e].pool_id = id}
      newest(id) == CHOOSE e \in of(id) : \A f \in of(id) :
        \/ Chain[f].slot < Chain[e].slot
        \/ /\ Chain[f].slot = Chain[e].slot
           /\ reserves[f].reserve_id <= reserves[e].reserve_id
  IN [id \in {reserves[e].pool_id : e \in DOMAIN reserves} |-> reserves[newest(id)].lp_supply]

\* Mutant: the row inserted last.
latest_for_pools_by_id(p) ==
  LET rows == {e \in DOMAIN reserves : reserves[e].pool_id = pools[p]}
  IN CHOOSE e \in rows : \A f \in rows : reserves[f].reserve_id <= reserves[e].reserve_id
(* The row that readers take for the current reserves of a pool: the last  *)
(* by (last_slot, signature, inner_ix_idx).                                *)
latest_for_pools(p) ==
  Latest({e \in DOMAIN reserves : reserves[e].pool_id = pools[p]})

-----------------------------------------------------------------------------
StoreInit ==
  /\ pools = Empty /\ reserves = Empty /\ swaps = Empty /\ liquidity = Empty
  /\ pool_serial = 0 /\ reserve_serial = 0

(* The four tables tell the same story: every event has its reserves row   *)
(* together with the row of its own table, all of them under the id of     *)
(* their pool.                                                             *)
TablesAgree ==
  /\ \A e \in DOMAIN reserves :
       /\ Chain[e].pool \in DOMAIN pools
       /\ reserves[e].pool_id = pools[Chain[e].pool]
  /\ \A p \in DOMAIN pools : \E e \in Creations(DOMAIN reserves) : Chain[e].pool = p
  /\ DOMAIN swaps = {e \in DOMAIN reserves : Chain[e].kind = "swap"}
  /\ DOMAIN liquidity = {e \in DOMAIN reserves : Chain[e].kind \in {"add", "remove"}}
  /\ \A e \in DOMAIN swaps : swaps[e] = reserves[e].pool_id
  /\ \A e \in DOMAIN liquidity : liquidity[e] = reserves[e].pool_id

(* The current reserves of a pool are those after its newest stored event, *)
(* in whatever order the rows were inserted; among events of different     *)
(* transactions of one slot any may be taken, since rows do not keep the   *)
(* position of their transaction in the block.                             *)
LatestIsNewest ==
  \A p \in DOMAIN pools, f \in DOMAIN reserves :
    LET e == latest_for_pools(p)
    IN Chain[f].pool = p =>
         /\ Chain[e].pool = p /\ Chain[f].slot <= Chain[e].slot
         /\ Chain[f].sig = Chain[e].sig => f <= e
=============================================================================
