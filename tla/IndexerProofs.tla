---------------------------- MODULE IndexerProofs ----------------------------
(***************************************************************************)
(* Theorems about the indexer's store and its live writer, for every chain *)
(* and every value of the constants.                                       *)
(***************************************************************************)
EXTENDS Indexer, FiniteSetTheorems, SequenceTheorems, WellFoundedInduction, NaturalsInduction, TLAPS

(* The columns of Chain.                                                   *)
LEMMA EventType ==
  ASSUME NEW e \in Events
  PROVE  /\ e \in Nat \ {0}
         /\ Chain[e].slot \in Nat \ {0} /\ Chain[e].sig \in Nat /\ Chain[e].ix \in Nat
         /\ Chain[e].kind \in Kinds /\ Chain[e].pool \in Pubkeys /\ Chain[e].lp \in Nat
         /\ Chain[e].ok \in BOOLEAN
<1> DEFINE Row == [slot : Nat \ {0}, sig : Nat, ix : Nat, kind : Kinds,
                   pool : Pubkeys, lp : Nat, ok : BOOLEAN]
<1>1. Chain \in Seq(Row)
  BY ChainShape
<1>2. \A r \in Row : /\ r.slot \in Nat \ {0} /\ r.sig \in Nat /\ r.ix \in Nat
                     /\ r.kind \in Kinds /\ r.pool \in Pubkeys /\ r.lp \in Nat
                     /\ r.ok \in BOOLEAN
  OBVIOUS
<1> HIDE DEF Row
<1>3. Len(Chain) \in Nat /\ (\A i \in 1..Len(Chain) : Chain[i] \in Row)
  BY <1>1, LenProperties, ElementOfSeq
<1> QED BY <1>2, <1>3 DEF Events

LEMMA EventsFinite == IsFiniteSet(Events)
<1>1. Len(Chain) \in Nat
  BY ChainShape, LenProperties
<1> QED BY <1>1, FS_Interval DEF Events

(* The sort key orders the events strictly and totally, and those of one   *)
(* transaction as they were emitted.                                       *)
LEMMA PrecedesOrder ==
  ASSUME NEW a \in Events, NEW b \in Events
  PROVE  /\ ~Precedes(a, a)
         /\ Precedes(a, b) => ~Precedes(b, a)
         /\ a # b => Precedes(a, b) \/ Precedes(b, a)
         /\ Precedes(a, b) => Chain[a].slot <= Chain[b].slot
         /\ Precedes(a, b) /\ Chain[a].sig = Chain[b].sig => a < b
<1>1. /\ Chain[a].slot \in Nat /\ Chain[a].sig \in Nat /\ Chain[a].ix \in Nat /\ a \in Nat
      /\ Chain[b].slot \in Nat /\ Chain[b].sig \in Nat /\ Chain[b].ix \in Nat /\ b \in Nat
  BY EventType
<1>2. /\ Chain[a].sig = Chain[b].sig => Chain[a].slot = Chain[b].slot
      /\ Chain[a].sig = Chain[b].sig /\ a < b => Chain[a].ix < Chain[b].ix
      /\ Chain[a].sig = Chain[b].sig /\ b < a => Chain[b].ix < Chain[a].ix
  BY ChainAssumption
<1> QED BY <1>1, <1>2 DEF Precedes

LEMMA PrecedesTransitive ==
  ASSUME NEW a \in Events, NEW b \in Events, NEW c \in Events,
         Precedes(a, b), Precedes(b, c)
  PROVE  Precedes(a, c)
<1>1. /\ Chain[a].slot \in Nat /\ Chain[a].sig \in Nat /\ Chain[a].ix \in Nat
      /\ Chain[b].slot \in Nat /\ Chain[b].sig \in Nat /\ Chain[b].ix \in Nat
      /\ Chain[c].slot \in Nat /\ Chain[c].sig \in Nat /\ Chain[c].ix \in Nat
  BY EventType
<1> QED BY <1>1 DEF Precedes

(* Rank numbers the events of a batch from 0 in the order of the sort.     *)
LEMMA RankNumbers ==
  ASSUME NEW batch \in SUBSET Events, NEW e \in batch
  PROVE  /\ Cardinality(batch) \in Nat
         /\ Rank(e, batch) \in Nat /\ Rank(e, batch) < Cardinality(batch)
         /\ \A f \in batch : Precedes(e, f) => Rank(e, batch) < Rank(f, batch)
<1> DEFINE Before(x) == {f \in batch : Precedes(f, x)}
<1>1. IsFiniteSet(batch)
  BY EventsFinite, FS_Subset
<1>2. \A x \in batch : Before(x) \subseteq batch /\ x \notin Before(x)
  BY PrecedesOrder
<1>3. \A x \in batch : IsFiniteSet(Before(x)) /\ Cardinality(Before(x)) \in Nat
  BY <1>1, <1>2, FS_Subset, FS_CardinalityType
<1>4. Cardinality(batch) \in Nat
  BY <1>1, FS_CardinalityType
<1>5. Cardinality(Before(e)) < Cardinality(batch)
  <2>1. Before(e) \in SUBSET batch /\ Before(e) # batch
    BY <1>2
  <2> HIDE DEF Before
  <2>2. Cardinality(Before(e)) <= Cardinality(batch) /\ Cardinality(Before(e)) # Cardinality(batch)
    BY <2>1, <1>1, FS_Subset
  <2> QED BY <2>2, <1>3, <1>4
<1>6. ASSUME NEW f \in batch, Precedes(e, f)
      PROVE  Cardinality(Before(e)) < Cardinality(Before(f))
  <2>1. Before(e) \in SUBSET Before(f)
    BY <1>6, PrecedesTransitive
  <2>2. e \in Before(f) /\ e \notin Before(e)
    BY <1>6, <1>2
  <2> HIDE DEF Before
  <2>3. Cardinality(Before(e)) <= Cardinality(Before(f))
        /\ Cardinality(Before(e)) # Cardinality(Before(f))
    BY <2>1, <2>2, <1>3, FS_Subset
  <2> QED BY <2>3, <1>3
<1> QED BY <1>3, <1>4, <1>5, <1>6 DEF Rank

(* A batch that is not empty has a last event, and Latest is it.           *)
LEMMA LatestLast ==
  ASSUME NEW batch \in SUBSET Events, batch # {}
  PROVE  /\ Latest(batch) \in batch
         /\ \A f \in batch \ {Latest(batch)} : Precedes(f, Latest(batch))
<1> DEFINE left(e) == Cardinality(batch) - Rank(e, batch)
           T == {left(e) : e \in batch}
<1>1. \A e \in batch : left(e) \in Nat
  BY RankNumbers
<1>2. T \subseteq Nat /\ T # {}
  BY <1>1
<1>3. \E t \in T : \A s \in T : ~(<<s, t>> \in OpToRel(<, Nat))
  <2> HIDE DEF T
  <2> QED BY <1>2, NatLessThanWellFounded, WFMin
<1>4. PICK t \in T : \A s \in T : ~(<<s, t>> \in OpToRel(<, Nat))
  BY <1>3
<1>5. PICK e \in batch : t = left(e)
  BY <1>4
<1>6. \A f \in batch : ~(left(f) < left(e))
  BY <1>2, <1>4, <1>5 DEF OpToRel
<1>7. \A f \in batch : ~Precedes(e, f)
  BY <1>6, RankNumbers
<1>8. \A f \in batch \ {e} : Precedes(f, e)
  BY <1>7, PrecedesOrder
<1> HIDE DEF T, left
<1> QED BY <1>5, <1>8 DEF Latest

(* Each pool was created by one event, not later than any other of its     *)
(* events.                                                                 *)
LEMMA CreationFacts ==
  ASSUME NEW e \in Events
  PROVE  /\ CreationOf(e) \in Creations(Events)
         /\ Chain[CreationOf(e)].pool = Chain[e].pool
         /\ Chain[CreationOf(e)].slot <= Chain[e].slot
         /\ \A c \in Creations(Events) : Chain[c].pool = Chain[e].pool => c = CreationOf(e)
<1>1. PICK c \in 1..e : /\ Chain[c].kind = "create" /\ Chain[c].pool = Chain[e].pool
                        /\ \A d \in Events : Chain[d].kind = "create"
                             /\ Chain[d].pool = Chain[e].pool => d = c
  BY ChainAssumption
<1>2. c \in Events /\ c <= e
  BY ChainShape, EventType DEF Events
<1>3. c \in Creations(Events)
  BY <1>1, <1>2 DEF Creations
<1>4. \A d \in Creations(Events) : Chain[d].pool = Chain[e].pool => d = c
  BY <1>1 DEF Creations
<1>5. CreationOf(e) = c
  BY <1>1, <1>3, <1>4 DEF CreationOf
<1>6. Chain[c].slot <= Chain[e].slot
  <2>1. CASE c = e
    BY <2>1, EventType
  <2>2. CASE c < e
    BY <2>2, <1>2, ChainAssumption
  <2> QED BY <2>1, <2>2, <1>2, EventType
<1> QED BY <1>1, <1>3, <1>4, <1>5, <1>6

-----------------------------------------------------------------------------
(* The store.  Ids are numbers that the sequence has given out, each to    *)
(* one pool; a cached id is that of the table, or one that was given out   *)
(* and went to no pool, as its transaction was rolled back.                *)
IdsDiffer ==
  /\ pool_serial \in Nat
  /\ \A p \in DOMAIN pools : pools[p] \in 1..pool_serial
  /\ \A p, q \in DOMAIN pools : pools[p] = pools[q] => p = q
StoreInv == IdsDiffer /\ DOMAIN reserves \subseteq Events /\ TablesAgree

FreeId(id) == id \in 1..pool_serial /\ \A q \in DOMAIN pools : pools[q] # id
SoundCache(cache) ==
  \A p \in DOMAIN cache :
    \/ p \in DOMAIN pools /\ cache[p] = pools[p]
    \/ FreeId(cache[p])

(* The table pools as it will be after the batch.                          *)
Table(batch) == Over(pools, InsertedPools(batch))

LEMMA OverFacts ==
  ASSUME NEW f, NEW g
  PROVE  /\ DOMAIN Over(f, g) = DOMAIN f \cup DOMAIN g
         /\ \A k \in DOMAIN f : Over(f, g)[k] = f[k]
         /\ \A k \in DOMAIN g \ DOMAIN f : Over(f, g)[k] = g[k]
BY DEF Over

(* The pools that a batch inserts get numbers of their own.                *)
LEMMA InsertedFacts ==
  ASSUME IdsDiffer, NEW batch \in SUBSET Events
  PROVE  /\ DOMAIN InsertedPools(batch)
                = {Chain[e].pool : e \in Creations(batch)} \ DOMAIN pools
         /\ Cardinality(Creations(batch)) \in Nat
         /\ \A p \in DOMAIN InsertedPools(batch) :
              InsertedPools(batch)[p]
                \in (pool_serial + 1)..(pool_serial + Cardinality(Creations(batch)))
         /\ \A p, q \in DOMAIN InsertedPools(batch) :
              InsertedPools(batch)[p] = InsertedPools(batch)[q] => p = q
<1> DEFINE new == Creations(batch)
           of(p) == CHOOSE e \in new : Chain[e].pool = p
           D == {Chain[e].pool : e \in new} \ DOMAIN pools
<1>1. new \in SUBSET Events
  BY DEF Creations
<1>2. \A p \in D : of(p) \in new /\ Chain[of(p)].pool = p
  OBVIOUS
<1>3. InsertedPools(batch) = [p \in D |-> pool_serial + 1 + Rank(of(p), new)]
  BY DEF InsertedPools
<1>4. Cardinality(new) \in Nat
  BY <1>1, EventsFinite, FS_Subset, FS_CardinalityType
<1>5. \A p \in D : Rank(of(p), new) \in Nat /\ Rank(of(p), new) < Cardinality(new)
  BY <1>1, <1>2, RankNumbers
<1>6. ASSUME NEW p \in D, NEW q \in D, p # q
      PROVE  Rank(of(p), new) # Rank(of(q), new)
  <2>1. of(p) # of(q) /\ of(p) \in new /\ of(q) \in new
    BY <1>2, <1>6
  <2>2. Precedes(of(p), of(q)) \/ Precedes(of(q), of(p))
    BY <2>1, <1>1, PrecedesOrder
  <2> HIDE DEF of, new
  <2> QED BY <2>1, <2>2, <1>1, RankNumbers
<1>7. pool_serial \in Nat
  BY DEF IdsDiffer
<1> HIDE DEF of, new
<1>8. DOMAIN InsertedPools(batch) = D
  BY <1>3
<1>9. \A p \in D : InsertedPools(batch)[p] = pool_serial + 1 + Rank(of(p), new)
  BY <1>3
<1> HIDE DEF D
<1>10. \A p \in D : InsertedPools(batch)[p] \in (pool_serial + 1)..(pool_serial + Cardinality(new))
  BY <1>4, <1>5, <1>7, <1>9
<1>11. \A p, q \in D : InsertedPools(batch)[p] = InsertedPools(batch)[q] => p = q
  BY <1>5, <1>6, <1>7, <1>9
<1> QED BY <1>4, <1>8, <1>10, <1>11 DEF D, new

LEMMA TableFacts ==
  ASSUME NEW batch
  PROVE  /\ DOMAIN Table(batch) = DOMAIN pools \cup DOMAIN InsertedPools(batch)
         /\ DOMAIN InsertedPools(batch) \cap DOMAIN pools = {}
         /\ \A p \in DOMAIN pools : Table(batch)[p] = pools[p]
         /\ \A p \in DOMAIN InsertedPools(batch) : Table(batch)[p] = InsertedPools(batch)[p]
<1>1. DOMAIN InsertedPools(batch) \cap DOMAIN pools = {}
  BY DEF InsertedPools
<1> QED BY <1>1 DEF Table, Over

(* The pool cache of a batch: what the table will say, or what was cached  *)
(* before; no pool of the batch that the table will have is left out.      *)
LEMMA CachedFacts ==
  ASSUME NEW batch, NEW cache
  PROVE  /\ \A p \in DOMAIN CachedPools(batch, cache) :
              \/ /\ p \in DOMAIN Table(batch)
                 /\ CachedPools(batch, cache)[p] = Table(batch)[p]
              \/ /\ p \in DOMAIN cache \ DOMAIN InsertedPools(batch)
                 /\ CachedPools(batch, cache)[p] = cache[p]
         /\ DOMAIN InsertedPools(batch) \cup DOMAIN cache \subseteq DOMAIN CachedPools(batch, cache)
         /\ \A e \in batch : Chain[e].pool \in DOMAIN Table(batch)
              => Chain[e].pool \in DOMAIN CachedPools(batch, cache)
<1> DEFINE ins == InsertedPools(batch)
           table == Table(batch)
           learned == Over(ins, cache)
           needed == {Chain[e].pool : e \in batch} \ DOMAIN learned
           found == [p \in needed \cap DOMAIN table |-> table[p]]
           c == CachedPools(batch, cache)
<1>1. c = Over(learned, found)
  BY DEF CachedPools, Table
<1>2. /\ DOMAIN ins \subseteq DOMAIN table
      /\ \A p \in DOMAIN ins : table[p] = ins[p]
  BY TableFacts
<1> HIDE DEF ins, table, c
<1>3. /\ DOMAIN learned = DOMAIN ins \cup DOMAIN cache
      /\ \A p \in DOMAIN ins : learned[p] = ins[p]
      /\ \A p \in DOMAIN cache \ DOMAIN ins : learned[p] = cache[p]
  BY OverFacts
<1> HIDE DEF learned
<1>4. DOMAIN found = needed \cap DOMAIN table /\ \A p \in DOMAIN found : found[p] = table[p]
  OBVIOUS
<1>5. \A e \in batch : Chain[e].pool \in DOMAIN learned \/ Chain[e].pool \in needed
  OBVIOUS
<1> HIDE DEF needed, found
<1>6. /\ DOMAIN c = DOMAIN learned \cup DOMAIN found
      /\ \A p \in DOMAIN learned : c[p] = learned[p]
      /\ \A p \in DOMAIN found \ DOMAIN learned : c[p] = found[p]
  BY <1>1 DEF Over
<1>7. \A p \in DOMAIN c : \/ p \in DOMAIN table /\ c[p] = table[p]
                          \/ p \in DOMAIN cache \ DOMAIN ins /\ c[p] = cache[p]
  BY <1>2, <1>3, <1>4, <1>6
<1>8. \A e \in batch : Chain[e].pool \in DOMAIN table => Chain[e].pool \in DOMAIN c
  BY <1>4, <1>5, <1>6
<1> QED BY <1>3, <1>6, <1>7, <1>8 DEF ins, table, c

(* With a sound cache the foreign keys let only rows through whose id is   *)
(* that of their pool.                                                     *)
LEMMA KeysAreRight ==
  ASSUME IdsDiffer, NEW batch \in SUBSET Events, NEW cache, SoundCache(cache),
         ForeignKeysHold(batch, CachedPools(batch, cache)),
         NEW e \in Inserted(Known(batch, CachedPools(batch, cache)))
  PROVE  /\ Chain[e].pool \in DOMAIN Table(batch)
         /\ CachedPools(batch, cache)[Chain[e].pool] = Table(batch)[Chain[e].pool]
<1> DEFINE ins == InsertedPools(batch)
           table == Table(batch)
           c == CachedPools(batch, cache)
           p == Chain[e].pool
<1>1. p \in DOMAIN c /\ (\E q \in DOMAIN table : c[p] = table[q])
  BY DEF ForeignKeysHold, Inserted, Known, Table
<1>2. /\ DOMAIN table = DOMAIN pools \cup DOMAIN ins
      /\ \A q \in DOMAIN pools : table[q] = pools[q]
      /\ \A q \in DOMAIN ins : table[q] = ins[q]
  BY TableFacts
<1>3. pool_serial \in Nat /\ \A q \in DOMAIN ins : ins[q] > pool_serial /\ ins[q] \in Int
  <2>1. /\ Cardinality(Creations(batch)) \in Nat
        /\ \A q \in DOMAIN ins :
             ins[q] \in (pool_serial + 1)..(pool_serial + Cardinality(Creations(batch)))
    BY InsertedFacts
  <2>2. pool_serial \in Nat
    BY DEF IdsDiffer
  <2> HIDE DEF ins
  <2> QED BY <2>1, <2>2
<1>4. \/ p \in DOMAIN table /\ c[p] = table[p]
      \/ p \in DOMAIN cache /\ c[p] = cache[p]
  <2>1. \A q \in DOMAIN c : \/ q \in DOMAIN table /\ c[q] = table[q]
                            \/ q \in DOMAIN cache \ DOMAIN ins /\ c[q] = cache[q]
    BY CachedFacts
  <2> HIDE DEF ins, table, c, p
  <2> QED BY <1>1, <2>1
<1> HIDE DEF ins, table, c, p
<1>5. ASSUME p \in DOMAIN cache, c[p] = cache[p]
      PROVE  p \in DOMAIN table /\ c[p] = table[p]
  <2>1. CASE p \in DOMAIN pools /\ cache[p] = pools[p]
    BY <2>1, <1>2, <1>5
  <2>2. CASE FreeId(cache[p])
    <3>1. cache[p] \in Int /\ cache[p] <= pool_serial /\ \A q \in DOMAIN pools : pools[q] # cache[p]
      BY <2>2, <1>3 DEF FreeId
    <3>2. \A q \in DOMAIN table : table[q] # cache[p]
      BY <3>1, <1>2, <1>3
    <3> QED BY <3>2, <1>1, <1>5
  <2> QED BY <2>1, <2>2, <1>5 DEF SoundCache
<1>6. p \in DOMAIN table /\ c[p] = table[p]
  BY <1>4, <1>5
<1> QED BY <1>6 DEF table, c, p

(* The rows that a batch adds, seen through the cache.                     *)
LEMMA RowsFacts ==
  ASSUME NEW known, NEW cache, NEW lp_cache
  PROVE  /\ DOMAIN ReservesRows(known, cache, lp_cache) = known
         /\ \A e \in known : /\ ReservesRows(known, cache, lp_cache)[e].pool_id
                                  = cache[Chain[e].pool]
                             /\ ReservesRows(known, cache, lp_cache)[e].lp_supply
                                  = LpSupply(e, known, cache, lp_cache)
BY DEF ReservesRows

LEMMA TablesAgreeKept ==
  ASSUME StoreInv, NEW batch \in SUBSET Events, NEW cache, NEW lp_cache,
         SoundCache(cache), ForeignKeysHold(batch, CachedPools(batch, cache)),
         InsertAll(batch, CachedPools(batch, cache), lp_cache)
  PROVE  TablesAgree' /\ DOMAIN reserves' \subseteq Events
<1> DEFINE c == CachedPools(batch, cache)
           known == Known(batch, c)
           rows == ReservesRows(known, c, lp_cache)
           of(kinds) == {f \in known : Chain[f].kind \in kinds}
           columns(kinds) == [e \in of(kinds) |-> c[Chain[e].pool]]
<1>1. /\ pools' = Table(batch)
      /\ reserves' = Over(reserves, rows)
      /\ swaps' = Over(swaps, columns({"swap"}))
      /\ liquidity' = Over(liquidity, columns({"add", "remove"}))
  BY DEF InsertAll, Table
<1>2. \A e \in known \ DOMAIN reserves :
        Chain[e].pool \in DOMAIN Table(batch) /\ c[Chain[e].pool] = Table(batch)[Chain[e].pool]
  BY KeysAreRight DEF StoreInv, Inserted
<1>3. known \subseteq batch /\ \A e \in batch : Chain[e].pool \in DOMAIN c => e \in known
  BY DEF Known
<1>4. /\ DOMAIN rows = known
      /\ \A e \in known : rows[e].pool_id = c[Chain[e].pool]
  BY RowsFacts
<1>5. /\ DOMAIN InsertedPools(batch) \subseteq {Chain[e].pool : e \in Creations(batch)}
      /\ DOMAIN InsertedPools(batch) \subseteq DOMAIN c
  BY CachedFacts DEF InsertedPools
<1>6. /\ DOMAIN Table(batch) = DOMAIN pools \cup DOMAIN InsertedPools(batch)
      /\ \A p \in DOMAIN pools : Table(batch)[p] = pools[p]
  BY TableFacts
<1> HIDE DEF c, known, rows
<1>7. /\ DOMAIN reserves' = DOMAIN reserves \cup known
      /\ \A e \in DOMAIN reserves : reserves'[e] = reserves[e]
      /\ \A e \in known \ DOMAIN reserves : reserves'[e].pool_id = c[Chain[e].pool]
  BY <1>1, <1>4 DEF Over
<1>8. /\ DOMAIN swaps' = DOMAIN swaps \cup of({"swap"})
      /\ \A e \in DOMAIN swaps : swaps'[e] = swaps[e]
      /\ \A e \in of({"swap"}) \ DOMAIN swaps : swaps'[e] = c[Chain[e].pool]
  BY <1>1 DEF Over
<1>9. /\ DOMAIN liquidity' = DOMAIN liquidity \cup of({"add", "remove"})
      /\ \A e \in DOMAIN liquidity : liquidity'[e] = liquidity[e]
      /\ \A e \in of({"add", "remove"}) \ DOMAIN liquidity : liquidity'[e] = c[Chain[e].pool]
  BY <1>1 DEF Over
<1>10. ASSUME NEW e \in DOMAIN reserves'
       PROVE  Chain[e].pool \in DOMAIN pools' /\ reserves'[e].pool_id = pools'[Chain[e].pool]
  <2>1. CASE e \in DOMAIN reserves
    BY <2>1, <1>1, <1>6, <1>7 DEF StoreInv, TablesAgree
  <2>2. CASE e \in known \ DOMAIN reserves
    BY <2>2, <1>1, <1>2, <1>7
  <2> QED BY <2>1, <2>2, <1>7
<1>11. ASSUME NEW p \in DOMAIN pools'
       PROVE  \E e \in Creations(DOMAIN reserves') : Chain[e].pool = p
  <2>1. CASE p \in DOMAIN pools
    BY <2>1, <1>7 DEF StoreInv, TablesAgree, Creations
  <2>2. CASE p \in DOMAIN InsertedPools(batch)
    BY <2>2, <1>3, <1>5, <1>7 DEF Creations
  <2> QED BY <2>1, <2>2, <1>1, <1>6
<1>12. /\ DOMAIN swaps' = {e \in DOMAIN reserves' : Chain[e].kind = "swap"}
       /\ DOMAIN liquidity' = {e \in DOMAIN reserves' : Chain[e].kind \in {"add", "remove"}}
  BY <1>7, <1>8, <1>9 DEF StoreInv, TablesAgree
<1>13. ASSUME NEW e \in DOMAIN swaps'
       PROVE  swaps'[e] = reserves'[e].pool_id
  <2>1. CASE e \in DOMAIN swaps
    BY <2>1, <1>7, <1>8 DEF StoreInv, TablesAgree
  <2>2. CASE e \in of({"swap"}) \ DOMAIN swaps
    <3>1. e \in known \ DOMAIN reserves
      BY <2>2 DEF StoreInv, TablesAgree
    <3> QED BY <2>2, <3>1, <1>7, <1>8
  <2> QED BY <2>1, <2>2, <1>8
<1>14. ASSUME NEW e \in DOMAIN liquidity'
       PROVE  liquidity'[e] = reserves'[e].pool_id
  <2>1. CASE e \in DOMAIN liquidity
    BY <2>1, <1>7, <1>9 DEF StoreInv, TablesAgree
  <2>2. CASE e \in of({"add", "remove"}) \ DOMAIN liquidity
    <3>1. e \in known \ DOMAIN reserves
      BY <2>2 DEF StoreInv, TablesAgree
    <3> QED BY <2>2, <3>1, <1>7, <1>9
  <2> QED BY <2>1, <2>2, <1>9
<1>15. DOMAIN reserves' \subseteq Events
  BY <1>3, <1>7 DEF StoreInv
<1> QED BY <1>10, <1>11, <1>12, <1>13, <1>14, <1>15 DEF TablesAgree

(* Numbers stay distinct, and a cached number that went to no pool will go *)
(* to none.                                                                *)
LEMMA IdsKept ==
  ASSUME IdsDiffer, NEW batch \in SUBSET Events,
         pools' = Table(batch), TakePoolIds(batch)
  PROVE  /\ IdsDiffer'
         /\ \A id : FreeId(id) => FreeId(id)'
         /\ \A p \in DOMAIN pools : p \in DOMAIN pools' /\ pools'[p] = pools[p]
         /\ \A p \in DOMAIN pools' : p \notin DOMAIN pools => pools'[p] > pool_serial
<1> DEFINE ins == InsertedPools(batch)
           n == Cardinality(Creations(batch))
<1>1. /\ n \in Nat
      /\ \A p \in DOMAIN ins : ins[p] \in (pool_serial + 1)..(pool_serial + n)
      /\ \A p, q \in DOMAIN ins : ins[p] = ins[q] => p = q
  BY InsertedFacts
<1>2. /\ DOMAIN Table(batch) = DOMAIN pools \cup DOMAIN ins
      /\ \A p \in DOMAIN pools : Table(batch)[p] = pools[p]
      /\ \A p \in DOMAIN ins : Table(batch)[p] = ins[p]
  BY TableFacts
<1>3. pool_serial' = pool_serial + n
  BY DEF TakePoolIds
<1> HIDE DEF ins, n
<1>4. /\ pool_serial \in Nat
      /\ \A p \in DOMAIN pools : pools[p] \in 1..pool_serial
      /\ \A p, q \in DOMAIN pools : pools[p] = pools[q] => p = q
  BY DEF IdsDiffer
<1>5. pool_serial' \in Nat /\ \A p \in DOMAIN pools' : pools'[p] \in 1..pool_serial'
  BY <1>1, <1>2, <1>3, <1>4
<1>6. \A p, q \in DOMAIN pools' : pools'[p] = pools'[q] => p = q
  BY <1>1, <1>2, <1>4
<1>7. ASSUME NEW id, FreeId(id)
      PROVE  FreeId(id)'
  <2>1. id \in 1..pool_serial /\ \A q \in DOMAIN pools : pools[q] # id
    BY <1>7 DEF FreeId
  <2>2. id \in 1..pool_serial' /\ \A q \in DOMAIN pools' : pools'[q] # id
    BY <2>1, <1>1, <1>2, <1>3, <1>4
  <2> QED BY <2>2 DEF FreeId
<1>8. \A p \in DOMAIN pools' : p \notin DOMAIN pools => pools'[p] > pool_serial
  BY <1>1, <1>2, <1>4
<1> QED BY <1>2, <1>5, <1>6, <1>7, <1>8 DEF IdsDiffer

LEMMA StoreInvKept ==
  ASSUME StoreInv, NEW batch \in SUBSET Events, NEW cache, NEW lp_cache,
         SoundCache(cache), ForeignKeysHold(batch, CachedPools(batch, cache)),
         InsertAll(batch, CachedPools(batch, cache), lp_cache)
  PROVE  /\ StoreInv'
         /\ pools' = Table(batch)
         /\ \A id : FreeId(id) => FreeId(id)'
         /\ DOMAIN reserves'
              = DOMAIN reserves \cup Known(batch, CachedPools(batch, cache))
<1>1. pools' = Table(batch) /\ TakePoolIds(batch)
  BY DEF InsertAll, Table
<1>2. IdsDiffer' /\ \A id : FreeId(id) => FreeId(id)'
  BY <1>1, IdsKept DEF StoreInv
<1>3. TablesAgree' /\ DOMAIN reserves' \subseteq Events
  BY TablesAgreeKept
<1>4. DOMAIN reserves' = DOMAIN reserves \cup Known(batch, CachedPools(batch, cache))
  <2> DEFINE c == CachedPools(batch, cache)
             rows == ReservesRows(Known(batch, c), c, lp_cache)
  <2>1. reserves' = Over(reserves, rows) /\ DOMAIN rows = Known(batch, c)
    BY RowsFacts DEF InsertAll
  <2> HIDE DEF c, rows
  <2>2. DOMAIN reserves' = DOMAIN reserves \cup Known(batch, c)
    BY <2>1 DEF Over
  <2> QED BY <2>2 DEF c
<1> QED BY <1>1, <1>2, <1>3, <1>4 DEF StoreInv

LEMMA StoreInvSame ==
  ASSUME StoreInv, UNCHANGED store
  PROVE  StoreInv' /\ \A id : FreeId(id) => FreeId(id)'
<1>1. /\ pools' = pools /\ reserves' = reserves /\ swaps' = swaps /\ liquidity' = liquidity
      /\ pool_serial' = pool_serial
  BY DEF store, tables
<1>2. TablesAgree'
  BY <1>1 DEF StoreInv, TablesAgree
<1>3. IdsDiffer'
  BY <1>1 DEF StoreInv, IdsDiffer
<1>4. \A id : FreeId(id) => FreeId(id)'
  BY <1>1 DEF FreeId
<1> QED BY <1>1, <1>2, <1>3, <1>4 DEF StoreInv

(* A transaction that rolls back takes numbers and leaves no rows.         *)
LEMMA StoreInvNumbersTaken ==
  ASSUME StoreInv, NEW batch \in SUBSET Events, UNCHANGED tables, TakePoolIds(batch)
  PROVE  /\ StoreInv'
         /\ \A id : FreeId(id) => FreeId(id)'
         /\ \A id : (\E p \in DOMAIN InsertedPools(batch) : id = InsertedPools(batch)[p])
                     => FreeId(id)'
<1>1. /\ pools' = pools /\ reserves' = reserves /\ swaps' = swaps /\ liquidity' = liquidity
  BY DEF tables
<1>2. TablesAgree'
  BY <1>1 DEF StoreInv, TablesAgree
<1>3. /\ Cardinality(Creations(batch)) \in Nat
      /\ \A p \in DOMAIN InsertedPools(batch) :
           InsertedPools(batch)[p]
             \in (pool_serial + 1)..(pool_serial + Cardinality(Creations(batch)))
  BY InsertedFacts DEF StoreInv
<1>4. pool_serial' = pool_serial + Cardinality(Creations(batch))
  BY DEF TakePoolIds
<1>5. /\ pool_serial \in Nat
      /\ \A p \in DOMAIN pools : pools[p] \in 1..pool_serial
      /\ \A p, q \in DOMAIN pools : pools[p] = pools[q] => p = q
  BY DEF StoreInv, IdsDiffer
<1>6. IdsDiffer'
  BY <1>1, <1>3, <1>4, <1>5 DEF IdsDiffer
<1>7. \A id : FreeId(id) => FreeId(id)'
  BY <1>1, <1>3, <1>4, <1>5 DEF FreeId
<1>8. ASSUME NEW p \in DOMAIN InsertedPools(batch), NEW id, id = InsertedPools(batch)[p]
      PROVE  FreeId(id)'
  <2>1. id \in 1..pool_serial' /\ id > pool_serial /\ id \in Int
    BY <1>3, <1>4, <1>5, <1>8
  <2>2. \A q \in DOMAIN pools : pools[q] # id
    BY <2>1, <1>5
  <2> QED BY <2>1, <2>2, <1>1 DEF FreeId
<1> QED BY <1>1, <1>2, <1>6, <1>7, <1>8 DEF StoreInv

(* What readers take for the current reserves of a pool are those after    *)
(* its newest event that is stored.                                        *)
LEMMA NewestIsRead ==
  ASSUME StoreInv
  PROVE  LatestIsNewest
<1> SUFFICES ASSUME NEW p \in DOMAIN pools, NEW f \in DOMAIN reserves, Chain[f].pool = p
             PROVE  /\ Chain[latest_for_pools(p)].pool = p
                    /\ Chain[f].slot <= Chain[latest_for_pools(p)].slot
                    /\ Chain[f].sig = Chain[latest_for_pools(p)].sig => f <= latest_for_pools(p)
  BY DEF LatestIsNewest
<1> DEFINE rows == {e \in DOMAIN reserves : reserves[e].pool_id = pools[p]}
           e == Latest(rows)
<1>1. rows \in SUBSET Events /\ f \in rows
  BY DEF StoreInv, TablesAgree
<1>2. e \in rows /\ (f = e \/ Precedes(f, e))
  <2> HIDE DEF rows
  <2> QED BY <1>1, LatestLast
<1>3. Chain[e].pool = p
  <2>1. e \in DOMAIN reserves /\ reserves[e].pool_id = pools[p]
    BY <1>2
  <2> HIDE DEF rows, e
  <2> QED BY <2>1 DEF StoreInv, TablesAgree, IdsDiffer
<1>4. e \in Events /\ f \in Events
  BY <1>1, <1>2
<1> HIDE DEF rows
<1>5. Chain[f].slot <= Chain[e].slot /\ (Chain[f].sig = Chain[e].sig => f <= e)
  <2> HIDE DEF e
  <2>1. /\ Precedes(f, e) => Chain[f].slot <= Chain[e].slot
        /\ Precedes(f, e) /\ Chain[f].sig = Chain[e].sig => f < e
    BY <1>4, PrecedesOrder
  <2>2. f \in Nat /\ e \in Nat /\ Chain[f].slot \in Nat
    BY <1>4, EventType
  <2> QED BY <1>2, <2>1, <2>2
<1> QED BY <1>3, <1>5 DEF latest_for_pools, rows

-----------------------------------------------------------------------------
(* The live indexer beside any other writer of the store.                  *)

(* The transaction that was to create the pool has failed.                 *)
RolledBack(p) == \E e \in Creations(Events) : Chain[e].pool = p /\ Chain[e].slot \in missed
LiveCache ==
  \A p \in DOMAIN pool_cache :
    \/ p \in DOMAIN pools /\ pool_cache[p] = pools[p]
    \/ FreeId(pool_cache[p]) /\ RolledBack(p)

(* The channel keeps its capacity, and neither it nor the checkpoint is    *)
(* ahead of the chain.                                                     *)
ChannelBounded ==
  /\ Len(rx) <= BLOCK_CHANNEL_CAPACITY
  /\ \A i \in DOMAIN rx : rx[i] <= tip
  /\ next <= tip + 1 /\ checkpoint <= tip
ChannelInv ==
  /\ tip \in Nat /\ checkpoint \in Nat /\ next \in Nat /\ resume \in Nat
  /\ rx \in Seq(Nat) /\ running \in BOOLEAN /\ connected \in BOOLEAN
  /\ resume <= tip
  /\ ChannelBounded

Accounted(e) ==
  \/ e \in DOMAIN reserves
  \/ {Chain[e].slot, Chain[CreationOf(e)].slot} \cap missed # {}
(* What may still be needed of a block is accounted for or on its way: the *)
(* checkpoint, the slot to resume from, each block of the channel and the  *)
(* stream have everything before them stored, missed, or ahead of them in  *)
(* the channel.                                                            *)
LossInv ==
  /\ \A e \in Events : Chain[e].slot <= checkpoint => Accounted(e)
  /\ running /\ resume > 0 => \A e \in Events : Chain[e].slot < resume => Accounted(e)
  /\ \A i \in DOMAIN rx, e \in Events :
       Chain[e].slot < rx[i] =>
         Accounted(e) \/ \E j \in 1..(i - 1) : rx[j] = Chain[e].slot
  /\ connected => \A e \in Events :
       Chain[e].slot < next => Accounted(e) \/ \E j \in DOMAIN rx : rx[j] = Chain[e].slot

LiveInv == StoreInv /\ LiveCache /\ ChannelInv /\ LossInv

LEMMA AccountedStays ==
  ASSUME DOMAIN reserves \subseteq DOMAIN reserves', missed \subseteq missed'
  PROVE  \A e \in Events : Accounted(e) => Accounted(e)'
BY DEF Accounted

(* Nothing but the stream or the process changes.                          *)
LEMMA CachesSame ==
  ASSUME LiveInv, UNCHANGED <<store, pool_cache, missed>>
  PROVE  StoreInv' /\ LiveCache' /\ \A e \in Events : Accounted(e) => Accounted(e)'
<1>1. StoreInv' /\ \A id : FreeId(id) => FreeId(id)'
  BY StoreInvSame DEF LiveInv
<1>2. pools' = pools /\ reserves' = reserves
  BY DEF store, tables
<1>3. LiveCache'
  BY <1>1, <1>2 DEF LiveInv, LiveCache, RolledBack
<1>4. \A e \in Events : Accounted(e) => Accounted(e)'
  BY <1>2, AccountedStays
<1> QED BY <1>1, <1>3, <1>4

LEMMA RunLiveKeeps ==
  ASSUME LiveInv, run_live
  PROVE  LiveInv'
<1>1. StoreInv'
  BY StoreInvSame DEF LiveInv, run_live
<1>2. LiveCache'
  <2>1. pool_cache' = pools /\ pools' = pools
    BY DEF run_live, load_pool_cache, store, tables
  <2> QED BY <2>1 DEF LiveCache
<1>3. resume' \in Nat /\ resume' <= checkpoint
  BY IndexerAssumption DEF run_live, LiveInv, ChannelInv
<1>4. ChannelInv'
  BY <1>3 DEF run_live, LiveInv, ChannelInv, ChannelBounded, stream
<1>5. \A e \in Events : Accounted(e)' <=> Accounted(e)
  BY DEF run_live, Accounted, store, tables
<1>6. LossInv'
  <2>1. \A e \in Events : Chain[e].slot < resume' => Accounted(e)
    BY <1>3, EventType DEF LiveInv, LossInv, ChannelInv
  <2> QED BY <2>1, <1>5 DEF run_live, LiveInv, LossInv, stream
<1> QED BY <1>1, <1>2, <1>4, <1>6 DEF LiveInv

LEMMA ProduceKeeps ==
  ASSUME LiveInv, Produce
  PROVE  LiveInv'
<1>1. StoreInv' /\ LiveCache' /\ \A e \in Events : Accounted(e) => Accounted(e)'
  BY CachesSame DEF Produce, caches
<1>2. ChannelInv'
  BY DEF Produce, LiveInv, ChannelInv, ChannelBounded, stream
<1>3. LossInv'
  BY <1>1 DEF Produce, LiveInv, LossInv, stream
<1> QED BY <1>1, <1>2, <1>3 DEF LiveInv

LEMMA FallBackToTipKeeps ==
  ASSUME LiveInv, FallBackToTip
  PROVE  LiveInv'
<1>1. StoreInv' /\ LiveCache' /\ \A e \in Events : Accounted(e) => Accounted(e)'
  BY CachesSame DEF FallBackToTip, caches
<1>2. ChannelInv'
  BY DEF FallBackToTip, LiveInv, ChannelInv, ChannelBounded, stream
<1>3. LossInv'
  BY <1>1 DEF FallBackToTip, LiveInv, LossInv, stream
<1> QED BY <1>1, <1>2, <1>3 DEF LiveInv

(* A stream from the tip jumps over what is neither stored nor in the      *)
(* channel, and says so.                                                   *)
LEMMA SubscribeOnceKeeps ==
  ASSUME LiveInv, subscribe_once
  PROVE  LiveInv'
<1>0. /\ UNCHANGED <<store, tip, checkpoint, running, caches, rx, resume>>
      /\ missed \subseteq missed'
      /\ running /\ connected' = TRUE
  BY DEF subscribe_once
<1>1. pools' = pools /\ reserves' = reserves /\ pool_cache' = pool_cache
  BY <1>0 DEF store, tables, caches
<1>2. StoreInv' /\ \A id : FreeId(id) => FreeId(id)'
  BY <1>0, StoreInvSame DEF LiveInv
<1>3. LiveCache'
  BY <1>0, <1>1, <1>2 DEF LiveInv, LiveCache, RolledBack
<1>4. \A e \in Events : Accounted(e) => Accounted(e)'
  BY <1>0, <1>1, AccountedStays
<1>5. next' \in Nat /\ next' <= tip + 1
  BY DEF subscribe_once, LiveInv, ChannelInv
<1>6. ChannelInv'
  BY <1>0, <1>5 DEF LiveInv, ChannelInv, ChannelBounded
<1>7. ASSUME NEW e \in Events, Chain[e].slot < next'
      PROVE  Accounted(e)' \/ \E j \in DOMAIN rx : rx[j] = Chain[e].slot
  <2>1. CASE resume > 0 /\ next' = resume
    BY <2>1, <1>0, <1>4, <1>7 DEF LiveInv, LossInv
  <2>2. CASE next' = tip + 1 /\ missed' = missed \cup Jumped
    <3>1. Chain[e].slot \in 1..tip
      BY <2>2, <1>7, EventType DEF LiveInv, ChannelInv
    <3>2. CASE Chain[e].slot \in Jumped
      BY <3>2, <2>2 DEF Accounted
    <3>3. CASE Batch(Chain[e].slot) \subseteq DOMAIN reserves
      BY <3>3, <1>1 DEF Batch, Accounted
    <3> QED BY <3>1, <3>2, <3>3 DEF Jumped
  <2> QED BY <2>1, <2>2 DEF subscribe_once
<1>8. LossInv'
  BY <1>0, <1>4, <1>7 DEF LiveInv, LossInv
<1> QED BY <1>2, <1>3, <1>6, <1>8 DEF LiveInv

LEMMA ReceiveBlockKeeps ==
  ASSUME LiveInv, receive_block
  PROVE  LiveInv'
<1>0. /\ rx \in Seq(Nat) /\ next \in Nat /\ tip \in Nat /\ checkpoint \in Nat /\ next <= tip
      /\ rx' = Append(rx, next) /\ next' = next + 1 /\ Len(rx) < BLOCK_CHANNEL_CAPACITY
      /\ UNCHANGED <<store, tip, checkpoint, running, caches, connected, resume, missed>>
      /\ connected
  BY DEF receive_block, LiveInv, ChannelInv
<1>1. StoreInv' /\ LiveCache' /\ \A e \in Events : Accounted(e) => Accounted(e)'
  BY <1>0, CachesSame DEF caches
<1>2. /\ rx' \in Seq(Nat) /\ Len(rx) \in Nat /\ Len(rx') = Len(rx) + 1
      /\ DOMAIN rx = 1..Len(rx) /\ DOMAIN rx' = 1..(Len(rx) + 1)
      /\ \A i \in 1..Len(rx) : rx'[i] = rx[i]
      /\ rx'[Len(rx) + 1] = next
  BY <1>0
<1>3. ChannelInv'
  <2>1. Len(rx') <= BLOCK_CHANNEL_CAPACITY
    BY <1>0, <1>2, IndexerAssumption
  <2>2. \A i \in DOMAIN rx' : rx'[i] <= tip
    BY <1>0, <1>2 DEF LiveInv, ChannelInv, ChannelBounded
  <2> QED BY <2>1, <2>2, <1>0, <1>2 DEF LiveInv, ChannelInv, ChannelBounded
<1>4. ASSUME NEW i \in DOMAIN rx', NEW e \in Events, Chain[e].slot < rx'[i]
      PROVE  Accounted(e)' \/ \E j \in 1..(i - 1) : rx'[j] = Chain[e].slot
  <2>1. CASE i \in 1..Len(rx)
    <3>1. Accounted(e) \/ \E j \in 1..(i - 1) : rx[j] = Chain[e].slot
      BY <2>1, <1>2, <1>4 DEF LiveInv, LossInv
    <3> QED BY <2>1, <3>1, <1>1, <1>2
  <2>2. CASE i = Len(rx) + 1
    <3>1. Accounted(e) \/ \E j \in DOMAIN rx : rx[j] = Chain[e].slot
      BY <2>2, <1>0, <1>2, <1>4 DEF LiveInv, LossInv
    <3> QED BY <2>2, <3>1, <1>1, <1>2
  <2> QED BY <2>1, <2>2, <1>2
<1>5. ASSUME NEW e \in Events, Chain[e].slot < next'
      PROVE  Accounted(e)' \/ \E j \in DOMAIN rx' : rx'[j] = Chain[e].slot
  <2>1. CASE Chain[e].slot < next
    <3>1. Accounted(e) \/ \E j \in DOMAIN rx : rx[j] = Chain[e].slot
      BY <2>1, <1>0 DEF LiveInv, LossInv
    <3> QED BY <3>1, <1>1, <1>2
  <2>2. CASE Chain[e].slot = next
    BY <2>2, <1>2
  <2> QED BY <2>1, <2>2, <1>0, <1>5, EventType
<1>6. LossInv'
  BY <1>0, <1>1, <1>4, <1>5 DEF LiveInv, LossInv
<1> QED BY <1>1, <1>3, <1>6 DEF LiveInv

LEMMA DisconnectKeeps ==
  ASSUME LiveInv, Disconnect
  PROVE  LiveInv'
<1>1. StoreInv' /\ LiveCache' /\ \A e \in Events : Accounted(e) => Accounted(e)'
  BY CachesSame DEF Disconnect, caches
<1>2. ChannelInv'
  <2>1. /\ UNCHANGED <<tip, checkpoint, running, rx, resume>>
        /\ connected' = FALSE /\ next' = 0
    BY DEF Disconnect
  <2>2. 0 <= tip + 1
    BY DEF LiveInv, ChannelInv
  <2> QED BY <2>1, <2>2 DEF LiveInv, ChannelInv, ChannelBounded
<1>3. LossInv'
  BY <1>1 DEF Disconnect, LiveInv, LossInv
<1> QED BY <1>1, <1>2, <1>3 DEF LiveInv

LEMMA CrashKeeps ==
  ASSUME LiveInv, Crash
  PROVE  LiveInv'
<1>0. /\ UNCHANGED <<store, tip, checkpoint, missed>>
      /\ running' = FALSE /\ connected' = FALSE /\ next' = 0 /\ resume' = 0
      /\ pool_cache' = Empty /\ rx' = <<>>
  BY DEF Crash
<1>1. StoreInv' /\ reserves' = reserves
  BY <1>0, StoreInvSame DEF LiveInv, store, tables
<1>2. LiveCache'
  BY <1>0 DEF LiveCache, Empty
<1>3. \A e \in Events : Accounted(e) => Accounted(e)'
  BY <1>0, <1>1, AccountedStays
<1>4. DOMAIN rx' = {} /\ Len(rx') = 0 /\ rx' \in Seq(Nat)
  BY <1>0
<1>5. ChannelInv'
  <2>1. 0 <= tip /\ 0 <= tip + 1 /\ 0 <= BLOCK_CHANNEL_CAPACITY
    BY IndexerAssumption DEF LiveInv, ChannelInv
  <2> QED BY <2>1, <1>0, <1>4 DEF LiveInv, ChannelInv, ChannelBounded
<1>6. LossInv'
  BY <1>0, <1>3, <1>4 DEF LiveInv, LossInv
<1> QED BY <1>1, <1>2, <1>5, <1>6 DEF LiveInv

(* The block at the head of the channel, once its events are all accounted *)
(* for, leaves it.                                                         *)
LEMMA HeadLeaves ==
  ASSUME LiveInv, rx # <<>>, rx' = Tail(rx), UNCHANGED <<tip, running, stream, resume>>,
         checkpoint' \in {checkpoint, Head(rx)},
         \A e \in Events : Accounted(e) => Accounted(e)',
         \A e \in Batch(Head(rx)) : Accounted(e)'
  PROVE  ChannelInv' /\ LossInv'
<1>1. /\ rx \in Seq(Nat) /\ Len(rx) \in Nat \ {0} /\ Head(rx) = rx[1] /\ rx' \in Seq(Nat)
      /\ Len(rx') = Len(rx) - 1 /\ DOMAIN rx = 1..Len(rx) /\ DOMAIN rx' = 1..(Len(rx) - 1)
      /\ \A i \in 1..(Len(rx) - 1) : rx'[i] = rx[i + 1]
      /\ \A i \in 1..Len(rx) : rx[i] \in Nat
  BY HeadTailProperties, LenProperties, ElementOfSeq, EmptySeq DEF LiveInv, ChannelInv
<1>2. connected' = connected /\ next' = next
  BY DEF stream
<1>3. \A i \in 1..Len(rx) : rx[i] <= tip
  BY <1>1 DEF LiveInv, ChannelInv, ChannelBounded
<1>4. checkpoint' \in Nat /\ checkpoint' <= tip
  BY <1>1, <1>3 DEF LiveInv, ChannelInv, ChannelBounded
<1>5. ChannelInv'
  <2>1. Len(rx') <= BLOCK_CHANNEL_CAPACITY
    BY <1>1, IndexerAssumption DEF LiveInv, ChannelInv, ChannelBounded
  <2>2. \A i \in DOMAIN rx' : rx'[i] <= tip'
    BY <1>1, <1>3
  <2> QED BY <2>1, <2>2, <1>1, <1>2, <1>4 DEF LiveInv, ChannelInv, ChannelBounded
<1>6. \A e \in Events : Chain[e].slot = rx[1] => Accounted(e)'
  BY <1>1 DEF Batch
<1>7. ASSUME NEW e \in Events, Chain[e].slot <= checkpoint'
      PROVE  Accounted(e)'
  <2>1. CASE checkpoint' = checkpoint
    BY <2>1, <1>7 DEF LiveInv, LossInv
  <2>2. CASE checkpoint' = rx[1]
    <3>1. CASE Chain[e].slot < rx[1]
      <4>1. Accounted(e) \/ \E j \in 1..(1 - 1) : rx[j] = Chain[e].slot
        BY <3>1, <1>1 DEF LiveInv, LossInv
      <4> QED BY <4>1
    <3> QED BY <3>1, <2>2, <1>1, <1>6, <1>7, EventType
  <2> QED BY <2>1, <2>2, <1>1
<1>8. ASSUME NEW i \in DOMAIN rx', NEW e \in Events, Chain[e].slot < rx'[i]
      PROVE  Accounted(e)' \/ \E j \in 1..(i - 1) : rx'[j] = Chain[e].slot
  <2>1. i + 1 \in DOMAIN rx /\ rx'[i] = rx[i + 1] /\ i \in Nat
    BY <1>1
  <2>2. Accounted(e) \/ \E j \in 1..(i + 1 - 1) : rx[j] = Chain[e].slot
    BY <2>1, <1>8 DEF LiveInv, LossInv
  <2>3. CASE \E j \in 1..i : rx[j] = Chain[e].slot
    <3>1. PICK j \in 1..i : rx[j] = Chain[e].slot
      BY <2>3
    <3>2. CASE j = 1
      BY <3>1, <3>2, <1>6
    <3>3. CASE j > 1
      <4>1. j - 1 \in 1..(i - 1) /\ j - 1 \in 1..(Len(rx) - 1) /\ (j - 1) + 1 = j
        BY <3>3, <2>1, <1>1
      <4> QED BY <4>1, <3>1, <1>1
    <3> QED BY <3>2, <3>3
  <2> QED BY <2>1, <2>2, <2>3
<1>9. ASSUME NEW e \in Events, connected, Chain[e].slot < next
      PROVE  Accounted(e)' \/ \E j \in DOMAIN rx' : rx'[j] = Chain[e].slot
  <2>1. Accounted(e) \/ \E j \in DOMAIN rx : rx[j] = Chain[e].slot
    BY <1>9 DEF LiveInv, LossInv
  <2>2. CASE \E j \in DOMAIN rx : rx[j] = Chain[e].slot
    <3>1. PICK j \in DOMAIN rx : rx[j] = Chain[e].slot
      BY <2>2
    <3>2. CASE j = 1
      BY <3>1, <3>2, <1>6
    <3>3. CASE j > 1
      <4>1. j - 1 \in 1..(Len(rx) - 1) /\ (j - 1) + 1 = j
        BY <3>1, <3>3, <1>1
      <4> QED BY <4>1, <3>1, <1>1
    <3> QED BY <3>1, <3>2, <3>3, <1>1
  <2> QED BY <2>1, <2>2
<1>10. LossInv'
  <2>1. running' /\ resume' > 0 => \A e \in Events : Chain[e].slot < resume' => Accounted(e)'
    BY DEF LiveInv, LossInv
  <2> QED BY <2>1, <1>2, <1>7, <1>8, <1>9 DEF LossInv
<1> QED BY <1>5, <1>10

(* A block that is written leaves none of its events out, but those of     *)
(* pools whose creation was missed.                                        *)
LEMMA BlockAccounted ==
  ASSUME LiveInv, rx # <<>>, NEW cache,
         DOMAIN reserves' = DOMAIN reserves \cup
           Known(Batch(Head(rx)), CachedPools(Batch(Head(rx)), cache)),
         missed' = missed,
         NEW e \in Batch(Head(rx))
  PROVE  Accounted(e)'
<1> DEFINE batch == Batch(Head(rx))
           c == CreationOf(e)
<1>1. e \in Events /\ Chain[e].slot = Head(rx)
  BY DEF Batch
<1>2. /\ c \in Events /\ Chain[c].kind = "create" /\ Chain[c].pool = Chain[e].pool
      /\ Chain[c].slot <= Chain[e].slot /\ CreationOf(c) = c
  <2>1. c \in Creations(Events) /\ Chain[c].pool = Chain[e].pool /\ Chain[c].slot <= Chain[e].slot
    BY <1>1, CreationFacts
  <2>2. c \in Events
    BY <2>1 DEF Creations
  <2> HIDE DEF c
  <2>3. CreationOf(c) = c
    BY <2>1, <2>2, CreationFacts
  <2> QED BY <2>1, <2>2, <2>3 DEF Creations
<1> HIDE DEF c
<1>3. Chain[e].pool \in DOMAIN Table(batch) => Accounted(e)'
  BY CachedFacts DEF Known, Accounted
<1>4. CASE Chain[c].slot = Chain[e].slot
  <2>1. c \in Creations(batch)
    BY <1>1, <1>2, <1>4 DEF Batch, Creations
  <2>2. Chain[e].pool \in DOMAIN Table(batch)
    <3>1. DOMAIN InsertedPools(batch) = {Chain[f].pool : f \in Creations(batch)} \ DOMAIN pools
      BY InsertedFacts DEF LiveInv, StoreInv, Batch
    <3>2. DOMAIN Table(batch) = DOMAIN pools \cup DOMAIN InsertedPools(batch)
      BY TableFacts
    <3> HIDE DEF batch
    <3> QED BY <2>1, <1>2, <3>1, <3>2
  <2> QED BY <2>2, <1>3
<1>5. CASE Chain[c].slot < Chain[e].slot
  <2>1. /\ 1 \in DOMAIN rx /\ rx[1] = Head(rx)
    BY HeadTailProperties, LenProperties, EmptySeq DEF LiveInv, ChannelInv
  <2>2. Accounted(c) \/ \E j \in 1..(1 - 1) : rx[j] = Chain[c].slot
    BY <2>1, <1>1, <1>2, <1>5 DEF LiveInv, LossInv
  <2>3. CASE c \in DOMAIN reserves
    <3>1. Chain[e].pool \in DOMAIN pools
      BY <2>3, <1>2 DEF LiveInv, StoreInv, TablesAgree
    <3> QED BY <3>1, <1>3, TableFacts
  <2>4. CASE Chain[c].slot \in missed
    BY <2>4 DEF Accounted, c
  <2> QED BY <2>2, <2>3, <2>4, <1>2 DEF Accounted
<1> QED BY <1>1, <1>2, <1>4, <1>5, EventType

LEMMA RunWriterKeeps ==
  ASSUME LiveInv, NEW acknowledged, run_writer(acknowledged)
  PROVE  LiveInv'
<1> DEFINE batch == Batch(Head(rx))
           c == CachedPools(batch, pool_cache)
<1>0. /\ ForeignKeysHold(batch, c) /\ InsertAll(batch, c, lp_supply_cache)
      /\ checkpoint' = Head(rx) /\ pool_cache' = c
      /\ rx # <<>> /\ rx' = Tail(rx)
      /\ UNCHANGED <<tip, running, stream, resume, missed>>
  BY DEF run_writer, write_block
<1>1. batch \in SUBSET Events
  BY DEF Batch
<1>2. SoundCache(pool_cache)
  BY DEF LiveInv, LiveCache, SoundCache
<1>3. /\ StoreInv' /\ pools' = Table(batch)
      /\ \A id : FreeId(id) => FreeId(id)'
      /\ DOMAIN reserves' = DOMAIN reserves \cup Known(batch, c)
  BY <1>0, <1>1, <1>2, StoreInvKept DEF LiveInv
<1>4. LiveCache'
  <2>1. \A p \in DOMAIN c : \/ p \in DOMAIN Table(batch) /\ c[p] = Table(batch)[p]
                            \/ p \in DOMAIN pool_cache \ DOMAIN InsertedPools(batch)
                               /\ c[p] = pool_cache[p]
    BY CachedFacts
  <2>2. \A p \in DOMAIN pools : p \in DOMAIN Table(batch) /\ Table(batch)[p] = pools[p]
    BY TableFacts
  <2>3. \A p : RolledBack(p) => RolledBack(p)'
    BY <1>0 DEF RolledBack
  <2> HIDE DEF c, batch
  <2> QED BY <2>1, <2>2, <2>3, <1>0, <1>3 DEF LiveInv, LiveCache
<1>5. \A e \in Events : Accounted(e) => Accounted(e)'
  BY <1>0, <1>3, AccountedStays
<1>6. \A e \in batch : Accounted(e)'
  BY <1>0, <1>3, BlockAccounted
<1>7. ChannelInv' /\ LossInv'
  BY <1>0, <1>5, <1>6, HeadLeaves
<1> QED BY <1>3, <1>4, <1>7 DEF LiveInv

LEMMA WriteFailsKeeps ==
  ASSUME LiveInv, NEW reached, WriteFails(reached)
  PROVE  LiveInv'
<1> DEFINE batch == Batch(Head(rx))
           c == CachedPools(batch, pool_cache)
           ins == InsertedPools(batch)
<1>0. /\ missed' = missed \cup {Head(rx)} /\ checkpoint' = checkpoint
      /\ rx # <<>> /\ rx' = Tail(rx)
      /\ UNCHANGED <<tables, tip, running, stream, resume>>
  BY DEF WriteFails
<1>1. \/ UNCHANGED <<caches, pool_serial>>
      \/ TakePoolIds(batch) /\ pool_cache' \in {Over(ins, pool_cache), c}
  BY DEF WriteFails
<1>2. batch \in SUBSET Events
  BY DEF Batch
<1>3. pools' = pools /\ reserves' = reserves
  BY <1>0 DEF tables
<1>4. \A p : RolledBack(p) => RolledBack(p)'
  BY <1>0 DEF RolledBack
<1>5. StoreInv' /\ LiveCache'
  <2>1. CASE UNCHANGED <<caches, pool_serial>>
    <3>1. StoreInv' /\ (\A id : FreeId(id) => FreeId(id)') /\ pool_cache' = pool_cache
      BY <2>1, <1>0, StoreInvSame DEF LiveInv, store, caches
    <3> QED BY <3>1, <1>3, <1>4 DEF LiveInv, LiveCache
  <2>2. CASE TakePoolIds(batch) /\ pool_cache' \in {Over(ins, pool_cache), c}
    <3>1. /\ StoreInv' /\ \A id : FreeId(id) => FreeId(id)'
          /\ \A id : (\E p \in DOMAIN ins : id = ins[p]) => FreeId(id)'
      BY <2>2, <1>0, <1>2, StoreInvNumbersTaken DEF LiveInv
    <3>2. \A p \in DOMAIN ins : RolledBack(p)'
      BY <1>0 DEF InsertedPools, Creations, Batch, RolledBack
    <3>3. /\ DOMAIN Table(batch) = DOMAIN pools \cup DOMAIN ins
          /\ \A p \in DOMAIN pools : Table(batch)[p] = pools[p]
          /\ \A p \in DOMAIN ins : Table(batch)[p] = ins[p]
      BY TableFacts
    <3>4. \A p \in DOMAIN c : \/ p \in DOMAIN Table(batch) /\ c[p] = Table(batch)[p]
                              \/ p \in DOMAIN pool_cache /\ c[p] = pool_cache[p]
      BY CachedFacts
    <3> HIDE DEF ins, c, batch
    <3>5. \A p \in DOMAIN pool_cache' :
            \/ p \in DOMAIN pools /\ pool_cache'[p] = pools[p]
            \/ p \in DOMAIN ins /\ pool_cache'[p] = ins[p]
            \/ p \in DOMAIN pool_cache /\ pool_cache'[p] = pool_cache[p]
      <4>1. CASE pool_cache' = Over(ins, pool_cache)
        BY <4>1 DEF Over
      <4>2. CASE pool_cache' = c
        BY <4>2, <3>3, <3>4
      <4> QED BY <4>1, <4>2, <2>2
    <3>6. LiveCache'
      BY <3>1, <3>2, <3>5, <1>3, <1>4 DEF LiveInv, LiveCache
    <3> QED BY <3>1, <3>6
  <2> QED BY <2>1, <2>2, <1>1
<1>6. \A e \in Events : Accounted(e) => Accounted(e)'
  BY <1>0, <1>3, AccountedStays
<1>7. \A e \in batch : Accounted(e)'
  BY <1>0 DEF Batch, Accounted
<1>8. ChannelInv' /\ LossInv'
  BY <1>0, <1>6, <1>7, HeadLeaves
<1> QED BY <1>5, <1>8 DEF LiveInv

LEMMA InitLive == Init => LiveInv
<1> SUFFICES ASSUME Init PROVE LiveInv
  OBVIOUS
<1>1. /\ pools = Empty /\ reserves = Empty /\ swaps = Empty /\ liquidity = Empty
      /\ pool_serial = 0 /\ pool_cache = Empty /\ rx = <<>>
      /\ checkpoint \in Checkpoints /\ tip = FirstSlot /\ next = 0 /\ resume = 0
      /\ running = FALSE /\ connected = FALSE
  BY DEF Init, StoreInit
<1>2. DOMAIN Empty = {}
  BY DEF Empty
<1>3. IdsDiffer
  BY <1>1, <1>2 DEF IdsDiffer
<1>4. TablesAgree
  BY <1>1, <1>2 DEF TablesAgree
<1>5. LiveCache
  BY <1>1, <1>2 DEF LiveCache
<1>6. rx \in Seq(Nat) /\ DOMAIN rx = {} /\ Len(rx) = 0
  BY <1>1
<1>7. tip \in Nat /\ checkpoint \in Nat /\ checkpoint <= tip /\ 0 <= BLOCK_CHANNEL_CAPACITY
      /\ 0 <= tip /\ 0 <= tip + 1
  BY <1>1, IndexerAssumption
<1>8. ChannelInv
  BY <1>1, <1>6, <1>7 DEF ChannelInv, ChannelBounded
<1>9. \A e \in Events : ~(Chain[e].slot <= checkpoint)
  <2> SUFFICES ASSUME NEW e \in Events PROVE ~(Chain[e].slot <= checkpoint)
    OBVIOUS
  <2>1. checkpoint < Chain[e].slot /\ Chain[e].slot \in Nat
    BY <1>1, StartAssumption, EventType
  <2> QED BY <2>1, <1>7
<1>10. LossInv
  BY <1>1, <1>6, <1>9 DEF LossInv
<1> QED BY <1>1, <1>2, <1>3, <1>4, <1>5, <1>8, <1>10 DEF LiveInv, StoreInv

LEMMA NextKeeps == LiveInv /\ [Next]_vars => LiveInv'
<1> SUFFICES ASSUME LiveInv, [Next]_vars PROVE LiveInv'
  OBVIOUS
<1>1. CASE UNCHANGED vars
  <2>1. /\ UNCHANGED <<store, pool_cache, missed>>
        /\ UNCHANGED <<tip, checkpoint, running, rx, connected, next, resume>>
    BY <1>1 DEF vars, caches, stream
  <2>2. StoreInv' /\ LiveCache' /\ \A e \in Events : Accounted(e) => Accounted(e)'
    BY <2>1, CachesSame
  <2>3. ChannelInv'
    BY <2>1 DEF LiveInv, ChannelInv, ChannelBounded
  <2>4. LossInv'
    BY <2>1, <2>2 DEF LiveInv, LossInv
  <2> QED BY <2>2, <2>3, <2>4 DEF LiveInv
<1>2. CASE Produce
  BY <1>2, ProduceKeeps
<1>3. CASE run_live
  BY <1>3, RunLiveKeeps
<1>4. CASE FallBackToTip
  BY <1>4, FallBackToTipKeeps
<1>5. CASE subscribe_once
  BY <1>5, SubscribeOnceKeeps
<1>6. CASE receive_block
  BY <1>6, ReceiveBlockKeeps
<1>7. CASE Disconnect
  BY <1>7, DisconnectKeeps
<1>8. CASE \E acknowledged \in BOOLEAN : run_writer(acknowledged)
  BY <1>8, RunWriterKeeps
<1>9. CASE \E reached \in {"begin", "pools", "rows"} : WriteFails(reached)
  BY <1>9, WriteFailsKeeps
<1>10. CASE Crash
  BY <1>10, CrashKeeps
<1> QED BY <1>1, <1>2, <1>3, <1>4, <1>5, <1>6, <1>7, <1>8, <1>9, <1>10 DEF Next

(* With no writer beside it, the live writer also knows the id of every    *)
(* pool in the table that it has cached.                                   *)
CacheCurrent == \A p \in DOMAIN pool_cache \cap DOMAIN pools : pool_cache[p] = pools[p]
IInv == LiveInv /\ CacheCurrent

LEMMA CacheCurrentKept == IInv /\ [Next]_vars => CacheCurrent'
<1> SUFFICES ASSUME IInv, [Next]_vars PROVE CacheCurrent'
  OBVIOUS
<1> DEFINE batch == Batch(Head(rx))
           c == CachedPools(batch, pool_cache)
           ins == InsertedPools(batch)
<1>1. /\ DOMAIN Table(batch) = DOMAIN pools \cup DOMAIN ins
      /\ DOMAIN ins \cap DOMAIN pools = {}
      /\ \A p \in DOMAIN pools : Table(batch)[p] = pools[p]
  BY TableFacts
<1>2. \A p \in DOMAIN c : \/ p \in DOMAIN Table(batch) /\ c[p] = Table(batch)[p]
                          \/ p \in DOMAIN pool_cache \ DOMAIN ins /\ c[p] = pool_cache[p]
  BY CachedFacts
<1>3. CASE UNCHANGED <<pools, pool_cache>>
  BY <1>3 DEF IInv, CacheCurrent
<1>4. CASE run_live
  BY <1>4 DEF run_live, load_pool_cache, store, tables, CacheCurrent
<1>5. ASSUME NEW acknowledged, run_writer(acknowledged) PROVE CacheCurrent'
  <2>1. pools' = Table(batch) /\ pool_cache' = c
    BY <1>5 DEF run_writer, write_block, InsertAll, Table
  <2> HIDE DEF batch, c, ins
  <2> QED BY <2>1, <1>1, <1>2 DEF IInv, CacheCurrent
<1>6. ASSUME NEW reached, WriteFails(reached) PROVE CacheCurrent'
  <2>1. /\ pools' = pools
        /\ pool_cache' \in {pool_cache, Over(ins, pool_cache), c}
    BY <1>6 DEF WriteFails, tables, caches
  <2> HIDE DEF batch, c, ins
  <2>2. CASE pool_cache' = pool_cache
    BY <2>1, <2>2 DEF IInv, CacheCurrent
  <2>3. CASE pool_cache' = Over(ins, pool_cache)
    <3>1. \A p \in DOMAIN pools : p \in DOMAIN pool_cache'
            => p \in DOMAIN pool_cache /\ pool_cache'[p] = pool_cache[p]
      BY <2>3, <1>1 DEF Over
    <3> QED BY <3>1, <2>1 DEF IInv, CacheCurrent
  <2>4. CASE pool_cache' = c
    BY <2>1, <2>4, <1>1, <1>2 DEF IInv, CacheCurrent
  <2> QED BY <2>1, <2>2, <2>3, <2>4
<1>7. CASE Crash
  BY <1>7 DEF Crash, CacheCurrent, Empty
<1> QED
  <2>1. CASE UNCHANGED vars
    BY <2>1, <1>3 DEF vars, store, tables, caches
  <2>2. CASE Produce \/ FallBackToTip \/ subscribe_once \/ receive_block \/ Disconnect
    BY <2>2, <1>3 DEF Produce, FallBackToTip, subscribe_once, receive_block, Disconnect,
                      store, tables, caches
  <2> QED BY <2>1, <2>2, <1>4, <1>5, <1>6, <1>7 DEF Next

LEMMA SpecIInv == Spec => []IInv
<1>1. Init => IInv
  BY InitLive DEF IInv, CacheCurrent, Init, Empty
<1>2. IInv /\ [Next]_vars => IInv'
  BY NextKeeps, CacheCurrentKept DEF IInv
<1> QED BY <1>1, <1>2, PTL DEF Spec

(* Nothing below the checkpoint is lost without the writer having failed   *)
(* on it, or the stream having jumped over it: cuts, crashes, replays and  *)
(* commits without an answer lose nothing.                                 *)
THEOREM NothingElseIsLost == Spec => []LostOnlyWhenMissed
<1>1. IInv => LostOnlyWhenMissed
  <2> SUFFICES ASSUME IInv, NEW e \in Events, ~(Chain[e].slot > checkpoint)
               PROVE  Accounted(e)
    BY DEF LostOnlyWhenMissed, Accounted
  <2>1. Chain[e].slot <= checkpoint
    BY EventType DEF IInv, LiveInv, ChannelInv
  <2> QED BY <2>1 DEF IInv, LiveInv, LossInv
<1> QED BY <1>1, SpecIInv, PTL

(* The writer's cached pool ids are those of the table, but for pools that *)
(* are not there because the transaction that was to create them failed.   *)
THEOREM CacheStaysTrue == Spec => []CacheTrue
<1>1. IInv => CacheTrue
  BY DEF IInv, LiveInv, LiveCache, CacheCurrent, CacheTrue, RolledBack
<1> QED BY <1>1, SpecIInv, PTL

(* The four tables hold the same events under the ids of their pools.      *)
THEOREM TablesStayInAgreement == Spec => []TablesAgree
<1>1. IInv => TablesAgree
  BY DEF IInv, LiveInv, StoreInv
<1> QED BY <1>1, SpecIInv, PTL

(* The row taken for the current reserves is that of the newest event.     *)
THEOREM LatestStaysNewest == Spec => []LatestIsNewest
<1>1. IInv => LatestIsNewest
  BY NewestIsRead DEF IInv, LiveInv
<1> QED BY <1>1, SpecIInv, PTL

-----------------------------------------------------------------------------
(* The refinement: every step stores whole events of known pools, all of   *)
(* them announced or none, or is a stutter of EventStore.                  *)
Promise == <<DOMAIN reserves, published>>

LEMMA CommitsKeepThePromise ==
  ASSUME StoreInv', DOMAIN reserves \subseteq DOMAIN reserves',
         \/ published' = [e \in Events |-> published[e] +
                            (IF e \in DOMAIN reserves' \ DOMAIN reserves THEN 1 ELSE 0)]
         \/ UNCHANGED published
  PROVE  Store_!Next
<1> DEFINE new == DOMAIN reserves' \ DOMAIN reserves
<1>1. new \subseteq Events /\ DOMAIN reserves' = DOMAIN reserves \cup new
  BY DEF StoreInv
<1>2. ASSUME NEW e \in new PROVE CreationOf(e) \in DOMAIN reserves'
  <2>1. e \in DOMAIN reserves' /\ e \in Events
    BY <1>1
  <2> HIDE DEF new
  <2>2. PICK d \in Creations(DOMAIN reserves') : Chain[d].pool = Chain[e].pool
    BY <2>1 DEF StoreInv, TablesAgree
  <2>3. d \in Creations(Events) /\ d \in DOMAIN reserves'
    BY <2>2 DEF StoreInv, Creations
  <2>4. d = CreationOf(e)
    BY <2>1, <2>2, <2>3, CreationFacts
  <2> QED BY <2>3, <2>4
<1> QED BY <1>1, <1>2 DEF Store_!Next, Store_!Commit

LEMMA NextKeepsThePromise ==
  ASSUME LiveInv, [Next]_vars
  PROVE  Store_!Next \/ UNCHANGED Promise
<1>1. StoreInv'
  BY NextKeeps DEF LiveInv
<1>2. ASSUME NEW acknowledged, run_writer(acknowledged)
      PROVE  Store_!Next
  <2> DEFINE batch == Batch(Head(rx))
             c == CachedPools(batch, pool_cache)
             known == Known(batch, c)
  <2>1. /\ ForeignKeysHold(batch, c) /\ InsertAll(batch, c, lp_supply_cache)
        /\ \/ published' = [e \in Events |->
                              published[e] + IF e \in Inserted(known) THEN 1 ELSE 0]
           \/ UNCHANGED published
    BY <1>2 DEF run_writer, write_block
  <2>2. batch \in SUBSET Events /\ SoundCache(pool_cache)
    BY DEF Batch, LiveInv, LiveCache, SoundCache
  <2>3. DOMAIN reserves' = DOMAIN reserves \cup known
    BY <2>1, <2>2, StoreInvKept DEF LiveInv
  <2> HIDE DEF known
  <2>4. Inserted(known) = DOMAIN reserves' \ DOMAIN reserves
    BY <2>3 DEF Inserted
  <2> QED BY <2>1, <2>3, <2>4, <1>1, CommitsKeepThePromise
<1>3. ASSUME NEW reached, WriteFails(reached)
      PROVE  UNCHANGED Promise
  BY <1>3 DEF WriteFails, tables, Promise
<1>4. CASE Produce \/ run_live \/ FallBackToTip \/ subscribe_once \/ receive_block
           \/ Disconnect \/ Crash
  BY <1>4 DEF Produce, run_live, FallBackToTip, subscribe_once, receive_block, Disconnect,
              Crash, store, tables, Promise
<1>5. CASE UNCHANGED vars
  BY <1>5 DEF vars, store, tables, Promise
<1> QED BY <1>2, <1>3, <1>4, <1>5 DEF Next

LEMMA InitKeepsThePromise == Init => Store_!Init
BY DEF Init, StoreInit, Store_!Init, Empty

(* The live indexer implements EventStore, whatever is cut, crashes or     *)
(* rolls back.                                                             *)
THEOREM LiveKeepsThePromise == Spec => KeepsThePromise
<1>1. IInv /\ [Next]_vars => [Store_!Next]_Promise
  BY NextKeepsThePromise DEF IInv
<1> QED BY <1>1, InitKeepsThePromise, SpecIInv, PTL
        DEF Spec, KeepsThePromise, Store_!Spec, Promise

(* What the promise is worth: a row is announced at most once and never    *)
(* before it is stored, and no event is stored without the creation of its *)
(* pool.                                                                   *)
AnnouncedInv == published \in [Events -> Nat] /\ Store_!AnnouncedOnce

LEMMA PromiseAnnouncesOnce == KeepsThePromise => []Store_!AnnouncedOnce
<1>1. Store_!Init => AnnouncedInv
  BY DEF Store_!Init, AnnouncedInv, Store_!AnnouncedOnce
<1>2. AnnouncedInv /\ [Store_!Next]_Promise => AnnouncedInv'
  <2> SUFFICES ASSUME AnnouncedInv, [Store_!Next]_Promise PROVE AnnouncedInv'
    OBVIOUS
  <2>1. CASE UNCHANGED Promise
    BY <2>1 DEF Promise, AnnouncedInv, Store_!AnnouncedOnce
  <2>2. CASE Store_!Next
    <3> DEFINE new == DOMAIN reserves' \ DOMAIN reserves
    <3>1. /\ DOMAIN reserves' = DOMAIN reserves \cup new
          /\ \/ published' = [e \in Events |-> published[e] + (IF e \in new THEN 1 ELSE 0)]
             \/ UNCHANGED published
      BY <2>2 DEF Store_!Next, Store_!Commit
    <3>2. published' \in [Events -> Nat]
      BY <3>1 DEF AnnouncedInv
    <3>3. ASSUME NEW e \in Events
          PROVE  published'[e] <= (IF e \in DOMAIN reserves' THEN 1 ELSE 0)
      <4>1. published[e] \in Nat /\ published[e] <= (IF e \in DOMAIN reserves THEN 1 ELSE 0)
        BY DEF AnnouncedInv, Store_!AnnouncedOnce
      <4> QED BY <3>1, <4>1
    <3> QED BY <3>2, <3>3 DEF AnnouncedInv, Store_!AnnouncedOnce
  <2> QED BY <2>1, <2>2
<1>3. AnnouncedInv => Store_!AnnouncedOnce
  BY DEF AnnouncedInv
<1> QED BY <1>1, <1>2, <1>3, PTL DEF KeepsThePromise, Store_!Spec, Promise

LEMMA PromiseStoresCreations == KeepsThePromise => []Store_!CreationFirst
<1>1. Store_!Init => Store_!CreationFirst
  BY DEF Store_!Init, Store_!CreationFirst
<1>2. Store_!CreationFirst /\ [Store_!Next]_Promise => Store_!CreationFirst'
  BY DEF Store_!Next, Store_!Commit, Promise, Store_!CreationFirst
<1> QED BY <1>1, <1>2, PTL DEF KeepsThePromise, Store_!Spec, Promise

(* The same of the live indexer: over crashes, replays of stored blocks    *)
(* and commits without an answer, no subscriber is told of a row twice.    *)
THEOREM RowsAnnouncedOnce == Spec => [](Store_!AnnouncedOnce /\ Store_!CreationFirst)
BY LiveKeepsThePromise, PromiseAnnouncesOnce, PromiseStoresCreations, PTL

-----------------------------------------------------------------------------
(* The supply that a swap is stored with.  The payload of a swap does not  *)
(* carry it, so the writer fills it in from what it has mirrored: what was *)
(* told last, for every chain and whatever is cut, crashes and is replayed,*)
(* and the chain's where that was told rightly.                            *)

(* The event that last changed the supply of the pool of e before e.       *)
SupplyFrom(a, e) ==
  /\ a \in Events /\ CarriesLp(a) /\ Chain[a].pool = Chain[e].pool /\ Precedes(a, e)
  /\ \A b \in Events : CarriesLp(b) /\ Chain[b].pool = Chain[e].pool /\ Precedes(b, e)
                         => b = a \/ Precedes(b, a)

Orderly(e) == ~Scrambled(e) /\ ~Reverted(e)

(* Where no two transactions were swapped, the order of the sort is that   *)
(* of the chain.                                                           *)
LEMMA ChainOrder ==
  ASSUME NEW e \in Events, ~Scrambled(e), NEW a \in Events, NEW b \in Events, a < b,
         Chain[a].pool = Chain[e].pool, Chain[b].pool = Chain[e].pool,
         Chain[a].slot <= Chain[e].slot
  PROVE  Precedes(a, b)
<1>1. /\ Chain[a].slot <= Chain[b].slot
      /\ Chain[a].sig = Chain[b].sig => Chain[a].ix < Chain[b].ix
  BY ChainAssumption
<1>2. Chain[a].slot = Chain[b].slot => ~(Chain[b].sig < Chain[a].sig)
  BY DEF Scrambled
<1>3. Chain[a].slot \in Nat /\ Chain[b].slot \in Nat /\ Chain[a].sig \in Nat /\ Chain[b].sig \in Nat
  BY EventType
<1> QED BY <1>1, <1>2, <1>3 DEF Precedes

LEMMA CreatedBefore ==
  ASSUME NEW e \in Events, Chain[e].kind = "swap"
  PROVE  \E c \in Events : /\ c < e /\ Chain[c].kind = "create" /\ Chain[c].ok
                           /\ Chain[c].pool = Chain[e].pool /\ Chain[c].slot <= Chain[e].slot
<1>1. PICK c \in 1..e : Chain[c].kind = "create" /\ Chain[c].pool = Chain[e].pool
  BY ChainAssumption
<1>2. c \in Events /\ c \in Nat /\ e \in Nat /\ c <= e
  BY ChainShape, EventType DEF Events
<1>3. c # e
  BY <1>1
<1>4. c < e
  BY <1>2, <1>3
<1>5. Chain[c].ok
  BY <1>1, <1>2, ChainAssumption
<1>6. Chain[c].slot <= Chain[e].slot
  BY <1>2, <1>4, ChainAssumption
<1> QED BY <1>1, <1>2, <1>4, <1>5, <1>6

LEMMA SupplyFromExists ==
  ASSUME NEW e \in Events, Chain[e].kind = "swap", ~Scrambled(e)
  PROVE  \E a \in Events : SupplyFrom(a, e)
<1> DEFINE S == {b \in Events : CarriesLp(b) /\ Chain[b].pool = Chain[e].pool /\ Precedes(b, e)}
<1>1. S \in SUBSET Events /\ S # {}
  <2>1. PICK c \in Events : /\ c < e /\ Chain[c].kind = "create"
                            /\ Chain[c].pool = Chain[e].pool /\ Chain[c].slot <= Chain[e].slot
    BY CreatedBefore
  <2>2. Precedes(c, e)
    BY <2>1, ChainOrder
  <2> QED BY <2>1, <2>2 DEF CarriesLp
<1>2. Latest(S) \in S /\ \A f \in S \ {Latest(S)} : Precedes(f, Latest(S))
  <2> HIDE DEF S
  <2> QED BY <1>1, LatestLast
<1>3. SupplyFrom(Latest(S), e)
  BY <1>2 DEF SupplyFrom
<1> QED BY <1>2, <1>3

(* A swap leaves the supply where the last change before it had put it.    *)
LEMMA SupplyAtSwap ==
  ASSUME NEW a \in Events
  PROVE  \A e \in Events : Chain[e].kind = "swap" /\ Orderly(e) /\ SupplyFrom(a, e)
                             => Chain[e].lp = Chain[a].lp
<1> DEFINE Wrong == {e \in Events : /\ Chain[e].kind = "swap" /\ Orderly(e) /\ SupplyFrom(a, e)
                                    /\ Chain[e].lp # Chain[a].lp}
<1> SUFFICES ASSUME Wrong # {} PROVE FALSE
  OBVIOUS
<1>1. Wrong \subseteq Nat
  BY EventType
<1>2. PICK e \in Wrong : \A d \in Wrong : ~(<<d, e>> \in OpToRel(<, Nat))
  <2> HIDE DEF Wrong
  <2> QED BY <1>1, NatLessThanWellFounded, WFMin
<1>3. \A d \in Wrong : ~(d < e)
  BY <1>1, <1>2 DEF OpToRel
<1>4. /\ e \in Events /\ Chain[e].kind = "swap" /\ ~Scrambled(e) /\ ~Reverted(e)
      /\ SupplyFrom(a, e) /\ Chain[e].lp # Chain[a].lp
  BY <1>2 DEF Orderly
<1> HIDE DEF Wrong
<1> DEFINE D == {d \in Events : d < e /\ InEffect(d, e)}
<1>5. D \in SUBSET Events /\ D # {}
  <2>1. PICK c \in Events : c < e /\ Chain[c].ok /\ Chain[c].pool = Chain[e].pool
    BY <1>4, CreatedBefore
  <2>2. c \in D
    BY <2>1 DEF InEffect
  <2> QED BY <2>2
<1>6. PICK d \in D : \A f \in D \ {d} : Precedes(f, d)
  <2> HIDE DEF D
  <2> QED BY <1>5, LatestLast
<1>7. /\ d \in Events /\ d < e /\ InEffect(d, e) /\ Chain[d].pool = Chain[e].pool
      /\ Chain[d].slot <= Chain[e].slot
  BY <1>4, <1>6, ChainAssumption DEF InEffect
<1>8. ASSUME NEW c \in Events, InEffect(c, e), d < c, c < e PROVE FALSE
  <2>1. c \in D /\ c # d
    BY <1>8, <1>7, EventType
  <2>2. Precedes(c, d)
    BY <2>1, <1>6
  <2>3. Precedes(d, c)
    BY <1>4, <1>7, <1>8, ChainOrder DEF InEffect
  <2> QED BY <2>2, <2>3, <1>7, PrecedesOrder
<1>9. Chain[e].lp = Chain[d].lp
  <2>1. \A c \in (d + 1)..(e - 1) : c \in Events /\ d < c /\ c < e
    <3>1. Len(Chain) \in Nat /\ d \in 1..Len(Chain) /\ e \in 1..Len(Chain)
      BY <1>4, <1>7, ChainShape, LenProperties DEF Events
    <3> QED BY <3>1 DEF Events
  <2>2. \A c \in (d + 1)..(e - 1) : ~InEffect(c, e)
    BY <2>1, <1>8
  <2> QED BY <2>2, <1>4, <1>7, ChainAssumption
<1>10. a \in Nat /\ d \in Nat /\ e \in Nat /\ Chain[a].slot \in Nat /\ Chain[e].slot \in Nat
       /\ Chain[d].slot \in Nat
  BY <1>4, <1>7, EventType
<1>11. Precedes(d, e)
  BY <1>4, <1>7, ChainOrder
<1>12. /\ CarriesLp(a) /\ Chain[a].pool = Chain[e].pool /\ Precedes(a, e)
       /\ Chain[a].slot <= Chain[e].slot
  BY <1>4, PrecedesOrder DEF SupplyFrom
(* What changed the supply after d has failed, or has not happened. *)
<1>13. ~(d < a)
  <2> SUFFICES ASSUME d < a PROVE FALSE
    OBVIOUS
  <2>1. a < e
    <3>1. a # e
      BY <1>12, PrecedesOrder
    <3>2. ~(e < a)
      <4> SUFFICES ASSUME e < a PROVE FALSE
        OBVIOUS
      <4>1. Chain[e].slot <= Chain[e].slot
        BY <1>10
      <4>2. Precedes(e, a)
        BY <4>1, <1>4, <1>12, ChainOrder
      <4> QED BY <4>2, <1>4, <1>12, PrecedesOrder
    <3> QED BY <3>1, <3>2, <1>10
  <2>2. ~InEffect(a, e)
    BY <2>1, <1>8
  <2>3. ~Chain[a].ok
    BY <2>2, <1>12 DEF InEffect
  <2> QED BY <2>3, <1>4, <1>12 DEF Reverted, Told
<1>14. CASE CarriesLp(d)
  <2>1. d = a \/ Precedes(d, a)
    BY <1>4, <1>7, <1>11, <1>14 DEF SupplyFrom
  <2>2. d = a
    <3> SUFFICES ASSUME d # a, Precedes(d, a) PROVE FALSE
      BY <2>1
    <3>1. a < d
      BY <1>10, <1>13
    <3>2. Precedes(a, d)
      BY <3>1, <1>4, <1>7, <1>12, ChainOrder
    <3> QED BY <3>2, <1>7, PrecedesOrder
  <2> QED BY <2>2, <1>4, <1>9
<1>15. CASE ~CarriesLp(d)
  <2>1. Chain[d].kind = "swap" /\ d # a
    BY <1>12, <1>15 DEF CarriesLp
  <2>2. a < d
    BY <2>1, <1>10, <1>13
  <2>3. Precedes(a, d)
    BY <2>2, <1>4, <1>7, <1>12, ChainOrder
  <2>4. SupplyFrom(a, d)
    BY <2>3, <1>4, <1>7, <1>11, <1>12, PrecedesTransitive DEF SupplyFrom
  <2>5. ~Scrambled(d)
    <3> SUFFICES ASSUME Scrambled(d) PROVE FALSE
      OBVIOUS
    <3>1. PICK x, y \in Events :
            /\ x < y /\ Chain[x].slot = Chain[y].slot /\ Chain[x].slot <= Chain[d].slot
            /\ Chain[x].pool = Chain[d].pool /\ Chain[y].pool = Chain[d].pool
            /\ Chain[y].sig < Chain[x].sig
      BY DEF Scrambled
    <3>2. Chain[x].slot <= Chain[e].slot
      BY <3>1, <1>7, <1>10, EventType
    <3> QED BY <3>1, <3>2, <1>4, <1>7 DEF Scrambled
  <2>6. ~Reverted(d)
    BY <1>4, <1>7, <1>11, PrecedesTransitive DEF Reverted, Told
  <2>7. d \in Wrong
    BY <2>1, <2>4, <2>5, <2>6, <1>4, <1>7, <1>9 DEF Wrong, Orderly
  <2> QED BY <2>7, <1>3, <1>7
<1> QED BY <1>14, <1>15

-----------------------------------------------------------------------------
(* The rows.                                                               *)
Excused(e) == MissedSince(e) \/ Rewound(e)
(* A swap that will need its supply filled in.                             *)
Pending(e) == Chain[e].kind = "swap" /\ e \notin DOMAIN reserves /\ ~Excused(e)

(* Nothing is stored ahead of what is accounted for; the events of a pool  *)
(* in one block are stored together, numbered in their order.              *)
WholeBelow ==
  \A f \in DOMAIN reserves, e \in Events : Chain[e].slot <= Chain[f].slot => Accounted(e)
SlotWhole ==
  \A f \in DOMAIN reserves, g \in Events :
    Chain[g].slot = Chain[f].slot /\ Chain[g].pool = Chain[f].pool => g \in DOMAIN reserves
RowsInOrder ==
  /\ reserve_serial \in Nat
  /\ \A f \in DOMAIN reserves : reserves[f].reserve_id \in 1..reserve_serial
  /\ \A f, g \in DOMAIN reserves :
       Chain[g].slot = Chain[f].slot /\ Chain[g].pool = Chain[f].pool /\ Precedes(f, g)
         => reserves[f].reserve_id < reserves[g].reserve_id
CarriedRight ==
  \A f \in DOMAIN reserves : CarriesLp(f) => reserves[f].lp_supply = Chain[f].lp
SwapsAsTold ==
  \A f \in DOMAIN reserves, a \in Events :
    Chain[f].kind = "swap" /\ SupplyFrom(a, f) /\ ~Excused(f)
      => reserves[f].lp_supply = Chain[a].lp
RowsInv == WholeBelow /\ SlotWhole /\ RowsInOrder /\ CarriedRight /\ SwapsAsTold

(* Where the stream is. *)
StreamInv ==
  /\ \A f \in DOMAIN reserves : Chain[f].slot <= tip
  /\ ~running => rx = <<>> /\ ~connected
  /\ connected /\ resume = 0 => /\ \A f \in DOMAIN reserves : Chain[f].slot < next
                                /\ \A i \in DOMAIN rx : rx[i] < next
  /\ connected => next >= resume
  /\ fallbacks \subseteq Nat

(* What the writer holds, and will hold once it has taken the first n      *)
(* blocks of the channel: the supply of the pool as a left it.             *)
Holds(a) ==
  /\ Chain[a].pool \in DOMAIN pools /\ pools[Chain[a].pool] \in DOMAIN lp_supply_cache
  /\ lp_supply_cache[pools[Chain[a].pool]] = Chain[a].lp
Changes(slot, a) == \E b \in Batch(slot) : CarriesLp(b) /\ Chain[b].pool = Chain[a].pool
WillHold(a, n) ==
  \/ \E j \in 1..n : /\ rx[j] = Chain[a].slot
                     /\ \A k \in (j + 1)..n : ~Changes(rx[k], a)
  \/ (\A k \in 1..n : ~Changes(rx[k], a)) /\ Holds(a)

(* The stream will still deliver the swap; it has yet to deliver a.        *)
Coming(e) ==
  /\ connected => Chain[e].slot >= next
  /\ ~connected => Chain[e].slot >= resume
  /\ ~connected /\ resume = 0 => Chain[e].slot > tip
InChannel(e) == \E i \in DOMAIN rx : rx[i] = Chain[e].slot
NotYet(a) ==
  /\ connected => Chain[a].slot >= next
  /\ ~connected => Chain[a].slot >= resume
  /\ ~connected /\ resume = 0 => a \notin DOMAIN reserves /\ ~InChannel(a)

(* A swap whose supply was changed last in an earlier block.               *)
Waiting(a, e) == Pending(e) /\ SupplyFrom(a, e) /\ Chain[a].slot < Chain[e].slot
Queued ==
  \A e, a \in Events, i \in DOMAIN rx :
    /\ Waiting(a, e) /\ rx[i] = Chain[e].slot
    /\ \A k \in 1..(i - 1) : rx[k] # Chain[e].slot
    => WillHold(a, i - 1)
Awaited ==
  running => \A e, a \in Events :
    Waiting(a, e) /\ ~InChannel(e) /\ Coming(e) => NotYet(a) \/ WillHold(a, Len(rx))

SupplyInv == IInv /\ RowsInv /\ StreamInv /\ Queued /\ Awaited

(* What came before is of the pool and not of a later slot.                *)
LEMMA ToldBefore ==
  ASSUME NEW e \in Events
  PROVE  /\ \A a \in Told(e) : Chain[a].slot \in Nat /\ Chain[a].slot <= Chain[e].slot
         /\ \A a, x \in Events : SupplyFrom(a, e) /\ x \in Told(e) => Chain[x].slot <= Chain[a].slot
<1>1. \A a \in Told(e) : a \in Events /\ Precedes(a, e) /\ CarriesLp(a) /\ Chain[a].pool = Chain[e].pool
  BY DEF Told
<1>2. \A a \in Events, x \in Events : SupplyFrom(a, e) /\ x \in Told(e) => x = a \/ Precedes(x, a)
  BY <1>1 DEF SupplyFrom
<1>3. \A x \in Events : Chain[x].slot \in Nat /\ Chain[x].slot <= Chain[x].slot
  BY EventType
<1> QED BY <1>1, <1>2, <1>3, PrecedesOrder

(* A block of the pool that is missed when or after its supply was last    *)
(* told, or as it was created.                                             *)
LEMMA MissedExcuses ==
  ASSUME NEW e \in Events
  PROVE  /\ Chain[e].slot \in missed => MissedSince(e)
         /\ Chain[CreationOf(e)].slot \in missed => MissedSince(e)
         /\ \A a \in Events : SupplyFrom(a, e) /\ Chain[a].slot \in missed => MissedSince(e)
<1>1. /\ Chain[e].slot <= Chain[e].slot
      /\ \A a \in Told(e) : Chain[a].slot <= Chain[e].slot
  BY ToldBefore, EventType
<1>2. Chain[e].slot \in missed => MissedSince(e)
  BY <1>1 DEF MissedSince
<1>3. Chain[CreationOf(e)].slot \in missed => MissedSince(e)
  <2> DEFINE c == CreationOf(e)
  <2>1. c \in Events /\ Chain[c].pool = Chain[e].pool /\ Chain[c].slot <= Chain[e].slot
        /\ Chain[c].kind = "create"
    BY CreationFacts DEF Creations
  <2> HIDE DEF c
  <2>2. Chain[c].slot \in missed => MissedSince(e)
    BY <2>1 DEF MissedSince
  <2> QED BY <2>2 DEF c
<1>4. ASSUME NEW a \in Events, SupplyFrom(a, e), Chain[a].slot \in missed
      PROVE  MissedSince(e)
  <2>1. Chain[a].pool = Chain[e].pool /\ Chain[a].slot <= Chain[e].slot
    BY <1>4, PrecedesOrder DEF SupplyFrom
  <2>2. \A x \in Told(e) : Chain[x].slot <= Chain[a].slot
    BY <1>4, ToldBefore DEF Told
  <2> QED BY <2>1, <2>2, <1>4 DEF MissedSince
<1> QED BY <1>2, <1>3, <1>4

LEMMA AccountedMeans ==
  ASSUME NEW e \in Events, Accounted(e)
  PROVE  e \in DOMAIN reserves \/ MissedSince(e)
BY MissedExcuses DEF Accounted

(* What excuses a row goes on excusing it.                                 *)
LEMMA ExcusedStays ==
  ASSUME missed \subseteq missed', fallbacks \subseteq fallbacks'
  PROVE  \A e \in Events : Excused(e) => Excused(e)'
<1> SUFFICES ASSUME NEW e \in Events PROVE Excused(e) => Excused(e)'
  OBVIOUS
<1>1. MissedSince(e) => MissedSince(e)'
  BY DEF MissedSince, Told, Precedes, CarriesLp
<1>2. Rewound(e) => Rewound(e)'
  BY DEF Rewound, Told, Precedes, CarriesLp
<1> QED BY <1>1, <1>2 DEF Excused

LEMMA PendingWas ==
  ASSUME missed \subseteq missed', fallbacks \subseteq fallbacks',
         DOMAIN reserves \subseteq DOMAIN reserves'
  PROVE  \A e \in Events : /\ Pending(e)' => Pending(e)
                           /\ \A a \in Events : Waiting(a, e)' => Waiting(a, e)
<1>1. \A e \in Events : Pending(e)' => Pending(e)
  BY ExcusedStays DEF Pending
<1>2. \A a, e \in Events : SupplyFrom(a, e)' => SupplyFrom(a, e)
  BY DEF SupplyFrom, Precedes, CarriesLp
<1> QED BY <1>1, <1>2 DEF Waiting

LEMMA WaitingFacts ==
  ASSUME NEW e \in Events, NEW a \in Events, Waiting(a, e)
  PROVE  /\ Chain[a].pool = Chain[e].pool /\ CarriesLp(a) /\ Chain[a].slot < Chain[e].slot
         /\ ~Accounted(e)
         /\ Accounted(a) => a \in DOMAIN reserves
<1>1. /\ Chain[a].pool = Chain[e].pool /\ CarriesLp(a) /\ Chain[a].slot < Chain[e].slot
      /\ e \notin DOMAIN reserves /\ ~MissedSince(e) /\ SupplyFrom(a, e)
  BY DEF Waiting, SupplyFrom, Pending, Excused
<1>2. ~Accounted(e)
  BY <1>1, AccountedMeans
<1>3. CreationOf(a) = CreationOf(e)
  BY <1>1 DEF CreationOf
<1>4. Chain[a].slot \notin missed /\ Chain[CreationOf(a)].slot \notin missed
  BY <1>1, <1>3, MissedExcuses
<1> QED BY <1>1, <1>2, <1>4 DEF Accounted

(* Steps that leave the tables alone.                                      *)
LEMMA RowsSame ==
  ASSUME RowsInv, UNCHANGED tables, missed \subseteq missed', fallbacks \subseteq fallbacks',
         DOMAIN reserves \subseteq Events
  PROVE  RowsInv'
<1>1. reserves' = reserves /\ reserve_serial' = reserve_serial
  BY DEF tables
<1>2. WholeBelow'
  BY <1>1, AccountedStays DEF RowsInv, WholeBelow
<1>3. SlotWhole' /\ CarriedRight'
  BY <1>1 DEF RowsInv, SlotWhole, CarriedRight, CarriesLp
<1>4. RowsInOrder'
  BY <1>1 DEF RowsInv, RowsInOrder, Precedes
<1>5. SwapsAsTold'
  <2>1. \A a, f \in Events : SupplyFrom(a, f)' => SupplyFrom(a, f)
    BY DEF SupplyFrom, Precedes, CarriesLp
  <2> QED BY <2>1, <1>1, ExcusedStays DEF RowsInv, SwapsAsTold
<1> QED BY <1>2, <1>3, <1>4, <1>5 DEF RowsInv

LEMMA WillHoldSame ==
  ASSUME UNCHANGED <<rx, pools, lp_supply_cache>>, NEW a, NEW n, WillHold(a, n)
  PROVE  WillHold(a, n)'
BY DEF WillHold, Holds, Changes, Batch, CarriesLp

LEMMA QueuedSame ==
  ASSUME Queued, UNCHANGED <<rx, tables, lp_supply_cache>>,
         missed \subseteq missed', fallbacks \subseteq fallbacks'
  PROVE  Queued'
<1>1. pools' = pools /\ reserves' = reserves
  BY DEF tables
<1> SUFFICES ASSUME NEW e \in Events, NEW a \in Events, NEW i \in DOMAIN rx,
                    Waiting(a, e)', rx[i] = Chain[e].slot,
                    \A k \in 1..(i - 1) : rx[k] # Chain[e].slot
             PROVE  WillHold(a, i - 1)'
  BY DEF Queued
<1>2. Waiting(a, e)
  BY <1>1, PendingWas
<1>3. WillHold(a, i - 1)
  BY <1>2 DEF Queued
<1> QED BY <1>1, <1>3, WillHoldSame

-----------------------------------------------------------------------------
(* The steps of the chain, the process and the subscriber.                 *)
Rest == RowsInv /\ StreamInv /\ Queued /\ Awaited

LEMMA SupplyProduce ==
  ASSUME SupplyInv, Produce
  PROVE  Rest'
<1>1. /\ tip' = tip + 1
      /\ UNCHANGED <<store, running, lp_supply_cache, rx, connected, next, resume, missed, fallbacks>>
  BY DEF Produce, caches, stream
<1>2. /\ UNCHANGED tables /\ reserves' = reserves /\ pools' = pools
      /\ DOMAIN reserves \subseteq Events /\ tip \in Nat
  BY <1>1 DEF store, tables, SupplyInv, IInv, LiveInv, StoreInv, ChannelInv
<1>3. RowsInv' /\ Queued'
  BY <1>1, <1>2, RowsSame, QueuedSame DEF SupplyInv
<1>4. StreamInv'
  <2>1. \A f \in DOMAIN reserves : Chain[f].slot \in Nat /\ Chain[f].slot <= tip
    BY <1>2, EventType DEF SupplyInv, StreamInv
  <2> QED BY <2>1, <1>1, <1>2 DEF SupplyInv, StreamInv
<1>5. Awaited'
  <2> SUFFICES ASSUME running, NEW e \in Events, NEW a \in Events,
                      Waiting(a, e)', ~InChannel(e)', Coming(e)'
               PROVE  NotYet(a)' \/ WillHold(a, Len(rx))'
    BY <1>1 DEF Awaited
  <2>1. Waiting(a, e)
    BY <1>1, <1>2, PendingWas
  <2>2. ~InChannel(e)
    BY <1>1 DEF InChannel
  <2>3. Coming(e)
    BY <1>1, <1>2, EventType DEF Coming
  <2>4. NotYet(a) \/ WillHold(a, Len(rx))
    BY <2>1, <2>2, <2>3 DEF SupplyInv, Awaited
  <2>5. NotYet(a) => NotYet(a)'
    BY <1>1, <1>2 DEF NotYet, InChannel
  <2> QED BY <2>4, <2>5, <1>1, <1>2, WillHoldSame
<1> QED BY <1>3, <1>4, <1>5 DEF Rest

(* The stream gives its place up: what comes next is excused until an      *)
(* event sets the supply right.                                            *)
LEMMA SupplyFallBack ==
  ASSUME SupplyInv, FallBackToTip
  PROVE  Rest'
<1>1. /\ ~connected /\ resume' = 0 /\ fallbacks' = fallbacks \cup {tip + 1}
      /\ UNCHANGED <<store, tip, running, lp_supply_cache, rx, connected, next, missed>>
  BY DEF FallBackToTip, caches, stream
<1>2. /\ UNCHANGED tables /\ reserves' = reserves /\ pools' = pools
      /\ DOMAIN reserves \subseteq Events /\ tip \in Nat
  BY <1>1 DEF store, tables, SupplyInv, IInv, LiveInv, StoreInv, ChannelInv
<1>3. RowsInv' /\ Queued'
  BY <1>1, <1>2, RowsSame, QueuedSame DEF SupplyInv
<1>4. StreamInv'
  <2>1. fallbacks' \subseteq Nat
    BY <1>1, <1>2 DEF SupplyInv, StreamInv
  <2> QED BY <2>1, <1>1, <1>2 DEF SupplyInv, StreamInv
<1>5. Awaited'
  <2> SUFFICES ASSUME NEW e \in Events, NEW a \in Events, Waiting(a, e)', Coming(e)'
               PROVE  NotYet(a)'
    BY DEF Awaited
  <2>1. Chain[e].slot \in Nat /\ Chain[a].slot \in Nat /\ Chain[e].slot > tip
    BY <1>1, EventType DEF Coming
  <2>2. ~Rewound(e)'
    BY DEF Waiting, Pending, Excused
  <2>3. Waiting(a, e)
    BY <1>1, <1>2, PendingWas
  <2>4. Chain[a].slot > tip
    <3> SUFFICES ASSUME Chain[a].slot < tip + 1 PROVE Rewound(e)'
      BY <2>1, <2>2, <1>2
    <3>1. ASSUME NEW b \in Events, CarriesLp(b), Chain[b].pool = Chain[e].pool, Precedes(b, e)
          PROVE  Chain[b].slot < tip + 1
      <4>1. b = a \/ Precedes(b, a)
        BY <2>3, <3>1 DEF Waiting, SupplyFrom
      <4>2. Chain[b].slot \in Nat /\ Chain[b].slot <= Chain[a].slot
        BY <4>1, <2>1, PrecedesOrder, EventType
      <4> QED BY <4>2, <2>1, <1>2
    <3>2. tip + 1 \in fallbacks' /\ tip + 1 <= Chain[e].slot
      BY <1>1, <1>2, <2>1
    <3> QED BY <3>1, <3>2 DEF Rewound, Told, CarriesLp, Precedes
  <2>5. a \notin DOMAIN reserves
    BY <2>1, <2>4, <1>2 DEF SupplyInv, StreamInv
  <2>6. ~InChannel(a)
    <3>1. \A i \in DOMAIN rx : rx[i] <= tip /\ rx[i] \in Nat
      BY DEF SupplyInv, IInv, LiveInv, ChannelInv, ChannelBounded
    <3> QED BY <3>1, <2>1, <2>4, <1>2 DEF InChannel
  <2> QED BY <2>1, <2>5, <2>6, <1>1, <1>2 DEF NotYet, InChannel
<1> QED BY <1>3, <1>4, <1>5 DEF Rest

LEMMA SupplySubscribe ==
  ASSUME SupplyInv, subscribe_once
  PROVE  Rest'
<1>1. /\ running /\ ~connected /\ connected' = TRUE
      /\ UNCHANGED <<store, tip, running, lp_supply_cache, rx, resume, fallbacks>>
      /\ \/ resume > 0 /\ next' = resume /\ missed' = missed
         \/ resume = 0 /\ next' = tip + 1 /\ missed' = missed \cup Jumped
  BY DEF subscribe_once, caches
<1>2. /\ UNCHANGED tables /\ reserves' = reserves /\ pools' = pools
      /\ DOMAIN reserves \subseteq Events /\ tip \in Nat /\ resume \in Nat
  BY <1>1 DEF store, tables, SupplyInv, IInv, LiveInv, StoreInv, ChannelInv
<1>3. missed \subseteq missed' /\ fallbacks \subseteq fallbacks'
  BY <1>1
<1>4. RowsInv' /\ Queued'
  BY <1>1, <1>2, <1>3, RowsSame, QueuedSame DEF SupplyInv
<1>5. \A i \in DOMAIN rx : rx[i] <= tip /\ rx[i] \in Nat
  BY DEF SupplyInv, IInv, LiveInv, ChannelInv, ChannelBounded
<1>6. \A f \in DOMAIN reserves : Chain[f].slot \in Nat /\ Chain[f].slot <= tip
  BY <1>2, EventType DEF SupplyInv, StreamInv
<1>7. StreamInv'
  BY <1>1, <1>2, <1>5, <1>6 DEF SupplyInv, StreamInv
<1>8. Awaited'
  <2> SUFFICES ASSUME NEW e \in Events, NEW a \in Events,
                      Waiting(a, e)', ~InChannel(e)', Coming(e)'
               PROVE  NotYet(a)' \/ WillHold(a, Len(rx))'
    BY <1>1 DEF Awaited
  <2>1. Waiting(a, e)
    BY <1>2, <1>3, PendingWas
  <2>2. ~InChannel(e)
    BY <1>1 DEF InChannel
  <2>3. Chain[e].slot \in Nat /\ Chain[a].slot \in Nat \ {0} /\ Chain[e].slot >= next'
    BY <1>1, EventType DEF Coming
  <2>4. Coming(e)
    BY <1>1, <1>2, <2>3 DEF Coming
  <2>5. NotYet(a) \/ WillHold(a, Len(rx))
    BY <2>1, <2>2, <2>4, <1>1 DEF SupplyInv, Awaited
  <2>6. NotYet(a) => Chain[a].slot >= next'
    <3>1. CASE resume > 0 /\ next' = resume
      BY <3>1, <1>1 DEF NotYet
    <3>2. CASE resume = 0 /\ next' = tip + 1 /\ missed' = missed \cup Jumped
      <4> SUFFICES ASSUME NotYet(a), Chain[a].slot <= tip PROVE FALSE
        BY <3>2, <2>3, <1>2
      <4>1. a \notin DOMAIN reserves /\ ~InChannel(a)
        BY <3>2, <1>1 DEF NotYet
      <4>2. a \in Batch(Chain[a].slot)
        BY DEF Batch
      <4>3. Chain[a].slot \in Jumped
        BY <4>1, <4>2, <2>3 DEF Jumped, InChannel
      <4>4. Chain[a].slot \in missed'
        BY <4>3, <3>2
      <4>5. MissedSince(e)'
        <5>1. /\ Chain[a].pool = Chain[e].pool /\ Chain[a].slot <= Chain[e].slot
              /\ \A x \in Told(e) : Chain[x].slot <= Chain[a].slot
          BY <2>1, <2>3, ToldBefore DEF Waiting, SupplyFrom, Told
        <5> QED BY <4>4, <5>1 DEF MissedSince, Told, Precedes, CarriesLp
      <4> QED BY <4>5 DEF Waiting, Pending, Excused
    <3> QED BY <3>1, <3>2, <1>1
  <2>7. NotYet(a) => NotYet(a)'
    BY <2>6, <1>1 DEF NotYet
  <2> QED BY <2>5, <2>7, <1>1, <1>2, WillHoldSame
<1> QED BY <1>4, <1>7, <1>8 DEF Rest

LEMMA SupplyDisconnect ==
  ASSUME SupplyInv, Disconnect
  PROVE  Rest'
<1>1. /\ connected /\ connected' = FALSE
      /\ UNCHANGED <<store, tip, running, lp_supply_cache, rx, resume, missed, fallbacks>>
  BY DEF Disconnect, caches
<1>2. /\ UNCHANGED tables /\ reserves' = reserves /\ pools' = pools
      /\ DOMAIN reserves \subseteq Events /\ tip \in Nat /\ resume \in Nat /\ next \in Nat
  BY <1>1 DEF store, tables, SupplyInv, IInv, LiveInv, StoreInv, ChannelInv
<1>3. RowsInv' /\ Queued'
  BY <1>1, <1>2, RowsSame, QueuedSame DEF SupplyInv
<1>4. StreamInv'
  BY <1>1, <1>2 DEF SupplyInv, StreamInv
<1>5. Awaited'
  <2> SUFFICES ASSUME running, NEW e \in Events, NEW a \in Events,
                      Waiting(a, e)', ~InChannel(e)', Coming(e)'
               PROVE  NotYet(a)' \/ WillHold(a, Len(rx))'
    BY <1>1 DEF Awaited
  <2>1. Waiting(a, e)
    BY <1>1, <1>2, PendingWas
  <2>2. ~InChannel(e)
    BY <1>1 DEF InChannel
  <2>3. Chain[e].slot \in Nat /\ Chain[a].slot \in Nat
    BY EventType
  <2>4. Chain[e].slot >= next
    <3> SUFFICES ASSUME Chain[e].slot < next PROVE FALSE
      BY <2>3, <1>2
    <3>1. Accounted(e) \/ InChannel(e)
      BY <1>1 DEF SupplyInv, IInv, LiveInv, LossInv, InChannel
    <3> QED BY <3>1, <2>1, <2>2, WaitingFacts
  <2>5. Coming(e)
    BY <2>4, <1>1 DEF Coming
  <2>6. NotYet(a) \/ WillHold(a, Len(rx))
    BY <2>1, <2>2, <2>5 DEF SupplyInv, Awaited
  <2>7. ASSUME NotYet(a) PROVE NotYet(a)'
    <3>1. Chain[a].slot >= next /\ next >= resume
      BY <2>7, <1>1 DEF NotYet, SupplyInv, StreamInv
    <3>2. Chain[a].slot >= resume
      BY <3>1, <2>3, <1>2
    <3>3. ASSUME resume = 0 PROVE a \notin DOMAIN reserves /\ ~InChannel(a)
      <4>1. /\ \A f \in DOMAIN reserves : Chain[f].slot < next
            /\ \A i \in DOMAIN rx : rx[i] < next /\ rx[i] \in Nat
        BY <1>1, <3>3 DEF SupplyInv, StreamInv, IInv, LiveInv, ChannelInv
      <4> QED BY <4>1, <3>1, <2>3, <1>2 DEF InChannel
    <3> QED BY <3>2, <3>3, <1>1, <1>2 DEF NotYet, InChannel
  <2> QED BY <2>6, <2>7, <1>1, <1>2, WillHoldSame
<1> QED BY <1>3, <1>4, <1>5 DEF Rest

LEMMA SupplyCrash ==
  ASSUME SupplyInv, Crash
  PROVE  Rest'
<1>1. /\ running' = FALSE /\ connected' = FALSE /\ rx' = <<>>
      /\ UNCHANGED <<store, tip, missed, fallbacks>>
  BY DEF Crash
<1>2. /\ UNCHANGED tables /\ reserves' = reserves /\ DOMAIN reserves \subseteq Events
  BY <1>1 DEF store, tables, SupplyInv, IInv, LiveInv, StoreInv
<1>3. RowsInv'
  BY <1>1, <1>2, RowsSame DEF SupplyInv
<1>4. StreamInv' /\ Awaited'
  BY <1>1, <1>2 DEF SupplyInv, StreamInv, Awaited
<1>5. Queued'
  <2>1. DOMAIN rx' = {}
    BY <1>1
  <2> QED BY <2>1 DEF Queued
<1> QED BY <1>3, <1>4, <1>5 DEF Rest

LEMMA SupplyReceive ==
  ASSUME SupplyInv, receive_block
  PROVE  Rest'
<1>1. /\ connected /\ next <= tip
      /\ rx' = Append(rx, next) /\ next' = next + 1
      /\ UNCHANGED <<store, tip, running, lp_supply_cache, connected, resume, missed, fallbacks>>
  BY DEF receive_block, caches
<1>2. /\ UNCHANGED tables /\ reserves' = reserves /\ pools' = pools
      /\ DOMAIN reserves \subseteq Events /\ tip \in Nat /\ resume \in Nat /\ next \in Nat
      /\ rx \in Seq(Nat)
  BY <1>1 DEF store, tables, SupplyInv, IInv, LiveInv, StoreInv, ChannelInv
<1>3. /\ Len(rx) \in Nat /\ Len(rx') = Len(rx) + 1
      /\ DOMAIN rx = 1..Len(rx) /\ DOMAIN rx' = 1..(Len(rx) + 1)
      /\ \A i \in 1..Len(rx) : rx'[i] = rx[i] /\ rx[i] \in Nat
      /\ rx'[Len(rx) + 1] = next
  BY <1>1, <1>2
<1>4. RowsInv'
  BY <1>1, <1>2, RowsSame DEF SupplyInv
<1>5. StreamInv'
  <2>1. \A f \in DOMAIN reserves : Chain[f].slot \in Nat
    BY <1>2, EventType
  <2>2. resume = 0 => \A f \in DOMAIN reserves : Chain[f].slot < next'
    BY <2>1, <1>1, <1>2 DEF SupplyInv, StreamInv
  <2>3. resume = 0 => \A i \in DOMAIN rx' : rx'[i] < next'
    BY <1>1, <1>2, <1>3 DEF SupplyInv, StreamInv
  <2>4. next' >= resume
    BY <1>1, <1>2 DEF SupplyInv, StreamInv
  <2>5. running
    BY <1>1 DEF SupplyInv, StreamInv
  <2> QED BY <2>2, <2>3, <2>4, <2>5, <1>1, <1>2 DEF SupplyInv, StreamInv
(* What the blocks that were there make the writer hold stays the same. *)
<1>6. ASSUME NEW a, NEW n \in 0..Len(rx), WillHold(a, n)
      PROVE  WillHold(a, n)'
  <2>1. \A k \in 1..n : rx'[k] = rx[k]
    BY <1>3
  <2>2. \A k \in 1..n : Changes(rx[k], a)' <=> Changes(rx[k], a)
    BY <1>3 DEF Changes, Batch, CarriesLp
  <2>3. \A k \in 1..n : Changes(rx'[k], a) <=> Changes(rx[k], a)
    BY <2>1
  <2>4. Holds(a) => Holds(a)'
    BY <1>1, <1>2 DEF Holds
  <2> QED BY <2>1, <2>3, <2>4, <1>6 DEF WillHold, Changes, Batch, CarriesLp
<1>7. \A e \in Events : ~InChannel(e)' => ~InChannel(e) /\ Chain[e].slot # next
  BY <1>3 DEF InChannel
<1>8. Queued'
  <2> SUFFICES ASSUME NEW e \in Events, NEW a \in Events, NEW i \in DOMAIN rx',
                      Waiting(a, e)', rx'[i] = Chain[e].slot,
                      \A k \in 1..(i - 1) : rx'[k] # Chain[e].slot
               PROVE  WillHold(a, i - 1)'
    BY DEF Queued
  <2>1. Waiting(a, e)
    BY <1>1, <1>2, PendingWas
  <2>2. WillHold(a, i - 1)
    <3>1. CASE i \in 1..Len(rx)
      <4>1. rx[i] = Chain[e].slot /\ \A k \in 1..(i - 1) : rx[k] # Chain[e].slot
        BY <3>1, <1>3
      <4> QED BY <3>1, <4>1, <2>1, <1>3 DEF SupplyInv, Queued
    <3>2. CASE i = Len(rx) + 1
      <4>1. Chain[e].slot = next /\ i - 1 = Len(rx)
        BY <3>2, <1>3
      <4>2. ~InChannel(e)
        BY <3>2, <1>3 DEF InChannel
      <4>3. Coming(e)
        BY <4>1, <1>1, <1>2 DEF Coming
      <4>4. ~NotYet(a)
        BY <4>1, <2>1, <1>1, <1>2, WaitingFacts, EventType DEF NotYet
      <4>5. running
        BY <1>1 DEF SupplyInv, StreamInv
      <4>6. WillHold(a, Len(rx))
        BY <4>2, <4>3, <4>4, <4>5, <2>1 DEF SupplyInv, Awaited
      <4> QED BY <4>1, <4>6
    <3> QED BY <3>1, <3>2, <1>3
  <2>3. i - 1 \in 0..Len(rx)
    BY <1>3
  <2> QED BY <2>2, <2>3, <1>6
<1>9. Awaited'
  <2> SUFFICES ASSUME running, NEW e \in Events, NEW a \in Events,
                      Waiting(a, e)', ~InChannel(e)', Coming(e)'
               PROVE  NotYet(a)' \/ WillHold(a, Len(rx))'
    BY <1>1 DEF Awaited
  <2>1. Waiting(a, e)
    BY <1>1, <1>2, PendingWas
  <2>2. Chain[e].slot \in Nat /\ Chain[a].slot \in Nat /\ Chain[e].slot >= next + 1
    BY <1>1, EventType DEF Coming
  <2>3. Coming(e)
    BY <2>2, <1>1, <1>2 DEF Coming
  <2>4. NotYet(a) \/ WillHold(a, Len(rx))
    BY <2>1, <2>3, <1>7 DEF SupplyInv, Awaited
  <2>5. CASE Chain[a].slot > next
    BY <2>2, <2>5, <1>1, <1>2 DEF NotYet
  <2>6. CASE Chain[a].slot = next
    <3>1. /\ Len(rx) + 1 \in 1..(Len(rx) + 1) /\ rx'[Len(rx) + 1] = Chain[a].slot
          /\ \A k \in (Len(rx) + 1 + 1)..(Len(rx) + 1) : FALSE
      BY <2>6, <1>3
    <3>2. \E j \in 1..Len(rx') : rx'[j] = Chain[a].slot
                                   /\ \A k \in (j + 1)..Len(rx') : ~Changes(rx'[k], a)
      BY <3>1, <1>3
    <3> QED BY <3>2 DEF WillHold, Changes, Batch, CarriesLp
  <2>7. CASE Chain[a].slot < next
    <3>1. WillHold(a, Len(rx))
      BY <2>2, <2>4, <2>7, <1>1, <1>2 DEF NotYet
    <3>3. ~Changes(next, a)
      <4> SUFFICES ASSUME NEW b \in Events, Chain[b].slot = next, CarriesLp(b),
                          Chain[b].pool = Chain[a].pool
                   PROVE  FALSE
        BY DEF Changes, Batch
      <4>1. Precedes(b, e) /\ Chain[b].pool = Chain[e].pool
        BY <2>1, <2>2, <1>2, WaitingFacts DEF Precedes
      <4>2. b = a \/ Precedes(b, a)
        BY <4>1, <2>1 DEF Waiting, SupplyFrom
      <4>3. Chain[b].slot <= Chain[a].slot
        BY <4>2, <2>2, PrecedesOrder
      <4> QED BY <4>3, <2>2, <2>7, <1>2
    <3>4. \A k \in 1..(Len(rx) + 1) : \/ k \in 1..Len(rx) /\ rx'[k] = rx[k]
                                      \/ k = Len(rx) + 1 /\ rx'[k] = next
      BY <1>3
    <3>5. CASE \E j \in 1..Len(rx) : /\ rx[j] = Chain[a].slot
                                     /\ \A k \in (j + 1)..Len(rx) : ~Changes(rx[k], a)
      <4>1. PICK j \in 1..Len(rx) : /\ rx[j] = Chain[a].slot
                                    /\ \A k \in (j + 1)..Len(rx) : ~Changes(rx[k], a)
        BY <3>5
      <4>2. \A k \in (j + 1)..(Len(rx) + 1) : ~Changes(rx'[k], a)
        BY <4>1, <3>3, <3>4, <1>3
      <4>3. j \in 1..Len(rx') /\ rx'[j] = Chain[a].slot
        BY <4>1, <1>3
      <4> QED BY <4>2, <4>3, <1>3 DEF WillHold, Changes, Batch, CarriesLp
    <3>6. CASE (\A k \in 1..Len(rx) : ~Changes(rx[k], a)) /\ Holds(a)
      <4>1. \A k \in 1..(Len(rx) + 1) : ~Changes(rx'[k], a)
        BY <3>6, <3>3, <3>4
      <4>2. Holds(a)'
        BY <3>6, <1>1, <1>2 DEF Holds
      <4> QED BY <4>1, <4>2, <1>3 DEF WillHold, Changes, Batch, CarriesLp
    <3> QED BY <3>1, <3>5, <3>6 DEF WillHold
  <2> QED BY <2>2, <2>5, <2>6, <2>7, <1>2
<1> QED BY <1>4, <1>5, <1>8, <1>9 DEF Rest

(* What the process loads for a pool is the supply of its newest row.      *)
RowsOf(p) == {e \in DOMAIN reserves : reserves[e].pool_id = pools[p]}

LEMMA LoadedSupply ==
  ASSUME StoreInv, RowsInOrder, NEW a \in DOMAIN reserves
  PROVE  LET p == Chain[a].pool
             f == Latest(RowsOf(p))
         IN /\ p \in DOMAIN pools /\ pools[p] \in DOMAIN load_lp_supply_cache
            /\ f \in DOMAIN reserves /\ Chain[f].pool = p
            /\ a = f \/ Precedes(a, f)
            /\ load_lp_supply_cache[pools[p]] = reserves[f].lp_supply
<1> DEFINE p == Chain[a].pool
           f == Latest(RowsOf(p))
           of(id) == {e \in DOMAIN reserves : reserves[e].pool_id = id}
           Newer(g, e) == \/ Chain[g].slot < Chain[e].slot
                          \/ /\ Chain[g].slot = Chain[e].slot
                             /\ reserves[g].reserve_id <= reserves[e].reserve_id
           newest(id) == CHOOSE e \in of(id) : \A g \in of(id) : Newer(g, e)
<1>1. p \in DOMAIN pools /\ reserves[a].pool_id = pools[p]
  BY DEF StoreInv, TablesAgree
<1>2. RowsOf(p) \in SUBSET Events /\ a \in RowsOf(p)
  BY <1>1 DEF RowsOf, StoreInv
<1>3. \A g \in RowsOf(p) : g \in DOMAIN reserves /\ Chain[g].pool = p /\ g \in Events
  BY <1>1 DEF RowsOf, StoreInv, TablesAgree, IdsDiffer
<1>4. f \in RowsOf(p) /\ \A g \in RowsOf(p) \ {f} : Precedes(g, f)
  BY <1>2, LatestLast
<1>5. of(pools[p]) = RowsOf(p)
  BY DEF RowsOf
<1> HIDE DEF p, f
<1>6. \A g \in DOMAIN reserves : reserves[g].reserve_id \in Nat
  BY DEF RowsInOrder
<1>7. \A g \in RowsOf(p) \ {f} : /\ Chain[g].slot <= Chain[f].slot
                                 /\ Chain[g].slot = Chain[f].slot
                                      => reserves[g].reserve_id < reserves[f].reserve_id
  BY <1>3, <1>4, PrecedesOrder DEF RowsInOrder
<1>8. \A g \in RowsOf(p) : Newer(g, f)
  <2> SUFFICES ASSUME NEW g \in RowsOf(p) PROVE Newer(g, f)
    OBVIOUS
  <2>1. Chain[g].slot \in Nat /\ Chain[f].slot \in Nat /\ reserves[f].reserve_id \in Nat
        /\ reserves[g].reserve_id \in Nat
    BY <1>3, <1>4, <1>6, EventType
  <2>2. CASE g = f
    BY <2>1, <2>2
  <2>3. CASE g # f
    BY <2>1, <2>3, <1>7
  <2> QED BY <2>2, <2>3
<1>9. ASSUME NEW e \in RowsOf(p), \A g \in RowsOf(p) : Newer(g, e)
      PROVE  e = f
  <2> SUFFICES ASSUME e # f PROVE FALSE
    OBVIOUS
  <2>1. Newer(f, e)
    BY <1>4, <1>9
  <2>2. /\ Chain[e].slot <= Chain[f].slot
        /\ Chain[e].slot = Chain[f].slot => reserves[e].reserve_id < reserves[f].reserve_id
    BY <1>7
  <2>3. Chain[e].slot \in Nat /\ Chain[f].slot \in Nat /\ reserves[f].reserve_id \in Nat
        /\ reserves[e].reserve_id \in Nat
    BY <1>3, <1>4, <1>6, EventType
  <2> QED BY <2>1, <2>2, <2>3
<1>10. newest(pools[p]) = f
  <2> HIDE DEF Newer
  <2> QED BY <1>4, <1>5, <1>8, <1>9
<1>11. load_lp_supply_cache
         = [id \in {reserves[e].pool_id : e \in DOMAIN reserves} |-> reserves[newest(id)].lp_supply]
  BY DEF load_lp_supply_cache
<1> HIDE DEF newest
<1>12. pools[p] \in {reserves[e].pool_id : e \in DOMAIN reserves}
  BY <1>1
<1>13. pools[p] \in DOMAIN load_lp_supply_cache
       /\ load_lp_supply_cache[pools[p]] = reserves[f].lp_supply
  BY <1>10, <1>11, <1>12
<1>14. a = f \/ Precedes(a, f)
  BY <1>2, <1>4
<1> QED BY <1>1, <1>3, <1>4, <1>13, <1>14 DEF p, f

(* If the last change of the supply is stored, a swap that is not stored   *)
(* finds it in the newest row of its pool.                                 *)
LEMMA NewestRowHasSupply ==
  ASSUME StoreInv, RowsInv, fallbacks \subseteq Nat,
         NEW e \in Events, NEW a \in Events, Waiting(a, e), a \in DOMAIN reserves
  PROVE  /\ Chain[a].pool \in DOMAIN pools /\ pools[Chain[a].pool] \in DOMAIN load_lp_supply_cache
         /\ load_lp_supply_cache[pools[Chain[a].pool]] = Chain[a].lp
<1> DEFINE p == Chain[a].pool
           f == Latest(RowsOf(p))
<1>1. /\ p \in DOMAIN pools /\ pools[p] \in DOMAIN load_lp_supply_cache
      /\ f \in DOMAIN reserves /\ Chain[f].pool = p
      /\ a = f \/ Precedes(a, f)
      /\ load_lp_supply_cache[pools[p]] = reserves[f].lp_supply
  BY LoadedSupply DEF RowsInv
<1>2. f \in Events
  BY <1>1 DEF StoreInv
<1> HIDE DEF f
<1>3. CarriesLp(a) => reserves[a].lp_supply = Chain[a].lp
  BY DEF RowsInv, CarriedRight
<1>4. CarriesLp(a) /\ p = Chain[e].pool
  BY DEF Waiting, SupplyFrom
<1>5. Chain[f].slot < Chain[e].slot
  <2> SUFFICES ASSUME Chain[e].slot <= Chain[f].slot PROVE FALSE
    BY <1>2, EventType
  <2> QED BY <1>1, WaitingFacts DEF RowsInv, WholeBelow
<1>6. Precedes(f, e)
  BY <1>5 DEF Precedes
<1>7. CASE a = f
  BY <1>1, <1>3, <1>4, <1>7
<1>8. CASE a # f
  <2>1. Precedes(a, f)
    BY <1>1, <1>8
  <2>2. ~Precedes(f, a)
    BY <2>1, <1>2, PrecedesOrder
  <2>3. ~CarriesLp(f)
    BY <2>2, <1>1, <1>2, <1>4, <1>6, <1>8 DEF Waiting, SupplyFrom
  <2>4. SupplyFrom(a, f)
    BY <2>1, <1>1, <1>2, <1>4, <1>6, PrecedesTransitive DEF Waiting, SupplyFrom
  <2>5. ~Excused(e)
    BY DEF Waiting, Pending
  <2>6. \A x : x <= Chain[f].slot /\ x \in Nat => x <= Chain[e].slot
    BY <1>2, <1>5, EventType
  <2>7. \A b \in Told(e) : b \in Told(f)
    <3> SUFFICES ASSUME NEW b \in Told(e) PROVE Precedes(b, f)
      BY <1>1, <1>4 DEF Told
    <3>1. b \in Events /\ (b = a \/ Precedes(b, a))
      BY DEF Told, Waiting, SupplyFrom
    <3> QED BY <3>1, <2>1, <1>2, PrecedesTransitive
  <2>8. ~MissedSince(f)
    BY <2>5, <2>6, <2>7, <1>1, <1>4, EventType DEF Excused, MissedSince
  <2>9. ~Rewound(f)
    BY <2>5, <2>6, <2>7 DEF Excused, Rewound
  <2> QED BY <2>3, <2>4, <2>8, <2>9, <1>1 DEF RowsInv, SwapsAsTold, CarriesLp, Excused
<1> QED BY <1>7, <1>8

LEMMA SupplyRunLive ==
  ASSUME SupplyInv, run_live
  PROVE  Rest'
<1>1. /\ ~running /\ running'
      /\ resume' \in Nat /\ resume' <= checkpoint
      /\ lp_supply_cache' = load_lp_supply_cache
      /\ UNCHANGED <<store, tip, rx, connected, next, missed, fallbacks>>
  BY IndexerAssumption DEF run_live, stream, SupplyInv, IInv, LiveInv, ChannelInv
<1>2. /\ UNCHANGED tables /\ reserves' = reserves /\ pools' = pools
      /\ DOMAIN reserves \subseteq Events /\ checkpoint \in Nat
      /\ rx = <<>> /\ ~connected
  BY <1>1 DEF store, tables, SupplyInv, IInv, LiveInv, StoreInv, ChannelInv, StreamInv
<1>3. RowsInv'
  BY <1>1, <1>2, RowsSame DEF SupplyInv
<1>4. StreamInv'
  BY <1>1, <1>2 DEF SupplyInv, StreamInv
<1>5. DOMAIN rx = {} /\ Len(rx) = 0 /\ Len(rx') = 0
  BY <1>1, <1>2
<1>6. Queued'
  BY <1>1, <1>5 DEF Queued
<1>7. Awaited'
  <2> SUFFICES ASSUME NEW e \in Events, NEW a \in Events, Waiting(a, e)'
               PROVE  NotYet(a)' \/ WillHold(a, Len(rx))'
    BY DEF Awaited
  <2>1. Waiting(a, e)
    BY <1>1, <1>2, PendingWas
  <2>2. CASE a \in DOMAIN reserves
    <3>1. /\ Chain[a].pool \in DOMAIN pools
          /\ pools[Chain[a].pool] \in DOMAIN load_lp_supply_cache
          /\ load_lp_supply_cache[pools[Chain[a].pool]] = Chain[a].lp
      BY <2>1, <2>2, NewestRowHasSupply DEF SupplyInv, IInv, LiveInv, StreamInv
    <3>2. Holds(a)'
      BY <3>1, <1>1, <1>2 DEF Holds
    <3>3. \A k \in 1..Len(rx') : FALSE
      BY <1>5
    <3> QED BY <3>2, <3>3 DEF WillHold
  <2>3. CASE a \notin DOMAIN reserves
    <3>1. ~Accounted(a)
      BY <2>1, <2>3, WaitingFacts
    <3>2. Chain[a].slot > checkpoint
      BY <3>1, <1>2, EventType DEF SupplyInv, IInv, LiveInv, LossInv
    <3>3. Chain[a].slot >= resume'
      BY <3>2, <1>1, <1>2, EventType
    <3>4. ~InChannel(a)'
      BY <1>1, <1>5 DEF InChannel
    <3> QED BY <3>3, <3>4, <2>3, <1>1, <1>2 DEF NotYet
  <2> QED BY <2>2, <2>3
<1> QED BY <1>3, <1>4, <1>6, <1>7 DEF Rest

-----------------------------------------------------------------------------
(* The steps of the writer.                                                *)

(* A cached id is that of one pool only.                                   *)
LEMMA CachedIdsDiffer ==
  ASSUME LiveInv', CacheCurrent', NEW p \in DOMAIN pools', NEW q \in DOMAIN pool_cache',
         pool_cache'[q] = pools'[p]
  PROVE  q = p
<1>1. CASE q \in DOMAIN pools'
  BY <1>1 DEF CacheCurrent, LiveInv, StoreInv, IdsDiffer
<1>2. CASE q \notin DOMAIN pools'
  BY <1>2 DEF LiveInv, LiveCache, FreeId
<1> QED BY <1>1, <1>2

Carrying(known) == {e \in known : CarriesLp(e)}
CarryingOf(id, known, cache) == {e \in Carrying(known) : cache[Chain[e].pool] = id}

LEMMA SuppliesFacts ==
  ASSUME NEW known \in SUBSET Events, NEW cache, NEW lp_cache, NEW id
  PROVE  /\ \A e \in CarryingOf(id, known, cache) :
              /\ id \in DOMAIN CachedSupplies(known, cache, lp_cache)
              /\ CachedSupplies(known, cache, lp_cache)[id]
                   = Chain[Latest(CarryingOf(id, known, cache))].lp
         /\ CarryingOf(id, known, cache) = {} /\ id \in DOMAIN lp_cache =>
              /\ id \in DOMAIN CachedSupplies(known, cache, lp_cache)
              /\ CachedSupplies(known, cache, lp_cache)[id] = lp_cache[id]
<1> DEFINE ids == {cache[Chain[e].pool] : e \in Carrying(known)}
           mirrored == [i \in ids |-> Chain[Latest(CarryingOf(i, known, cache))].lp]
<1>1. CachedSupplies(known, cache, lp_cache) = Over(mirrored, lp_cache)
  BY DEF CachedSupplies, Carrying, CarryingOf
<1>2. id \in ids <=> CarryingOf(id, known, cache) # {}
  BY DEF CarryingOf
<1>3. DOMAIN mirrored = ids /\ \A i \in ids : mirrored[i] = Chain[Latest(CarryingOf(i, known, cache))].lp
  OBVIOUS
<1> HIDE DEF ids, mirrored
<1> QED BY <1>1, <1>2, <1>3 DEF Over

(* What the writer mirrors of a block: the last change of each pool in it, *)
(* and for pools that it does not change nothing.                          *)
LEMMA MirrorKeeps ==
  ASSUME LiveInv', CacheCurrent', NEW slot,
         NEW cache, pool_cache' = CachedPools(Batch(slot), cache),
         lp_supply_cache' = CachedSupplies(Known(Batch(slot), CachedPools(Batch(slot), cache)),
                                           CachedPools(Batch(slot), cache), lp_supply_cache),
         \A p \in DOMAIN pools : p \in DOMAIN pools' /\ pools'[p] = pools[p],
         NEW a \in Events, Holds(a), ~Changes(slot, a)
  PROVE  Holds(a)'
<1> DEFINE batch == Batch(slot)
           c == CachedPools(batch, cache)
           known == Known(batch, c)
           id == pools[Chain[a].pool]
<1>1. /\ Chain[a].pool \in DOMAIN pools' /\ pools'[Chain[a].pool] = id
      /\ id \in DOMAIN lp_supply_cache /\ lp_supply_cache[id] = Chain[a].lp
  BY DEF Holds
<1>2. known \in SUBSET Events /\ \A e \in known : e \in batch /\ Chain[e].pool \in DOMAIN c
  BY DEF Known, Batch
<1>3. \A q \in DOMAIN c : c[q] = id => q = Chain[a].pool
  <2> SUFFICES ASSUME NEW q \in DOMAIN c, c[q] = id PROVE q = Chain[a].pool
    OBVIOUS
  <2>1. q \in DOMAIN pool_cache' /\ pool_cache'[q] = pools'[Chain[a].pool]
    BY <1>1
  <2> HIDE DEF c
  <2> QED BY <2>1, <1>1, CachedIdsDiffer
<1> HIDE DEF c, known, id
<1>4. CarryingOf(id, known, c) = {}
  <2> SUFFICES ASSUME NEW e \in CarryingOf(id, known, c) PROVE FALSE
    OBVIOUS
  <2>1. e \in batch /\ CarriesLp(e) /\ Chain[e].pool = Chain[a].pool
    BY <1>2, <1>3 DEF CarryingOf, Carrying
  <2> QED BY <2>1 DEF Changes
<1>5. id \in DOMAIN lp_supply_cache' /\ lp_supply_cache'[id] = Chain[a].lp
  <2>1. lp_supply_cache' = CachedSupplies(known, c, lp_supply_cache)
    BY DEF known, c
  <2> QED BY <2>1, <1>1, <1>2, <1>4, SuppliesFacts
<1> QED BY <1>1, <1>5 DEF Holds

LEMMA MirrorSets ==
  ASSUME LiveInv', CacheCurrent', NEW slot,
         NEW cache, pool_cache' = CachedPools(Batch(slot), cache),
         lp_supply_cache' = CachedSupplies(Known(Batch(slot), CachedPools(Batch(slot), cache)),
                                           CachedPools(Batch(slot), cache), lp_supply_cache),
         NEW a \in Batch(slot), CarriesLp(a), Chain[a].pool \in DOMAIN pools',
         Chain[a].pool \in DOMAIN pool_cache',
         \A b \in Batch(slot) : CarriesLp(b) /\ Chain[b].pool = Chain[a].pool
                                  => b = a \/ Precedes(b, a)
  PROVE  Holds(a)'
<1> DEFINE batch == Batch(slot)
           c == CachedPools(batch, cache)
           known == Known(batch, c)
           id == pools'[Chain[a].pool]
<1>1. known \in SUBSET Events /\ \A e \in known : e \in batch /\ Chain[e].pool \in DOMAIN c
  BY DEF Known, Batch
<1>2. \A q \in DOMAIN c : c[q] = id => q = Chain[a].pool
  <2> SUFFICES ASSUME NEW q \in DOMAIN c, c[q] = id PROVE q = Chain[a].pool
    OBVIOUS
  <2>1. q \in DOMAIN pool_cache' /\ pool_cache'[q] = pools'[Chain[a].pool]
    OBVIOUS
  <2> HIDE DEF c
  <2> QED BY <2>1, CachedIdsDiffer
<1>3. c[Chain[a].pool] = id
  <2>1. pool_cache'[Chain[a].pool] = pools'[Chain[a].pool]
    BY DEF CacheCurrent
  <2> QED BY <2>1
<1>4. a \in known
  BY DEF Known
<1>5. a \in Events
  BY DEF Batch
<1> HIDE DEF c, known
<1> DEFINE of == CarryingOf(id, known, c)
<1>6. a \in of
  BY <1>3, <1>4 DEF CarryingOf, Carrying
<1>7. \A e \in of : e = a \/ Precedes(e, a)
  <2> SUFFICES ASSUME NEW e \in of PROVE e = a \/ Precedes(e, a)
    OBVIOUS
  <2>1. e \in batch /\ CarriesLp(e) /\ Chain[e].pool = Chain[a].pool
    BY <1>1, <1>2 DEF CarryingOf, Carrying
  <2> QED BY <2>1
<1>8. of \in SUBSET Events
  BY <1>1 DEF CarryingOf, Carrying
<1>9. Latest(of) = a
  <2> HIDE DEF of
  <2>1. Latest(of) \in of /\ \A f \in of \ {Latest(of)} : Precedes(f, Latest(of))
    BY <1>6, <1>8, LatestLast
  <2> QED BY <2>1, <1>5, <1>6, <1>7, <1>8, PrecedesOrder
<1>10. id \in DOMAIN lp_supply_cache' /\ lp_supply_cache'[id] = Chain[a].lp
  <2>1. lp_supply_cache' = CachedSupplies(known, c, lp_supply_cache)
    BY DEF known, c
  <2>2. /\ id \in DOMAIN CachedSupplies(known, c, lp_supply_cache)
        /\ CachedSupplies(known, c, lp_supply_cache)[id] = Chain[Latest(of)].lp
    BY <1>1, <1>6, SuppliesFacts
  <2> QED BY <2>1, <2>2, <1>9
<1> QED BY <1>10 DEF Holds

(* The block at the head leaves the channel.                               *)
LEMMA WillHoldShifts ==
  ASSUME rx \in Seq(Nat), rx # <<>>, rx' = Tail(rx), NEW a, NEW n \in 1..Len(rx),
         WillHold(a, n),
         rx[1] = Chain[a].slot => Holds(a)',
         Holds(a) /\ ~Changes(rx[1], a) => Holds(a)'
  PROVE  WillHold(a, n - 1)'
<1>1. /\ Len(rx) \in Nat \ {0} /\ DOMAIN rx = 1..Len(rx) /\ Len(rx') = Len(rx) - 1
      /\ \A i \in 1..(Len(rx) - 1) : rx'[i] = rx[i + 1]
  BY HeadTailProperties, LenProperties, EmptySeq
<1>2. \A k \in 1..(n - 1) : k + 1 \in 1..n /\ rx'[k] = rx[k + 1]
  BY <1>1
<1>3. ASSUME NEW slot
      PROVE  Changes(slot, a)' <=> Changes(slot, a)
  BY DEF Changes, Batch, CarriesLp
<1>4. CASE \E j \in 1..n : rx[j] = Chain[a].slot /\ \A k \in (j + 1)..n : ~Changes(rx[k], a)
  <2>1. PICK j \in 1..n : rx[j] = Chain[a].slot /\ \A k \in (j + 1)..n : ~Changes(rx[k], a)
    BY <1>4
  <2>2. CASE j = 1
    <3>1. \A k \in 1..(n - 1) : k + 1 \in (j + 1)..n
      BY <2>2
    <3>2. \A k \in 1..(n - 1) : ~Changes(rx'[k], a)
      BY <3>1, <2>1, <1>2
    <3>3. Holds(a)'
      BY <2>1, <2>2
    <3> QED BY <3>2, <3>3 DEF WillHold, Changes, Batch, CarriesLp
  <2>3. CASE j > 1
    <3>1. j - 1 \in 1..(n - 1) /\ (j - 1) + 1 = j
      BY <2>3
    <3>2. \A k \in j..(n - 1) : k + 1 \in (j + 1)..n /\ k \in 1..(n - 1)
      BY <2>3
    <3>3. rx'[j - 1] = Chain[a].slot
      BY <3>1, <2>1, <1>2
    <3>4. \A k \in ((j - 1) + 1)..(n - 1) : ~Changes(rx'[k], a)
      BY <3>1, <3>2, <2>1, <1>2
    <3> QED BY <3>1, <3>3, <3>4 DEF WillHold, Changes, Batch, CarriesLp
  <2> QED BY <2>2, <2>3
<1>5. CASE (\A k \in 1..n : ~Changes(rx[k], a)) /\ Holds(a)
  <2>1. 1 \in 1..n
    BY <1>1
  <2>2. Holds(a)'
    BY <2>1, <1>5
  <2>3. \A k \in 1..(n - 1) : ~Changes(rx'[k], a)
    BY <1>2, <1>5
  <2> QED BY <2>2, <2>3 DEF WillHold, Changes, Batch, CarriesLp
<1> QED BY <1>4, <1>5 DEF WillHold

LEMMA HeadTaken ==
  ASSUME SupplyInv, rx # <<>>, rx' = Tail(rx),
         UNCHANGED <<tip, running, connected, next, resume, fallbacks>>,
         missed \subseteq missed', DOMAIN reserves \subseteq DOMAIN reserves',
         DOMAIN reserves' \subseteq DOMAIN reserves \cup Batch(Head(rx)),
         \A e, a \in Events : Waiting(a, e)' =>
           /\ Chain[e].slot # Head(rx)
           /\ Head(rx) = Chain[a].slot => Holds(a)'
           /\ Holds(a) /\ ~Changes(Head(rx), a) => Holds(a)'
  PROVE  StreamInv' /\ Queued' /\ Awaited'
<1>1. rx \in Seq(Nat) /\ tip \in Nat /\ next \in Nat
  BY DEF SupplyInv, IInv, LiveInv, ChannelInv
<1>2. /\ Len(rx) \in Nat \ {0} /\ Head(rx) = rx[1]
      /\ Len(rx') = Len(rx) - 1 /\ DOMAIN rx = 1..Len(rx) /\ DOMAIN rx' = 1..(Len(rx) - 1)
      /\ \A i \in 1..(Len(rx) - 1) : rx'[i] = rx[i + 1] /\ i + 1 \in 1..Len(rx)
      /\ \A i \in 1..Len(rx) : rx[i] \in Nat
  BY <1>1, HeadTailProperties, LenProperties, ElementOfSeq, EmptySeq
<1>3. 1 \in DOMAIN rx /\ Head(rx) <= tip
  BY <1>2 DEF SupplyInv, IInv, LiveInv, ChannelInv, ChannelBounded
<1>4. StreamInv'
  <2>1. running
    BY DEF SupplyInv, StreamInv
  <2>2. \A f \in DOMAIN reserves' : f \in DOMAIN reserves \/ Chain[f].slot = rx[1]
    BY <1>2 DEF Batch
  <2>3. \A f \in DOMAIN reserves' : Chain[f].slot <= tip
    BY <2>2, <1>2, <1>3 DEF SupplyInv, StreamInv
  <2>4. connected /\ resume = 0 => \A f \in DOMAIN reserves' : Chain[f].slot < next
    BY <2>2, <1>2, <1>3 DEF SupplyInv, StreamInv
  <2>5. connected /\ resume = 0 => \A i \in DOMAIN rx' : rx'[i] < next
    BY <1>2 DEF SupplyInv, StreamInv
  <2> QED BY <2>1, <2>3, <2>4, <2>5 DEF SupplyInv, StreamInv
<1>5. \A e, a \in Events : Waiting(a, e)' => Waiting(a, e)
  BY PendingWas
<1>6. Queued'
  <2> SUFFICES ASSUME NEW e \in Events, NEW a \in Events, NEW i \in DOMAIN rx',
                      Waiting(a, e)', rx'[i] = Chain[e].slot,
                      \A k \in 1..(i - 1) : rx'[k] # Chain[e].slot
               PROVE  WillHold(a, i - 1)'
    BY DEF Queued
  <2>1. Waiting(a, e)
    BY <1>5
  <2>2. i + 1 \in DOMAIN rx /\ rx[i + 1] = Chain[e].slot /\ i \in 1..Len(rx) /\ (i + 1) - 1 = i
    BY <1>2
  <2>3. \A k \in 1..i : rx[k] # Chain[e].slot
    <3> SUFFICES ASSUME NEW k \in 1..i, rx[k] = Chain[e].slot PROVE FALSE
      OBVIOUS
    <3>1. k # 1
      BY <1>2
    <3>2. k - 1 \in 1..(i - 1) /\ k - 1 \in 1..(Len(rx) - 1) /\ (k - 1) + 1 = k
      BY <3>1, <1>2
    <3>3. rx'[k - 1] = rx[k]
      BY <3>2, <1>2
    <3> QED BY <3>2, <3>3
  <2>4. WillHold(a, i)
    <3>1. \A k \in 1..((i + 1) - 1) : rx[k] # Chain[e].slot
      BY <2>2, <2>3
    <3>2. WillHold(a, (i + 1) - 1)
      BY <3>1, <2>1, <2>2 DEF SupplyInv, Queued
    <3> QED BY <3>2, <2>2
  <2> QED BY <2>2, <2>4, <1>1, <1>2, WillHoldShifts
<1>7. Awaited'
  <2> SUFFICES ASSUME running, NEW e \in Events, NEW a \in Events,
                      Waiting(a, e)', ~InChannel(e)', Coming(e)'
               PROVE  NotYet(a)' \/ WillHold(a, Len(rx))'
    BY DEF Awaited
  <2>1. Waiting(a, e) /\ Coming(e)
    BY <1>5 DEF Coming
  <2>2. \A x \in Events : InChannel(x) => InChannel(x)' \/ Chain[x].slot = Head(rx)
    <3> SUFFICES ASSUME NEW x \in Events, NEW k \in DOMAIN rx, rx[k] = Chain[x].slot, k # 1
                 PROVE  InChannel(x)'
      BY <1>2 DEF InChannel
    <3>1. k - 1 \in DOMAIN rx' /\ (k - 1) + 1 = k
      BY <1>2
    <3>2. rx'[k - 1] = Chain[x].slot
      BY <3>1, <1>2
    <3> QED BY <3>1, <3>2 DEF InChannel
  <2>3. NotYet(a) \/ WillHold(a, Len(rx))
    BY <2>1, <2>2 DEF SupplyInv, Awaited
  <2>4. ASSUME NotYet(a) PROVE NotYet(a)'
    <3>1. \A x \in Events : InChannel(x)' => InChannel(x)
      BY <1>2 DEF InChannel
    <3>2. ~InChannel(a) => Chain[a].slot # Head(rx)
      BY <1>2, <1>3 DEF InChannel
    <3>3. a \in DOMAIN reserves' => a \in DOMAIN reserves \/ Chain[a].slot = Head(rx)
      BY DEF Batch
    <3>4. ~InChannel(a) /\ a \notin DOMAIN reserves => ~InChannel(a)' /\ a \notin DOMAIN reserves'
      BY <3>1, <3>2, <3>3
    <3> QED BY <2>4, <3>4 DEF NotYet
  <2>5. ASSUME WillHold(a, Len(rx)) PROVE WillHold(a, Len(rx))'
    <3>1. Len(rx) \in 1..Len(rx)
      BY <1>2
    <3>2. ASSUME NEW n \in 1..Len(rx), WillHold(a, n) PROVE WillHold(a, n - 1)'
      BY <3>2, <1>1, <1>2, WillHoldShifts
    <3>3. \A n \in 1..Len(rx) : WillHold(a, n) => WillHold(a, n - 1)'
      BY <3>2
    <3>4. \A n \in 1..Len(rx) : n = Len(rx) => n - 1 = Len(rx')
      BY <1>2
    <3> QED BY <2>5, <3>1, <3>3, <3>4, <1>2 DEF WillHold, Holds
  <2> QED BY <2>3, <2>4, <2>5
<1> QED BY <1>4, <1>6, <1>7

(* A block that fails is missed, and excuses what follows it in its pools; *)
(* of other pools the writer holds what it held.                           *)
LEMMA SupplyWriteFails ==
  ASSUME SupplyInv, NEW reached, WriteFails(reached), LiveInv', CacheCurrent'
  PROVE  Rest'
<1> DEFINE batch == Batch(Head(rx))
           c == CachedPools(batch, pool_cache)
<1>1. /\ rx # <<>> /\ rx' = Tail(rx) /\ missed' = missed \cup {Head(rx)}
      /\ UNCHANGED <<tables, tip, running, connected, next, resume, fallbacks>>
  BY DEF WriteFails, stream
<1>2. \/ lp_supply_cache' = lp_supply_cache
      \/ /\ pool_cache' = c
         /\ lp_supply_cache' = CachedSupplies(Known(batch, c), c, lp_supply_cache)
  BY DEF WriteFails, caches
<1>3. /\ reserves' = reserves /\ pools' = pools /\ DOMAIN reserves \subseteq Events
      /\ missed \subseteq missed' /\ fallbacks \subseteq fallbacks'
  BY <1>1 DEF tables, SupplyInv, IInv, LiveInv, StoreInv
<1>4. RowsInv'
  BY <1>1, <1>3, RowsSame DEF SupplyInv
<1>5. ASSUME NEW e \in Events, NEW a \in Events, Waiting(a, e)'
      PROVE  /\ Chain[e].slot # Head(rx)
             /\ Head(rx) = Chain[a].slot => Holds(a)'
             /\ Holds(a) /\ ~Changes(Head(rx), a) => Holds(a)'
  <2>1. ~MissedSince(e)' /\ Waiting(a, e)
    BY <1>1, <1>3, <1>5, PendingWas DEF Waiting, Pending, Excused
  <2>2. /\ Chain[a].pool = Chain[e].pool /\ Chain[a].slot <= Chain[e].slot
        /\ Chain[e].slot <= Chain[e].slot
        /\ \A x \in Told(e) : Chain[x].slot <= Chain[a].slot /\ Chain[x].slot <= Chain[e].slot
    BY <2>1, ToldBefore, EventType DEF Waiting, SupplyFrom, Told
  <2>3. Chain[e].slot # Head(rx) /\ Chain[a].slot # Head(rx)
    BY <2>1, <2>2, <1>1 DEF MissedSince, Told, Precedes, CarriesLp
  <2>4. ASSUME Holds(a), ~Changes(Head(rx), a) PROVE Holds(a)'
    <3>1. CASE lp_supply_cache' = lp_supply_cache
      BY <2>4, <3>1, <1>3 DEF Holds
    <3>2. CASE /\ pool_cache' = c
               /\ lp_supply_cache' = CachedSupplies(Known(batch, c), c, lp_supply_cache)
      BY <2>4, <3>2, <1>3, MirrorKeeps
    <3> QED BY <3>1, <3>2, <1>2
  <2> QED BY <2>3, <2>4
<1>6. StreamInv' /\ Queued' /\ Awaited'
  BY <1>1, <1>3, <1>5, HeadTaken
<1> QED BY <1>4, <1>6 DEF Rest

(* A swap that is stored without having been excused gets the supply that  *)
(* the last change of its pool told, in its own block or before it.        *)
LEMMA RowGetsSupply ==
  ASSUME SupplyInv, rx # <<>>,
         NEW c, LiveInv', CacheCurrent', pool_cache' = c,
         \A p \in DOMAIN pools : p \in DOMAIN pools' /\ pools'[p] = pools[p],
         NEW e \in Known(Batch(Head(rx)), c) \ DOMAIN reserves,
         Chain[e].kind = "swap", ~Excused(e), NEW a \in Events, SupplyFrom(a, e)
  PROVE  LpSupply(e, Known(Batch(Head(rx)), c), c, lp_supply_cache) = Chain[a].lp
<1> DEFINE known == Known(Batch(Head(rx)), c)
           earlier == {f \in known : /\ CarriesLp(f) /\ Chain[f].pool = Chain[e].pool
                                     /\ Precedes(f, e)}
<1>1. /\ e \in Events /\ Chain[e].slot = Head(rx) /\ Chain[e].pool \in DOMAIN c
      /\ \A f \in Events : f \in known <=> Chain[f].slot = Head(rx) /\ Chain[f].pool \in DOMAIN c
      /\ known \subseteq Events
  BY DEF Known, Batch
<1>2. LpSupply(e, known, c, lp_supply_cache)
        = IF earlier # {} THEN Chain[Latest(earlier)].lp
          ELSE IF c[Chain[e].pool] \in DOMAIN lp_supply_cache
          THEN lp_supply_cache[c[Chain[e].pool]] ELSE 0
  BY DEF LpSupply, CarriesLp
<1> HIDE DEF known
<1>3. Pending(e)
  BY DEF Pending
<1>6. /\ CarriesLp(a) /\ Chain[a].pool = Chain[e].pool /\ Precedes(a, e)
      /\ \A b \in Events : CarriesLp(b) /\ Chain[b].pool = Chain[e].pool /\ Precedes(b, e)
                             => b = a \/ Precedes(b, a)
      /\ Chain[a].slot \in Nat /\ Chain[e].slot \in Nat /\ Chain[a].slot <= Chain[e].slot
  BY <1>1, PrecedesOrder, EventType DEF SupplyFrom
<1>7. \A f \in earlier : f \in Events /\ Chain[f].slot = Head(rx) /\ (f = a \/ Precedes(f, a))
  BY <1>1, <1>6
<1>8. CASE Chain[a].slot = Chain[e].slot
  <2>1. a \in earlier /\ earlier \in SUBSET Events
    BY <1>1, <1>6, <1>8
  <2> HIDE DEF earlier
  <2>2. Latest(earlier) \in earlier /\ \A f \in earlier \ {Latest(earlier)} : Precedes(f, Latest(earlier))
    BY <2>1, LatestLast
  <2>3. Latest(earlier) = a
    BY <2>1, <2>2, <1>7, PrecedesOrder
  <2> QED BY <2>1, <2>3, <1>2 DEF known
<1>9. CASE Chain[a].slot < Chain[e].slot
  <2>1. earlier = {}
    <3> SUFFICES ASSUME NEW f \in earlier PROVE FALSE
      OBVIOUS
    <3>1. f \in Events /\ Chain[f].slot = Chain[e].slot /\ (f = a \/ Precedes(f, a))
      BY <1>1, <1>7
    <3>2. Chain[f].slot <= Chain[a].slot
      BY <3>1, <1>6, PrecedesOrder
    <3> QED BY <3>1, <3>2, <1>6, <1>9
  <2>2. /\ 1 \in DOMAIN rx /\ rx[1] = Chain[e].slot
    BY <1>1, HeadTailProperties, LenProperties, EmptySeq DEF SupplyInv, IInv, LiveInv, ChannelInv
  <2>3. Waiting(a, e) /\ \A k \in 1..(1 - 1) : rx[k] # Chain[e].slot
    BY <1>3, <1>9 DEF Waiting
  <2>4. WillHold(a, 1 - 1)
    BY <2>2, <2>3, <1>1 DEF SupplyInv, Queued
  <2>5. Holds(a)
    <3>1. \A j \in 1..(1 - 1) : FALSE
      OBVIOUS
    <3> QED BY <2>4, <3>1 DEF WillHold
  <2>6. c[Chain[e].pool] = pools[Chain[e].pool]
    <3>1. Chain[e].pool \in DOMAIN pools' /\ pools'[Chain[e].pool] = pools[Chain[e].pool]
      BY <2>5, <1>6 DEF Holds
    <3> QED BY <3>1, <1>1 DEF CacheCurrent
  <2> QED BY <2>1, <2>5, <2>6, <1>2, <1>6 DEF Holds, known
<1> QED BY <1>6, <1>8, <1>9 DEF known

LEMMA SupplyRunWriter ==
  ASSUME SupplyInv, NEW acknowledged, run_writer(acknowledged), LiveInv', CacheCurrent'
  PROVE  Rest'
<1> DEFINE batch == Batch(Head(rx))
           c == CachedPools(batch, pool_cache)
           known == Known(batch, c)
           rows == ReservesRows(known, c, lp_supply_cache)
<1>1. /\ rx # <<>> /\ rx' = Tail(rx)
      /\ ForeignKeysHold(batch, c) /\ InsertAll(batch, c, lp_supply_cache)
      /\ pool_cache' = c
      /\ lp_supply_cache' = CachedSupplies(known, c, lp_supply_cache)
      /\ UNCHANGED <<tip, running, connected, next, resume, missed, fallbacks>>
  BY DEF run_writer, write_block, stream
<1>2. batch \in SUBSET Events /\ SoundCache(pool_cache) /\ LiveInv /\ StoreInv
  BY DEF Batch, SupplyInv, IInv, LiveInv, LiveCache, SoundCache
<1>3. /\ pools' = Table(batch) /\ DOMAIN reserves' = DOMAIN reserves \cup known
  BY <1>1, <1>2, StoreInvKept
<1>4. /\ \A p \in DOMAIN pools : p \in DOMAIN pools' /\ pools'[p] = pools[p]
      /\ DOMAIN reserves \subseteq Events
  BY <1>2, <1>3, TableFacts DEF StoreInv
<1>5. /\ known \subseteq batch /\ known \in SUBSET Events
      /\ \A e \in batch : Chain[e].pool \in DOMAIN c => e \in known
      /\ \A e \in known : Chain[e].pool \in DOMAIN c
  BY <1>2 DEF Known
<1>6. \A e \in batch : e \in Events /\ Chain[e].slot = Head(rx)
  BY DEF Batch
<1>7. \A e \in Events : Accounted(e) => Accounted(e)'
  BY <1>1, <1>3, AccountedStays
<1>8. \A e \in batch : Accounted(e)'
  BY <1>1, <1>2, <1>3, BlockAccounted
<1>9. 1 \in DOMAIN rx /\ rx[1] = Head(rx) /\ Head(rx) \in Nat
  BY <1>1, HeadTailProperties, LenProperties, ElementOfSeq, EmptySeq
  DEF SupplyInv, IInv, LiveInv, ChannelInv
<1>10. \A e \in Events : Chain[e].slot <= Head(rx) => Accounted(e)'
  <2> SUFFICES ASSUME NEW e \in Events, Chain[e].slot <= Head(rx) PROVE Accounted(e)'
    OBVIOUS
  <2>1. CASE Chain[e].slot = Head(rx)
    BY <2>1, <1>8 DEF Batch
  <2>2. CASE Chain[e].slot < Head(rx)
    <3>1. Accounted(e) \/ \E j \in 1..(1 - 1) : rx[j] = Chain[e].slot
      BY <2>2, <1>2, <1>9 DEF LiveInv, LossInv
    <3> QED BY <3>1, <1>7
  <2> QED BY <2>1, <2>2, <1>9, EventType
<1>11. WholeBelow'
  <2> SUFFICES ASSUME NEW f \in DOMAIN reserves', NEW e \in Events, Chain[e].slot <= Chain[f].slot
               PROVE  Accounted(e)'
    BY DEF WholeBelow
  <2>1. CASE f \in DOMAIN reserves
    BY <2>1, <1>7 DEF SupplyInv, RowsInv, WholeBelow
  <2>2. CASE f \in known
    BY <2>2, <1>5, <1>6, <1>10
  <2> QED BY <2>1, <2>2, <1>3
<1>12. /\ reserves' = Over(reserves, rows) /\ DOMAIN rows = known
       /\ reserve_serial' = reserve_serial + Cardinality(known)
       /\ \A e \in known : /\ rows[e].lp_supply = LpSupply(e, known, c, lp_supply_cache)
                           /\ rows[e].reserve_id = reserve_serial + 1 + Rank(e, known)
  BY <1>1 DEF InsertAll, ReservesRows
<1>13. \A e \in known \ DOMAIN reserves, a \in Events :
         Chain[e].kind = "swap" /\ ~Excused(e) /\ SupplyFrom(a, e)
           => LpSupply(e, known, c, lp_supply_cache) = Chain[a].lp
  <2> SUFFICES ASSUME NEW e \in known \ DOMAIN reserves, Chain[e].kind = "swap", ~Excused(e),
                      NEW a \in Events, SupplyFrom(a, e)
               PROVE  LpSupply(e, known, c, lp_supply_cache) = Chain[a].lp
    OBVIOUS
  <2> HIDE DEF c
  <2> QED BY <1>1, <1>4, RowGetsSupply
<1>14. ASSUME NEW e \in Events, NEW a \in Events, Waiting(a, e)'
       PROVE  /\ Chain[e].slot # Head(rx)
              /\ Head(rx) = Chain[a].slot => Holds(a)'
              /\ Holds(a) /\ ~Changes(Head(rx), a) => Holds(a)'
  <2>1. Waiting(a, e) /\ e \notin DOMAIN reserves'
    BY <1>1, <1>3, <1>14, PendingWas DEF Waiting, Pending
  <2>2. /\ Chain[a].pool = Chain[e].pool /\ CarriesLp(a) /\ Chain[a].slot < Chain[e].slot
        /\ ~Accounted(e) /\ (Accounted(a) => a \in DOMAIN reserves)
    BY <2>1, WaitingFacts
  <2>3. \A x \in Events : Accounted(x)' => Accounted(x) \/ x \in DOMAIN reserves'
    BY <1>1 DEF Accounted
  <2>4. Chain[e].slot # Head(rx)
    BY <2>1, <2>2, <2>3, <1>8 DEF Batch
  <2>5. ASSUME Head(rx) = Chain[a].slot PROVE Holds(a)'
    <3>1. a \in batch
      BY <2>5 DEF Batch
    <3>2. a \in DOMAIN reserves'
      BY <3>1, <2>2, <2>3, <1>3, <1>8
    <3>3. Chain[a].pool \in DOMAIN pools'
      BY <3>2 DEF LiveInv, StoreInv, TablesAgree
    <3>4. Chain[a].pool \in DOMAIN pool_cache'
      BY <3>1, <3>3, <1>1, <1>3, CachedFacts
    <3>5. \A b \in batch : CarriesLp(b) /\ Chain[b].pool = Chain[a].pool => b = a \/ Precedes(b, a)
      <4> SUFFICES ASSUME NEW b \in batch, CarriesLp(b), Chain[b].pool = Chain[a].pool
                   PROVE  b = a \/ Precedes(b, a)
        OBVIOUS
      <4>1. b \in Events /\ Chain[b].slot = Chain[a].slot
        BY <2>5, <1>6
      <4>2. Precedes(b, e)
        BY <4>1, <2>2 DEF Precedes
      <4> QED BY <4>1, <4>2, <2>1, <2>2 DEF Waiting, SupplyFrom
    <3> QED BY <3>1, <3>3, <3>4, <3>5, <2>2, <1>1, MirrorSets
  <2>6. Holds(a) /\ ~Changes(Head(rx), a) => Holds(a)'
    BY <1>1, <1>4, MirrorKeeps
  <2> QED BY <2>4, <2>5, <2>6
<1>15. StreamInv' /\ Queued' /\ Awaited'
  BY <1>1, <1>3, <1>5, <1>14, HeadTaken
<1> HIDE DEF batch, c, known, rows
<1>16. /\ \A e \in DOMAIN reserves : e \in DOMAIN reserves' /\ reserves'[e] = reserves[e]
       /\ \A e \in known \ DOMAIN reserves : reserves'[e] = rows[e]
       /\ DOMAIN reserves' = DOMAIN reserves \cup known
  BY <1>12 DEF Over
<1>17. SlotWhole'
  <2> SUFFICES ASSUME NEW f \in DOMAIN reserves', NEW g \in Events,
                      Chain[g].slot = Chain[f].slot, Chain[g].pool = Chain[f].pool
               PROVE  g \in DOMAIN reserves'
    BY DEF SlotWhole
  <2>1. CASE f \in DOMAIN reserves
    BY <2>1, <1>16 DEF SupplyInv, RowsInv, SlotWhole
  <2>2. CASE f \in known
    <3>1. g \in batch
      BY <2>2, <1>5, <1>6 DEF batch, Batch
    <3> QED BY <2>2, <3>1, <1>5, <1>16
  <2> QED BY <2>1, <2>2, <1>16
<1>18. RowsInOrder'
  <2>1. /\ reserve_serial \in Nat
        /\ \A f \in DOMAIN reserves : reserves[f].reserve_id \in 1..reserve_serial
        /\ \A f, g \in DOMAIN reserves :
             Chain[g].slot = Chain[f].slot /\ Chain[g].pool = Chain[f].pool /\ Precedes(f, g)
               => reserves[f].reserve_id < reserves[g].reserve_id
    BY DEF SupplyInv, RowsInv, RowsInOrder
  <2>2. Cardinality(known) \in Nat
    BY <1>2, <1>5, EventsFinite, FS_Subset, FS_CardinalityType
  <2>3. /\ \A e \in known : Rank(e, known) \in Nat /\ Rank(e, known) < Cardinality(known)
        /\ \A e, f \in known : Precedes(e, f) => Rank(e, known) < Rank(f, known)
    BY <1>5, RankNumbers
  <2>4. reserve_serial' \in Nat /\ reserve_serial' >= reserve_serial
    BY <2>1, <2>2, <1>12
  <2>5. \A f \in known \ DOMAIN reserves :
          /\ reserves'[f].reserve_id = reserve_serial + 1 + Rank(f, known)
          /\ reserves'[f].reserve_id \in 1..reserve_serial'
    BY <2>1, <2>2, <2>3, <1>12, <1>16
  <2>6. \A f \in DOMAIN reserves : reserves'[f].reserve_id \in 1..reserve_serial'
    BY <2>1, <2>4, <1>16
  <2>7. ASSUME NEW f \in DOMAIN reserves', NEW g \in DOMAIN reserves',
               Chain[g].slot = Chain[f].slot, Chain[g].pool = Chain[f].pool, Precedes(f, g)
        PROVE  reserves'[f].reserve_id < reserves'[g].reserve_id
    <3>1. f \in DOMAIN reserves <=> g \in DOMAIN reserves
      BY <2>7, <1>4, <1>5, <1>16 DEF SupplyInv, RowsInv, SlotWhole
    <3>2. CASE f \in DOMAIN reserves /\ g \in DOMAIN reserves
      BY <2>1, <2>7, <3>2, <1>16
    <3>3. CASE f \in known \ DOMAIN reserves /\ g \in known \ DOMAIN reserves
      BY <2>1, <2>3, <2>5, <2>7, <3>3
    <3> QED BY <3>1, <3>2, <3>3, <1>16
  <2> QED BY <2>4, <2>5, <2>6, <2>7, <1>16 DEF RowsInOrder, Precedes
<1>19. CarriedRight'
  <2>1. \A e \in known : CarriesLp(e) => LpSupply(e, known, c, lp_supply_cache) = Chain[e].lp
    BY DEF LpSupply
  <2> QED BY <2>1, <1>12, <1>16 DEF SupplyInv, RowsInv, CarriedRight, CarriesLp
<1>20. SwapsAsTold'
  <2> SUFFICES ASSUME NEW e \in DOMAIN reserves', NEW a \in Events, Chain[e].kind = "swap",
                      SupplyFrom(a, e)', ~Excused(e)'
               PROVE  reserves'[e].lp_supply = Chain[a].lp
    BY DEF SwapsAsTold
  <2>1. ~Excused(e)
    BY <1>1, <1>4, <1>5, <1>16, ExcusedStays
  <2>2. SupplyFrom(a, e)
    BY DEF SupplyFrom, Precedes, CarriesLp
  <2>3. CASE e \in DOMAIN reserves
    BY <2>1, <2>2, <2>3, <1>16 DEF SupplyInv, RowsInv, SwapsAsTold
  <2>4. CASE e \in known \ DOMAIN reserves
    BY <2>1, <2>2, <2>4, <1>12, <1>13, <1>16
  <2> QED BY <2>3, <2>4, <1>16
<1> QED BY <1>11, <1>15, <1>17, <1>18, <1>19, <1>20 DEF Rest, RowsInv

-----------------------------------------------------------------------------
LEMMA InitSupply == Init => SupplyInv
<1> SUFFICES ASSUME Init PROVE SupplyInv
  OBVIOUS
<1>1. /\ reserves = Empty /\ DOMAIN Empty = {} /\ reserve_serial = 0 /\ fallbacks = {}
      /\ rx = <<>> /\ DOMAIN rx = {} /\ running = FALSE /\ connected = FALSE
      /\ pool_cache = Empty
  BY DEF Init, StoreInit, Empty
<1>2. IInv
  BY <1>1, InitLive DEF IInv, CacheCurrent
<1>3. RowsInv
  BY <1>1 DEF RowsInv, WholeBelow, SlotWhole, RowsInOrder, CarriedRight, SwapsAsTold
<1>4. StreamInv /\ Queued /\ Awaited
  BY <1>1 DEF StreamInv, Queued, Awaited
<1> QED BY <1>2, <1>3, <1>4 DEF SupplyInv

LEMMA NextKeepsSupply == SupplyInv /\ [Next]_vars => SupplyInv'
<1> SUFFICES ASSUME SupplyInv, [Next]_vars PROVE SupplyInv'
  OBVIOUS
<1>1. LiveInv' /\ CacheCurrent'
  BY NextKeeps, CacheCurrentKept DEF SupplyInv, IInv
<1>2. Rest'
  <2>1. CASE UNCHANGED vars
    <3>1. /\ UNCHANGED <<tables, tip, running, lp_supply_cache, rx, connected, next, resume,
                         missed, fallbacks>>
          /\ reserves' = reserves /\ pools' = pools
      BY <2>1 DEF vars, store, tables, caches, stream
    <3>2. RowsInv' /\ Queued'
      BY <3>1, RowsSame, QueuedSame DEF SupplyInv, IInv, LiveInv, StoreInv
    <3>3. StreamInv'
      BY <3>1 DEF SupplyInv, StreamInv
    <3>4. Awaited'
      <4> SUFFICES ASSUME running, NEW e \in Events, NEW a \in Events,
                          Waiting(a, e)', ~InChannel(e)', Coming(e)'
                   PROVE  NotYet(a)' \/ WillHold(a, Len(rx))'
        BY <3>1 DEF Awaited
      <4>1. Waiting(a, e) /\ ~InChannel(e) /\ Coming(e)
        BY <3>1, PendingWas DEF InChannel, Coming
      <4>2. NotYet(a) \/ WillHold(a, Len(rx))
        BY <4>1 DEF SupplyInv, Awaited
      <4>3. NotYet(a) => NotYet(a)'
        BY <3>1 DEF NotYet, InChannel
      <4> QED BY <4>2, <4>3, <3>1, WillHoldSame
    <3> QED BY <3>2, <3>3, <3>4 DEF Rest
  <2>2. CASE Produce
    BY <2>2, SupplyProduce
  <2>3. CASE run_live
    BY <2>3, SupplyRunLive
  <2>4. CASE FallBackToTip
    BY <2>4, SupplyFallBack
  <2>5. CASE subscribe_once
    BY <2>5, SupplySubscribe
  <2>6. CASE receive_block
    BY <2>6, SupplyReceive
  <2>7. CASE Disconnect
    BY <2>7, SupplyDisconnect
  <2>8. ASSUME NEW acknowledged \in BOOLEAN, run_writer(acknowledged) PROVE Rest'
    BY <2>8, <1>1, SupplyRunWriter
  <2>9. ASSUME NEW reached \in {"begin", "pools", "rows"}, WriteFails(reached) PROVE Rest'
    BY <2>9, <1>1, SupplyWriteFails
  <2>10. CASE Crash
    BY <2>10, SupplyCrash
  <2> QED BY <2>1, <2>2, <2>3, <2>4, <2>5, <2>6, <2>7, <2>8, <2>9, <2>10 DEF Next
<1> QED BY <1>1, <1>2 DEF SupplyInv, IInv, Rest

LEMMA SpecSupply == Spec => []SupplyInv
BY InitSupply, NextKeepsSupply, PTL DEF Spec

(* A stored swap has the supply that an event of its pool told last before *)
(* it, whatever has been cut, has crashed or was replayed in between and   *)
(* however wrong the rows before that event are, unless a block was missed *)
(* since then, or a replay given up.                                       *)
THEOREM SupplyStaysAsLastTold == Spec => []SupplyAsLastTold
<1>1. SupplyInv => SupplyAsLastTold
  <2> SUFFICES ASSUME SupplyInv, NEW e \in DOMAIN swaps, Told(e) # {},
                      ~MissedSince(e), ~Rewound(e)
               PROVE  reserves[e].lp_supply = Chain[Latest(Told(e))].lp
    BY DEF SupplyAsLastTold
  <2>1. e \in DOMAIN reserves /\ e \in Events /\ Chain[e].kind = "swap"
    BY DEF SupplyInv, IInv, LiveInv, StoreInv, TablesAgree
  <2>2. Told(e) \in SUBSET Events
    BY DEF Told
  <2>3. Latest(Told(e)) \in Told(e) /\ \A f \in Told(e) \ {Latest(Told(e))} : Precedes(f, Latest(Told(e)))
    BY <2>2, LatestLast
  <2>4. SupplyFrom(Latest(Told(e)), e) /\ Latest(Told(e)) \in Events
    BY <2>3 DEF Told, SupplyFrom
  <2> QED BY <2>1, <2>4 DEF SupplyInv, RowsInv, SwapsAsTold, Excused
<1> QED BY <1>1, SpecSupply, PTL

(* The LP supply of every stored row is the chain's, after any cuts,       *)
(* crashes, restarts and replays, but for rows of pools that missed an     *)
(* event, whose transactions were sorted out of order or had failed, or    *)
(* that come when a replay has been given up.                              *)
THEOREM SupplyStaysRight == Spec => []LpSupplyRight
<1>1. SupplyInv => LpSupplyRight
  <2> SUFFICES ASSUME SupplyInv, NEW e \in DOMAIN reserves,
                      ~MissedBefore(e), ~Scrambled(e), ~Reverted(e), ~Rewound(e)
               PROVE  reserves[e].lp_supply = Chain[e].lp
    BY DEF LpSupplyRight
  <2>1. e \in Events
    BY DEF SupplyInv, IInv, LiveInv, StoreInv
  <2>2. CASE CarriesLp(e)
    BY <2>2 DEF SupplyInv, RowsInv, CarriedRight
  <2>3. CASE ~CarriesLp(e)
    <3>1. Chain[e].kind = "swap" /\ Orderly(e)
      BY <2>3 DEF CarriesLp, Orderly
    <3>2. PICK a \in Events : SupplyFrom(a, e)
      BY <2>1, <3>1, SupplyFromExists DEF Orderly
    <3>3. ~Excused(e)
      BY DEF Excused, MissedSince, MissedBefore
    <3>4. reserves[e].lp_supply = Chain[a].lp
      BY <3>1, <3>2, <3>3 DEF SupplyInv, RowsInv, SwapsAsTold
    <3> QED BY <2>1, <3>1, <3>2, <3>4, SupplyAtSwap
  <2> QED BY <2>2, <2>3
<1> QED BY <1>1, SpecSupply, PTL
=============================================================================
