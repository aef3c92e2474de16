---------------------------- MODULE BackfillProofs ----------------------------
(***************************************************************************)
(* Theorems about the backfill beside the live indexer, for every chain,   *)
(* every history and every value of the constants.  The live indexer's     *)
(* invariant survives the second writer, but for CacheCurrent: the         *)
(* backfill may store a pool whose id the live writer has wrongly cached.  *)
(* The last part is about the supplies that the two writers give their     *)
(* rows.                                                                   *)
(***************************************************************************)
EXTENDS Backfill, IndexerProofs

(* Its pool cache agrees with the table: a failure ends the run.           *)
ItsCache == \A p \in DOMAIN its_pools : p \in DOMAIN pools /\ its_pools[p] = pools[p]

(* The last position of the page that a run is on.                         *)
PageEnd == IF before = 0 THEN newest ELSE before - 1
Seen(e) == e \in DOMAIN reserves \/ PositionOf(e) \in unread \/ e \in unknown

(* Behind the cursor everything is accounted for; on the page everything   *)
(* is still to fetch, decoded or unreadable.                               *)
WalkInv ==
  /\ newest \in Nat /\ before \in Nat /\ decoded \subseteq Events
  /\ before # 0 => \A e \in Events : PositionOf(e) \in before..newest => Seen(e)
  /\ phase = "fetching" =>
       /\ oldest \in Nat \ {0} /\ oldest <= PageEnd
       /\ \A e \in Events : PositionOf(e) \in oldest..PageEnd =>
            PositionOf(e) \in page \/ e \in decoded \/ PositionOf(e) \in unread
  /\ phase # "idle" => outcome = ""
  /\ outcome = "reached_start" => before \in {0, 1}

BInv == LiveInv /\ ItsCache /\ WalkInv

LEMMA PositionFacts ==
  ASSUME NEW e \in Events
  PROVE  PositionOf(e) \in Positions /\ Chain[e].sig = History[PositionOf(e)].sig
<1>1. PICK p \in Positions : History[p] = [slot |-> Chain[e].slot, sig |-> Chain[e].sig]
  BY BackfillAssumption
<1>2. History[p].sig = Chain[e].sig
  BY <1>1
<1> QED BY <1>2 DEF PositionOf

LEMMA YoungestType == Youngest \in Nat
<1>1. Len(History) \in Nat
  BY BackfillAssumption, LenProperties
<1>2. IsFiniteSet(Positions)
  BY <1>1, FS_Interval DEF Positions
<1> QED BY <1>2, FS_Subset, FS_CardinalityType DEF Youngest, Confirmed

(* The tables only grow, whatever the live indexer does.                   *)
LEMMA LiveOnlyAdds ==
  ASSUME LiveInv, [Next]_vars
  PROVE  /\ DOMAIN reserves \subseteq DOMAIN reserves'
         /\ \A p \in DOMAIN pools : p \in DOMAIN pools' /\ pools'[p] = pools[p]
<1>1. ASSUME NEW acknowledged, run_writer(acknowledged)
      PROVE  /\ DOMAIN reserves \subseteq DOMAIN reserves'
             /\ \A p \in DOMAIN pools : p \in DOMAIN pools' /\ pools'[p] = pools[p]
  <2> DEFINE batch == Batch(Head(rx))
             c == CachedPools(batch, pool_cache)
  <2>1. ForeignKeysHold(batch, c) /\ InsertAll(batch, c, lp_supply_cache)
    BY <1>1 DEF run_writer, write_block
  <2>2. batch \in SUBSET Events /\ SoundCache(pool_cache)
    BY DEF Batch, LiveInv, LiveCache, SoundCache
  <2>3. pools' = Table(batch) /\ DOMAIN reserves' = DOMAIN reserves \cup Known(batch, c)
    BY <2>1, <2>2, StoreInvKept DEF LiveInv
  <2> QED BY <2>3, TableFacts
<1>2. ASSUME NEW reached, WriteFails(reached)
      PROVE  UNCHANGED <<pools, reserves>>
  BY <1>2 DEF WriteFails, tables
<1>3. CASE Produce \/ run_live \/ FallBackToTip \/ subscribe_once \/ receive_block
           \/ Disconnect \/ Crash
  BY <1>3 DEF Produce, run_live, FallBackToTip, subscribe_once, receive_block, Disconnect,
              Crash, store, tables
<1>4. CASE UNCHANGED vars
  BY <1>4 DEF vars, store, tables
<1> QED BY <1>1, <1>2, <1>3, <1>4 DEF Next

LEMMA LiveStepKeeps ==
  ASSUME BInv, [Next]_vars, UNCHANGED backfill
  PROVE  BInv'
<1>1. LiveInv'
  BY NextKeeps DEF BInv
<1>2. /\ DOMAIN reserves \subseteq DOMAIN reserves'
      /\ \A p \in DOMAIN pools : p \in DOMAIN pools' /\ pools'[p] = pools[p]
  BY LiveOnlyAdds DEF BInv
<1>3. UNCHANGED <<phase, outcome, newest, before, page, oldest, decoded, its_pools,
                  unread, unknown>>
  BY DEF backfill, progress, its_caches, losses
<1>4. ItsCache'
  BY <1>2, <1>3 DEF BInv, ItsCache
<1>5. \A e \in Events : Seen(e) => Seen(e)'
  BY <1>2, <1>3 DEF Seen
<1>6. WalkInv'
  BY <1>3, <1>5 DEF BInv, WalkInv, PageEnd
<1> QED BY <1>1, <1>4, <1>6 DEF BInv

(* What the live indexer relies on when the backfill has added rows.       *)
LEMMA LiveInvBeside ==
  ASSUME LiveInv, UNCHANGED live, StoreInv', DOMAIN reserves \subseteq DOMAIN reserves',
         \A id : FreeId(id) => FreeId(id)',
         \A p \in DOMAIN pools : p \in DOMAIN pools' /\ pools'[p] = pools[p]
  PROVE  LiveInv'
<1>1. UNCHANGED <<tip, checkpoint, running, pool_cache, rx, connected, next, resume, missed>>
  BY DEF live, caches, stream
<1>2. LiveCache'
  BY <1>1 DEF LiveInv, LiveCache, RolledBack
<1>3. \A e \in Events : Accounted(e) => Accounted(e)'
  BY <1>1, AccountedStays
<1>4. ChannelInv'
  BY <1>1 DEF LiveInv, ChannelInv, ChannelBounded
<1>5. LossInv'
  BY <1>1, <1>3 DEF LiveInv, LossInv
<1> QED BY <1>2, <1>4, <1>5 DEF LiveInv

LEMMA LiveInvUndisturbed ==
  ASSUME LiveInv, UNCHANGED <<store, live>>
  PROVE  LiveInv'
<1>1. StoreInv' /\ \A id : FreeId(id) => FreeId(id)'
  BY StoreInvSame DEF LiveInv
<1>2. pools' = pools /\ reserves' = reserves
  BY DEF store, tables
<1> QED BY <1>1, <1>2, LiveInvBeside

LEMMA RunKeeps ==
  ASSUME BInv, run
  PROVE  BInv'
<1>1. LiveInv'
  BY LiveInvUndisturbed DEF BInv, run
<1>2. /\ phase' = "listing" /\ outcome' = "" /\ newest' = 0 /\ before' = 0
      /\ its_pools' = pools /\ pools' = pools /\ decoded' = decoded
  BY DEF run, load_pool_cache, store, tables
<1>3. ItsCache'
  BY <1>2 DEF ItsCache
<1>4. WalkInv'
  BY <1>2 DEF BInv, WalkInv
<1> QED BY <1>1, <1>3, <1>4 DEF BInv

LEMMA RpcCallAgainKeeps ==
  ASSUME BInv, rpc_call_again
  PROVE  BInv'
<1>1. LiveInv'
  BY LiveInvUndisturbed DEF BInv, rpc_call_again
<1>2. UNCHANGED <<pools, reserves, phase, outcome, newest, before, page, oldest, decoded,
                  its_pools, unread, unknown>>
  BY DEF rpc_call_again, store, tables, progress, its_caches, losses
<1> QED BY <1>1, <1>2 DEF BInv, ItsCache, WalkInv, PageEnd, Seen

(* A run that stops leaves nothing half done.                              *)
LEMMA StopKeeps ==
  ASSUME BInv, NEW how, Stop(how), LiveInv',
         newest' = newest, before' = before, losses' = losses, reserves' = reserves,
         how = "reached_start" => before \in {0, 1}
  PROVE  BInv'
<1>1. /\ phase' = "idle" /\ outcome' = how /\ decoded' = {} /\ its_pools' = Empty
      /\ unread' = unread /\ unknown' = unknown
  BY DEF Stop, losses
<1>2. ItsCache'
  BY <1>1 DEF ItsCache, Empty
<1>3. WalkInv'
  BY <1>1 DEF BInv, WalkInv, Seen
<1> QED BY <1>2, <1>3 DEF BInv

LEMMA GetSignaturesKeeps ==
  ASSUME BInv, get_signatures
  PROVE  BInv'
<1> DEFINE last == IF before = 0 THEN Youngest ELSE before - 1
           first == IF last > PAGE_LIMIT THEN last - PAGE_LIMIT + 1 ELSE 1
<1>1. LiveInv'
  BY LiveInvUndisturbed DEF BInv, get_signatures
<1>2. UNCHANGED <<pools, reserves, before, losses, unread, unknown>>
  BY DEF get_signatures, store, tables, losses
<1>3. last \in Nat /\ before \in Nat
  <2>1. before \in Nat
    BY DEF BInv, WalkInv
  <2> QED BY <2>1, YoungestType
<1>4. CASE last = 0
  <2>1. Stop("reached_start") /\ newest' = newest
    BY <1>4 DEF get_signatures
  <2>2. before \in {0, 1}
    BY <1>3, <1>4
  <2> QED BY <2>1, <2>2, <1>1, <1>2, StopKeeps
<1>5. CASE last # 0
  <2>1. /\ phase' = "fetching" /\ page' = first..last /\ oldest' = first
        /\ newest' = IF before = 0 THEN last ELSE newest
        /\ UNCHANGED <<outcome, decoded, its_pools>>
        /\ phase = "listing"
    BY <1>5 DEF get_signatures, its_caches
  <2>2. first \in Nat \ {0} /\ first <= last
    BY <1>3, <1>5, BackfillAssumption
  <2>3. PageEnd' = last /\ newest' \in Nat
    BY <2>1, <1>2, <1>3 DEF PageEnd, BInv, WalkInv
  <2>4. before # 0 => newest' = newest
    BY <2>1
  <2> HIDE DEF last, first
  <2>5. \A e \in Events : Seen(e) => Seen(e)'
    BY <1>2 DEF Seen
  <2>6. WalkInv'
    BY <2>1, <2>2, <2>3, <2>4, <2>5, <1>2 DEF BInv, WalkInv
  <2>7. ItsCache'
    BY <2>1, <1>2 DEF BInv, ItsCache
  <2> QED BY <2>6, <2>7, <1>1 DEF BInv
<1> QED BY <1>4, <1>5

LEMMA ListingFailsKeeps ==
  ASSUME BInv, ListingFails
  PROVE  BInv'
<1>1. LiveInv'
  BY LiveInvUndisturbed DEF BInv, ListingFails
<1>2. Stop("failed") /\ UNCHANGED <<newest, before, losses, reserves>>
  BY DEF ListingFails, store, tables
<1> QED BY <1>1, <1>2, StopKeeps

LEMMA DecodeTxKeeps ==
  ASSUME BInv, decode_tx
  PROVE  BInv'
<1> DEFINE p == oldest_of(page)
<1>1. LiveInv'
  BY LiveInvUndisturbed DEF BInv, decode_tx
<1>2. /\ UNCHANGED <<pools, reserves, phase, outcome, newest, before, oldest, its_pools, unknown>>
      /\ page' = page \ {p}
      /\ \/ decoded' = decoded \cup EventsOf(p) /\ unread' = unread
         \/ unread' = unread \cup {p} /\ decoded' = decoded
  BY DEF decode_tx, store, tables, its_caches
<1> HIDE DEF p
<1>3. \A e \in Events : PositionOf(e) = p => e \in EventsOf(p)
  BY PositionFacts DEF EventsOf
<1>4. decoded' \subseteq Events
  BY <1>2 DEF BInv, WalkInv, EventsOf
<1>5. \A e \in Events : Seen(e) => Seen(e)'
  BY <1>2 DEF Seen
<1>6. ASSUME NEW e \in Events,
             PositionOf(e) \in page \/ e \in decoded \/ PositionOf(e) \in unread
      PROVE  PositionOf(e) \in page' \/ e \in decoded' \/ PositionOf(e) \in unread'
  BY <1>2, <1>3, <1>6
<1>7. WalkInv'
  BY <1>2, <1>4, <1>5, <1>6 DEF BInv, WalkInv, PageEnd
<1>8. ItsCache'
  BY <1>2 DEF BInv, ItsCache
<1> QED BY <1>1, <1>7, <1>8 DEF BInv

LEMMA ApplyPageStores ==
  ASSUME BInv, apply_page
  PROVE  /\ StoreInv'
         /\ pools' = Table(decoded)
         /\ \A id : FreeId(id) => FreeId(id)'
         /\ DOMAIN reserves'
              = DOMAIN reserves \cup Known(decoded, CachedPools(decoded, its_pools))
<1>1. /\ ForeignKeysHold(decoded, CachedPools(decoded, its_pools))
      /\ InsertAll(decoded, CachedPools(decoded, its_pools), its_supplies)
  BY DEF apply_page
<1>2. SoundCache(its_pools)
  BY DEF BInv, ItsCache, SoundCache
<1>3. decoded \in SUBSET Events /\ StoreInv
  BY DEF BInv, WalkInv, LiveInv
<1> QED BY <1>1, <1>2, <1>3, StoreInvKept

LEMMA ApplyPageKeeps ==
  ASSUME BInv, apply_page
  PROVE  BInv'
<1> DEFINE c == CachedPools(decoded, its_pools)
           known == Known(decoded, c)
<1>1. /\ StoreInv' /\ pools' = Table(decoded)
      /\ \A id : FreeId(id) => FreeId(id)'
      /\ DOMAIN reserves' = DOMAIN reserves \cup known
  BY ApplyPageStores
<1>2. /\ \A p \in DOMAIN pools : p \in DOMAIN pools' /\ pools'[p] = pools[p]
      /\ DOMAIN InsertedPools(decoded) \subseteq DOMAIN pools'
  BY <1>1, TableFacts
<1>3. /\ UNCHANGED <<tip, checkpoint, running, caches, rx, stream, resume, missed, fallbacks>>
      /\ UNCHANGED <<newest, unread>>
      /\ phase = "fetching" /\ page = {}
      /\ before' = oldest
      /\ unknown' = unknown \cup {e \in decoded : Chain[e].pool \notin DOMAIN pools'}
      /\ published' = published
  BY DEF apply_page, Announced
<1>4. LiveInv'
  BY <1>1, <1>2, <1>3, LiveInvBeside DEF BInv, live
<1>5. \/ Stop("caught_up")
      \/ /\ phase' = "listing" /\ its_pools' = c /\ decoded' = {} /\ outcome' = outcome
  BY DEF apply_page
<1>6. ItsCache'
  <2>1. CASE Stop("caught_up")
    BY <2>1 DEF Stop, ItsCache, Empty
  <2>2. CASE its_pools' = c
    <3>1. \A p \in DOMAIN c : \/ p \in DOMAIN Table(decoded) /\ c[p] = Table(decoded)[p]
                              \/ p \in DOMAIN its_pools /\ c[p] = its_pools[p]
      BY CachedFacts
    <3> HIDE DEF c
    <3> QED BY <3>1, <2>2, <1>1, <1>2 DEF BInv, ItsCache
  <2> QED BY <2>1, <2>2, <1>5
<1>7. ASSUME NEW e \in decoded
      PROVE  Seen(e)'
  <2>1. Chain[e].pool \in DOMAIN Table(decoded) => Chain[e].pool \in DOMAIN c
    BY CachedFacts
  <2>2. CASE Chain[e].pool \in DOMAIN pools'
    BY <2>1, <2>2, <1>1 DEF Known, Seen
  <2>3. CASE Chain[e].pool \notin DOMAIN pools'
    BY <2>3, <1>3 DEF Seen
  <2> QED BY <2>2, <2>3
<1> HIDE DEF c, known
<1>8. \A e \in Events : Seen(e) => Seen(e)'
  BY <1>1, <1>3 DEF Seen
<1>9. ASSUME NEW e \in Events, PositionOf(e) \in oldest..newest
      PROVE  Seen(e)'
  <2>1. /\ oldest \in Nat /\ newest \in Nat /\ before \in Nat
        /\ \A f \in Events : PositionOf(f) \in oldest..PageEnd =>
             PositionOf(f) \in page \/ f \in decoded \/ PositionOf(f) \in unread
        /\ before # 0 => \A f \in Events : PositionOf(f) \in before..newest => Seen(f)
    BY <1>3 DEF BInv, WalkInv
  <2>2. CASE before # 0 /\ PositionOf(e) \in before..newest
    BY <2>1, <2>2, <1>8
  <2>3. CASE before = 0 \/ PositionOf(e) < before
    <3>1. PositionOf(e) \in oldest..PageEnd
      BY <2>1, <2>3, <1>9 DEF PageEnd
    <3>2. e \in decoded \/ PositionOf(e) \in unread
      BY <3>1, <2>1, <1>3
    <3>3. PositionOf(e) \in unread => Seen(e)'
      BY <1>3 DEF Seen
    <3> QED BY <3>2, <3>3, <1>7
  <2> QED BY <2>1, <2>2, <2>3, <1>9
<1>10. WalkInv'
  <2>1. decoded' = {} /\ phase' # "fetching" /\ (outcome' # "reached_start")
        /\ (phase' # "idle" => outcome' = "")
    BY <1>3, <1>5 DEF Stop, BInv, WalkInv
  <2>2. newest' \in Nat /\ before' \in Nat
    BY <1>3 DEF BInv, WalkInv
  <2> QED BY <2>1, <2>2, <1>3, <1>9 DEF WalkInv
<1> QED BY <1>4, <1>6, <1>10 DEF BInv

LEMMA PageFailsKeeps ==
  ASSUME BInv, PageFails
  PROVE  BInv'
<1>1. /\ UNCHANGED <<tables, live, newest, before, losses, reserves, pools>>
      /\ Stop("failed")
      /\ TakePoolIds(decoded) \/ pool_serial' = pool_serial
  BY DEF PageFails, tables
<1>2. StoreInv' /\ \A id : FreeId(id) => FreeId(id)'
  <2>1. CASE TakePoolIds(decoded)
    BY <2>1, <1>1, StoreInvNumbersTaken DEF BInv, LiveInv, WalkInv
  <2>2. CASE pool_serial' = pool_serial
    BY <2>2, <1>1, StoreInvSame DEF BInv, LiveInv, store
  <2> QED BY <2>1, <2>2, <1>1
<1>3. LiveInv'
  BY <1>1, <1>2, LiveInvBeside DEF BInv
<1> QED BY <1>1, <1>3, StopKeeps

LEMMA BackfillNextKeeps == BInv /\ [BackfillNext]_all => BInv'
<1> SUFFICES ASSUME BInv, [BackfillNext]_all PROVE BInv'
  OBVIOUS
<1>1. CASE Next /\ UNCHANGED backfill
  BY <1>1, LiveStepKeeps
<1>2. CASE UNCHANGED all
  BY <1>2, LiveStepKeeps DEF all
<1>3. CASE BackfillStep
  BY <1>3, RunKeeps, RpcCallAgainKeeps, GetSignaturesKeeps, ListingFailsKeeps,
     DecodeTxKeeps, ApplyPageKeeps, PageFailsKeeps DEF BackfillStep
<1> QED BY <1>1, <1>2, <1>3 DEF BackfillNext

LEMMA SpecBInv == BackfillSpec => []BInv
<1>1. BackfillInit => BInv
  <2> SUFFICES ASSUME BackfillInit PROVE BInv
    OBVIOUS
  <2>1. /\ Init /\ phase = "idle" /\ outcome = "" /\ newest = 0 /\ before = 0
        /\ decoded = {} /\ its_pools = Empty
    BY DEF BackfillInit
  <2>2. ItsCache
    BY <2>1 DEF ItsCache, Empty
  <2>3. WalkInv
    BY <2>1 DEF WalkInv
  <2> QED BY <2>1, <2>2, <2>3, InitLive DEF BInv
<1> QED BY <1>1, BackfillNextKeeps, PTL DEF BackfillSpec

(* A run winds down: each of its steps ends it, or goes on to a page that  *)
(* is older than the one it stored, or lists a page, or takes a            *)
(* transaction off the page, or uses up a retry of the call's budget.      *)
WindsDown ==
  \/ phase' = "idle"
  \/ phase = "fetching" /\ phase' = "listing" /\ 0 < before' /\ before' <= PageEnd
  \/ phase = "listing" /\ phase' = "fetching" /\ UNCHANGED before
  \/ UNCHANGED <<phase, before>> /\ page' \subseteq page /\ page' # page
  \/ /\ UNCHANGED <<phase, before, page>>
     /\ attempt < MAX_HTTP_ATTEMPTS /\ attempt' = attempt + 1

PageIsNat == page \subseteq Nat

LEMMA PageStaysNat ==
  ASSUME BInv, PageIsNat, [BackfillNext]_all
  PROVE  PageIsNat'
<1>1. CASE get_signatures
  <2> DEFINE last == IF before = 0 THEN Youngest ELSE before - 1
             first == IF last > PAGE_LIMIT THEN last - PAGE_LIMIT + 1 ELSE 1
  <2>1. page' \in {{}, first..last}
    BY <1>1 DEF get_signatures, Stop
  <2>2. last \in Int /\ before \in Nat /\ PAGE_LIMIT \in Nat
    <3>1. before \in Nat /\ PAGE_LIMIT \in Nat /\ Youngest \in Nat
      BY YoungestType, BackfillAssumption DEF BInv, WalkInv
    <3> QED BY <3>1
  <2> HIDE DEF last
  <2>3. first \in Nat
    BY <2>2
  <2> HIDE DEF first
  <2>4. first..last \subseteq Nat
    BY <2>2, <2>3
  <2> QED BY <2>1, <2>4 DEF PageIsNat
<1>2. CASE ListingFails \/ apply_page \/ PageFails
  BY <1>2 DEF PageIsNat, ListingFails, apply_page, PageFails, Stop
<1>3. CASE run \/ rpc_call_again \/ UNCHANGED backfill
  BY <1>3 DEF PageIsNat, run, rpc_call_again, backfill, progress
<1>4. CASE decode_tx
  BY <1>4 DEF PageIsNat, decode_tx
<1> QED BY <1>1, <1>2, <1>3, <1>4 DEF BackfillNext, BackfillStep, all

LEMMA OldestOnPage ==
  ASSUME NEW P \in SUBSET Nat, P # {}
  PROVE  oldest_of(P) \in P
<1>1. PICK p \in P : \A q \in P : <<q, p>> \notin OpToRel(<, Nat)
  BY NatLessThanWellFounded, WFMin
<1>2. ASSUME NEW q \in P PROVE p <= q
  <2>1. p \in Nat /\ q \in Nat /\ ~(q < p)
    BY <1>1 DEF OpToRel
  <2> QED BY <2>1
<1> QED BY <1>2 DEF oldest_of

(* The safety half of BackfillEnds: the position of the cursor, the phase, *)
(* the rest of the page and the retries left decrease lexicographically.   *)
THEOREM RunsWindDown ==
  BackfillSpec => [][BackfillStep /\ phase # "idle" => WindsDown]_all
<1>1. ASSUME BInv, PageIsNat, BackfillStep, phase # "idle"
      PROVE  WindsDown
  <2>1. CASE rpc_call_again
    BY <2>1 DEF rpc_call_again, progress, WindsDown
  <2>2. CASE get_signatures
    BY <2>2 DEF get_signatures, Stop, WindsDown
  <2>3. CASE ListingFails \/ PageFails
    BY <2>3 DEF ListingFails, PageFails, Stop, WindsDown
  <2>4. CASE decode_tx
    <3>1. page # {} /\ page' = page \ {oldest_of(page)} /\ UNCHANGED <<phase, before>>
      BY <2>4 DEF decode_tx
    <3>2. oldest_of(page) \in page
      BY <1>1, <3>1, OldestOnPage DEF PageIsNat
    <3> QED BY <3>1, <3>2 DEF WindsDown
  <2>5. CASE apply_page
    <3>1. /\ phase = "fetching" /\ before' = oldest
          /\ phase' = "idle" \/ phase' = "listing"
      BY <2>5 DEF apply_page, Stop
    <3>2. oldest \in Nat \ {0} /\ oldest <= PageEnd
      BY <1>1, <3>1 DEF BInv, WalkInv
    <3> QED BY <3>1, <3>2 DEF WindsDown
  <2>6. ~run
    BY <1>1 DEF run
  <2> QED BY <1>1, <2>1, <2>2, <2>3, <2>4, <2>5, <2>6 DEF BackfillStep
<1>2. BackfillInit => PageIsNat
  BY DEF BackfillInit, PageIsNat
<1>3. BInv /\ PageIsNat /\ [BackfillNext]_all => PageIsNat'
  BY PageStaysNat
<1>4. BInv /\ PageIsNat /\ [BackfillNext]_all
        => [BackfillStep /\ phase # "idle" => WindsDown]_all
  BY <1>1
<1> QED BY <1>2, <1>3, <1>4, SpecBInv, PTL DEF BackfillSpec

(* Of the pages walked through nothing is left out but what could not be   *)
(* fetched and what belonged to a pool that was not in the database, and   *)
(* "reached start" is said only at the start.                              *)
THEOREM PagesAreWalkedWhole == BackfillSpec => []LeavesOutOnlyTheUnknown
<1>1. BInv => LeavesOutOnlyTheUnknown
  BY DEF BInv, WalkInv, Seen, LeavesOutOnlyTheUnknown
<1> QED BY <1>1, SpecBInv, PTL

(* Pools that the backfill stores under its feet do not make the live      *)
(* writer's cached ids wrong; only its own rollbacks do.                   *)
THEOREM CacheSurvivesBackfill == BackfillSpec => []StaleOnlyAfterRollback
<1>1. BInv => StaleOnlyAfterRollback
  BY DEF BInv, LiveInv, LiveCache, RolledBack, StaleOnlyAfterRollback
<1> QED BY <1>1, SpecBInv, PTL

(* Two writers keep the tables in agreement, in whatever order they store  *)
(* the events, and the newest event is still the one that is read.         *)
THEOREM TablesAgreeBeside == BackfillSpec => [](TablesAgree /\ LatestIsNewest)
<1>1. BInv => TablesAgree /\ LatestIsNewest
  BY NewestIsRead DEF BInv, LiveInv, StoreInv
<1> QED BY <1>1, SpecBInv, PTL

(* The backfill costs the live indexer no event either.                    *)
THEOREM NothingElseIsLostBeside == BackfillSpec => []LostOnlyWhenMissed
<1>1. BInv => LostOnlyWhenMissed
  <2> SUFFICES ASSUME BInv PROVE LostOnlyWhenMissed
    OBVIOUS
  <2>1. ASSUME NEW e \in Events, ~(Chain[e].slot > checkpoint)
        PROVE  Accounted(e)
    <3>1. Chain[e].slot <= checkpoint
      BY <2>1, EventType DEF BInv, LiveInv, ChannelInv
    <3> QED BY <3>1 DEF BInv, LiveInv, LossInv
  <2> QED BY <2>1 DEF LostOnlyWhenMissed, Accounted, BInv, LiveInv, ChannelInv
<1> QED BY <1>1, SpecBInv, PTL

LEMMA BackfillStepPromise ==
  ASSUME BInv, BackfillStep
  PROVE  Store_!Next \/ UNCHANGED Promise
<1>1. CASE apply_page
  <2> DEFINE known == Known(decoded, CachedPools(decoded, its_pools))
  <2>1. StoreInv' /\ DOMAIN reserves' = DOMAIN reserves \cup known
    BY <1>1, ApplyPageStores
  <2>2. UNCHANGED published
    BY <1>1 DEF apply_page, Announced
  <2> HIDE DEF known
  <2> QED BY <2>1, <2>2, CommitsKeepThePromise
<1>2. CASE run \/ rpc_call_again \/ get_signatures \/ ListingFails \/ decode_tx \/ PageFails
  BY <1>2 DEF run, rpc_call_again, get_signatures, ListingFails, decode_tx, PageFails,
              live, store, tables, Promise
<1> QED BY <1>1, <1>2 DEF BackfillStep

(* Both writers together still implement EventStore: the backfill          *)
(* announces nothing, and what it stores is not announced again.           *)
THEOREM BackfillKeepsThePromise == BackfillSpec => KeepsThePromise
<1>1. BackfillInit => Store_!Init
  BY InitKeepsThePromise DEF BackfillInit
<1>2. BInv /\ [BackfillNext]_all => [Store_!Next]_Promise
  <2> SUFFICES ASSUME BInv, [BackfillNext]_all PROVE Store_!Next \/ UNCHANGED Promise
    OBVIOUS
  <2>1. CASE Next \/ UNCHANGED vars
    BY <2>1, NextKeepsThePromise DEF BInv
  <2>2. CASE BackfillStep
    BY <2>2, BackfillStepPromise
  <2> QED BY <2>1, <2>2 DEF BackfillNext, all
<1> QED BY <1>1, <1>2, SpecBInv, PTL
        DEF BackfillSpec, KeepsThePromise, Store_!Spec, Promise
-----------------------------------------------------------------------------
(* The supplies of the rows, with two writers.  Each keeps a cache by pool *)
(* id; an id is a pool's for good, or no pool will ever have it.           *)
SoundSupply(id, n) == FreeId(id) \/ \E p \in DOMAIN pools : pools[p] = id /\ n \in SuppliesOf(p)
SoundSupplies(lp_cache) == \A id \in DOMAIN lp_cache : SoundSupply(id, lp_cache[id])

(* Transactions are written whole.                                         *)
WholeTx(batch) == \A e \in batch, f \in Events : Chain[f].sig = Chain[e].sig => f \in batch

RowIds == /\ reserve_serial \in Nat
          /\ \A e \in DOMAIN reserves : reserves[e].reserve_id \in Nat

Supplies ==
  /\ SoundSupplies(lp_supply_cache) /\ SoundSupplies(its_supplies)
  /\ WholeTx(decoded) /\ RowIds /\ SuppliesOfThePool

(* What no step of either writer takes back.                               *)
Grows ==
  /\ DOMAIN reserves \subseteq DOMAIN reserves' /\ missed \subseteq missed'
  /\ \A p \in DOMAIN pools : p \in DOMAIN pools' /\ pools'[p] = pools[p]
  /\ \A id : FreeId(id) => FreeId(id)'

LEMMA SuppliesStay ==
  ASSUME Grows
  PROVE  /\ \A p, n : n \in SuppliesOf(p) => (n \in SuppliesOf(p)')
         /\ \A id, n : SoundSupply(id, n) => SoundSupply(id, n)'
<1>1. DOMAIN reserves \subseteq DOMAIN reserves' /\ missed \subseteq missed'
  BY DEF Grows
<1>2. \A p, n : n \in SuppliesOf(p) => (n \in SuppliesOf(p)')
  BY <1>1 DEF SuppliesOf
<1>3. ASSUME NEW id, NEW n, SoundSupply(id, n)
      PROVE  SoundSupply(id, n)'
  <2>1. CASE FreeId(id)
    BY <2>1 DEF Grows, SoundSupply
  <2>2. CASE \E p \in DOMAIN pools : pools[p] = id /\ n \in SuppliesOf(p)
    <3>1. PICK p \in DOMAIN pools : pools[p] = id /\ n \in SuppliesOf(p)
      BY <2>2
    <3>2. p \in DOMAIN pools' /\ pools'[p] = id /\ (n \in SuppliesOf(p)')
      BY <3>1, <1>2 DEF Grows
    <3> QED BY <3>2 DEF SoundSupply
  <2> QED BY <2>1, <2>2, <1>3 DEF SoundSupply
<1> QED BY <1>2, <1>3

LEMMA SuppliesKnown ==
  ASSUME NEW e \in Events, CarriesLp(e), e \in DOMAIN reserves \/ Chain[e].slot \in missed
  PROVE  Chain[e].lp \in SuppliesOf(Chain[e].pool)
BY DEF SuppliesOf

(* Loading the caches.  Of finitely many rows one is the newest.           *)
NewerRow(f, e) ==
  \/ Chain[f].slot < Chain[e].slot
  \/ /\ Chain[f].slot = Chain[e].slot
     /\ reserves[f].reserve_id <= reserves[e].reserve_id

RowsAbove(S, e) == {f \in S : ~NewerRow(f, e)}

LEMMA NewestRowExists ==
  ASSUME RowIds, NEW S \in SUBSET Events, S # {}, S \subseteq DOMAIN reserves
  PROVE  \E e \in S : \A f \in S : NewerRow(f, e)
<1> DEFINE Above(e) == RowsAbove(S, e)
           T == {Cardinality(Above(e)) : e \in S}
<1>1. \A e \in S : Chain[e].slot \in Nat /\ reserves[e].reserve_id \in Nat
  BY EventType DEF RowIds
<1>2. \A e \in S : Above(e) \subseteq S /\ IsFiniteSet(Above(e)) /\ Cardinality(Above(e)) \in Nat
  BY EventsFinite, FS_Subset, FS_CardinalityType DEF RowsAbove
<1>3. T \subseteq Nat /\ T # {}
  BY <1>2
<1>4. \E t \in T : \A s \in T : ~(<<s, t>> \in OpToRel(<, Nat))
  <2> HIDE DEF T
  <2> QED BY <1>3, NatLessThanWellFounded, WFMin
<1>5. PICK t \in T : \A s \in T : ~(<<s, t>> \in OpToRel(<, Nat))
  BY <1>4
<1>6. PICK e \in S : t = Cardinality(Above(e))
  BY <1>5
<1>7. \A f \in S : ~(Cardinality(Above(f)) < Cardinality(Above(e)))
  BY <1>3, <1>5, <1>6 DEF OpToRel
<1>8. ASSUME NEW g \in S, ~NewerRow(g, e)
      PROVE  FALSE
  <2>1. NewerRow(g, g)
    BY <1>1 DEF NewerRow
  <2>2. \A f \in S : ~NewerRow(f, g) => ~NewerRow(f, e)
    BY <1>1, <1>8 DEF NewerRow
  <2>3. Above(g) \in SUBSET Above(e) /\ g \in Above(e) /\ g \notin Above(g)
    BY <2>1, <2>2, <1>8 DEF RowsAbove
  <2> HIDE DEF Above
  <2>4. Cardinality(Above(g)) <= Cardinality(Above(e))
        /\ Cardinality(Above(g)) # Cardinality(Above(e))
    BY <2>3, <1>2, FS_Subset
  <2> QED BY <2>4, <1>2, <1>7
<1> QED BY <1>8

LEMMA LoadSound ==
  ASSUME StoreInv, RowIds, SuppliesOfThePool
  PROVE  SoundSupplies(load_lp_supply_cache)
<1> DEFINE of(id) == {e \in DOMAIN reserves : reserves[e].pool_id = id}
           top(id) == CHOOSE e \in of(id) : \A f \in of(id) : NewerRow(f, e)
           ids == {reserves[e].pool_id : e \in DOMAIN reserves}
<1>1. load_lp_supply_cache = [id \in ids |-> reserves[top(id)].lp_supply]
  BY DEF load_lp_supply_cache, NewerRow
<1>2. \A id \in ids : of(id) \in SUBSET Events /\ of(id) # {} /\ of(id) \subseteq DOMAIN reserves
  BY DEF StoreInv
<1>3. \A id \in ids : top(id) \in of(id)
  <2> SUFFICES ASSUME NEW id \in ids PROVE top(id) \in of(id)
    OBVIOUS
  <2> DEFINE S == of(id)
  <2>1. S \in SUBSET Events /\ S # {} /\ S \subseteq DOMAIN reserves
    BY <1>2
  <2> HIDE DEF S
  <2>2. \E e \in S : \A f \in S : NewerRow(f, e)
    BY <2>1, NewestRowExists
  <2> QED BY <2>2 DEF S
<1> HIDE DEF top
<1>4. DOMAIN load_lp_supply_cache = ids
      /\ \A id \in ids : load_lp_supply_cache[id] = reserves[top(id)].lp_supply
  BY <1>1
<1>5. ASSUME NEW id \in ids
      PROVE  SoundSupply(id, reserves[top(id)].lp_supply)
  <2>1. PICK e \in DOMAIN reserves : e = top(id) /\ reserves[e].pool_id = id
    BY <1>3, <1>5
  <2>2. Chain[e].pool \in DOMAIN pools /\ pools[Chain[e].pool] = id
    BY <2>1 DEF StoreInv, TablesAgree
  <2>3. reserves[e].lp_supply \in SuppliesOf(Chain[e].pool)
    BY DEF SuppliesOfThePool
  <2> QED BY <2>1, <2>2, <2>3 DEF SoundSupply
<1> HIDE DEF ids
<1> QED BY <1>4, <1>5 DEF SoundSupplies

(* Mirroring a batch whose changes of the supply are stored or missed.     *)
LEMMA MirrorSound ==
  ASSUME NEW known \in SUBSET Events, NEW c, NEW lp_cache,
         \A id \in DOMAIN lp_cache : SoundSupply(id, lp_cache[id])',
         SoundCache(c)', \A e \in known : Chain[e].pool \in DOMAIN c,
         \A e \in known : CarriesLp(e) => e \in DOMAIN reserves' \/ Chain[e].slot \in missed'
  PROVE  SoundSupplies(CachedSupplies(known, c, lp_cache))'
<1> DEFINE k == CachedSupplies(known, c, lp_cache)
           ids == {c[Chain[e].pool] : e \in Carrying(known)}
<1>1. DOMAIN k = ids \cup DOMAIN lp_cache
  BY DEF CachedSupplies, Over, Carrying
<1>2. ASSUME NEW id \in DOMAIN k
      PROVE  SoundSupply(id, k[id])'
  <2> DEFINE of == CarryingOf(id, known, c)
  <2>1. CASE of # {}
    <3>1. PICK e \in of : e = Latest(of)
      <4>1. of \in SUBSET Events
        BY DEF CarryingOf, Carrying
      <4> HIDE DEF of
      <4> QED BY <4>1, <2>1, LatestLast
    <3>2. k[id] = Chain[e].lp
      BY <3>1, SuppliesFacts
    <3>3. e \in known /\ CarriesLp(e) /\ c[Chain[e].pool] = id /\ Chain[e].pool \in DOMAIN c
      BY <3>1 DEF CarryingOf, Carrying
    <3>4. (Chain[e].lp \in SuppliesOf(Chain[e].pool))'
      BY <3>3 DEF SuppliesOf
    <3>5. SoundSupply(id, Chain[e].lp)'
      BY <3>3, <3>4 DEF SoundCache, SoundSupply
    <3> HIDE DEF k, of
    <3> QED BY <3>2, <3>5
  <2>2. CASE of = {}
    <3>1. id \notin ids
      BY <2>2 DEF CarryingOf
    <3>2. id \in DOMAIN lp_cache /\ k[id] = lp_cache[id]
      BY <3>1, <1>1, <2>2, SuppliesFacts
    <3> HIDE DEF k
    <3> QED BY <3>2
  <2> QED BY <2>1, <2>2
<1> HIDE DEF k
<1>3. SoundSupplies(k)'
  BY <1>2 DEF SoundSupplies
<1> QED BY <1>3 DEF k

-----------------------------------------------------------------------------
(* Within a transaction.  Its events stand together in the chain.          *)
LEMMA TxStandsTogether ==
  ASSUME NEW a \in Events, NEW b \in Events, NEW e \in Events, a < b, b < e,
         Chain[a].sig = Chain[e].sig
  PROVE  Chain[b].sig = Chain[e].sig
<1>1. PositionOf(a) <= PositionOf(b) /\ PositionOf(b) <= PositionOf(e)
  BY BackfillAssumption
<1>2. PositionOf(a) = PositionOf(e)
  BY DEF PositionOf
<1>3. PositionOf(a) \in Nat /\ PositionOf(b) \in Nat
  BY PositionFacts DEF Positions
<1>4. PositionOf(b) = PositionOf(e)
  BY <1>1, <1>2, <1>3
<1> QED BY <1>4, PositionFacts

(* Its swaps leave the supply where its last change before them had put    *)
(* it, whether it fails in the end or not.                                 *)
LastChangeWithin(a, e) ==
  /\ CarriesLp(a) /\ a < e /\ Chain[a].pool = Chain[e].pool /\ Chain[a].sig = Chain[e].sig
  /\ \A b \in Events : CarriesLp(b) /\ Chain[b].pool = Chain[e].pool => ~(a < b /\ b < e)

LEMMA SupplyWithin ==
  ASSUME NEW a \in Events
  PROVE  \A e \in Events : Chain[e].kind = "swap" /\ LastChangeWithin(a, e)
                             => Chain[e].lp = Chain[a].lp
<1> DEFINE Wrong == {e \in Events : /\ Chain[e].kind = "swap" /\ LastChangeWithin(a, e)
                                    /\ Chain[e].lp # Chain[a].lp}
<1> SUFFICES ASSUME Wrong # {} PROVE FALSE
  OBVIOUS
<1>1. Wrong \subseteq Nat
  BY EventType
<1>2. PICK e \in Wrong : \A d \in Wrong : ~(<<d, e>> \in OpToRel(<, Nat))
  <2> HIDE DEF Wrong
  <2> QED BY <1>1, NatLessThanWellFounded, WFMin
<1>3. \A d \in Wrong : ~(d < e)
  BY <1>1, <1>2 DEF OpToRel
<1>4. /\ e \in Events /\ Chain[e].kind = "swap" /\ LastChangeWithin(a, e)
      /\ Chain[e].lp # Chain[a].lp
  BY <1>2
<1> HIDE DEF Wrong
<1>5. /\ CarriesLp(a) /\ a < e /\ Chain[a].pool = Chain[e].pool /\ Chain[a].sig = Chain[e].sig
      /\ \A b \in Events : CarriesLp(b) /\ Chain[b].pool = Chain[e].pool => ~(a < b /\ b < e)
  BY <1>4 DEF LastChangeWithin
<1> DEFINE D == {d \in Events : /\ a <= d /\ d < e /\ Chain[d].pool = Chain[e].pool
                                /\ Chain[d].sig = Chain[e].sig}
<1>6. D \in SUBSET Events /\ a \in D
  BY <1>5, EventType
<1>7. PICK d \in D : \A f \in D \ {d} : Precedes(f, d)
  <2> HIDE DEF D
  <2> QED BY <1>6, LatestLast
<1>8. /\ d \in Events /\ a <= d /\ d < e
      /\ Chain[d].pool = Chain[e].pool /\ Chain[d].sig = Chain[e].sig
      /\ a \in Nat /\ d \in Nat /\ e \in Nat
  BY <1>4, <1>7, EventType
<1>9. ASSUME NEW b \in Events, d < b, b < e, InEffect(b, e)
      PROVE  FALSE
  <2>1. Chain[b].sig = Chain[e].sig /\ Chain[b].pool = Chain[e].pool
    BY <1>4, <1>8, <1>9, TxStandsTogether DEF InEffect
  <2>2. b \in Nat
    BY EventType
  <2>3. b \in D /\ b # d
    BY <2>1, <2>2, <1>8, <1>9
  <2>4. b < d
    BY <2>1, <2>3, <1>7, <1>8, PrecedesOrder
  <2> QED BY <2>2, <2>4, <1>8, <1>9
<1>10. Chain[e].lp = Chain[d].lp
  <2>1. \A c \in (d + 1)..(e - 1) : c \in Events /\ d < c /\ c < e
    <3>1. Len(Chain) \in Nat /\ d \in 1..Len(Chain) /\ e \in 1..Len(Chain)
      BY <1>4, <1>8, ChainShape, LenProperties DEF Events
    <3> QED BY <3>1 DEF Events
  <2>2. \A c \in (d + 1)..(e - 1) : ~InEffect(c, e)
    BY <2>1, <1>9
  <2>3. InEffect(d, e)
    BY <1>8 DEF InEffect
  <2> QED BY <2>2, <2>3, <1>4, <1>8, ChainAssumption
<1>11. CASE d = a
  BY <1>4, <1>10, <1>11
<1>12. CASE d # a
  <2>1. a < d
    BY <1>8, <1>12
  <2>2. Chain[d].kind = "swap"
    BY <2>1, <1>5, <1>8 DEF CarriesLp
  <2>3. \A b \in Events : b \in Nat
    BY EventType
  <2>4. LastChangeWithin(a, d)
    BY <2>1, <2>3, <1>5, <1>8 DEF LastChangeWithin
  <2>5. d \in Wrong
    BY <2>2, <2>4, <1>4, <1>8, <1>10 DEF Wrong
  <2> QED BY <2>5, <1>3, <1>8
<1> QED BY <1>11, <1>12

(* What a batch gives a swap whose transaction changed the supply before   *)
(* it: the last of the changes that come before it in the sort is the last *)
(* one of its transaction.                                                 *)
LEMMA WithinTheBatch ==
  ASSUME NEW batch \in SUBSET Events, WholeTx(batch), NEW c,
         NEW e \in Known(batch, c), Chain[e].kind = "swap", SuppliedWithin(e),
         NEW earlier, earlier = {f \in Known(batch, c) : /\ CarriesLp(f)
                                                      /\ Chain[f].pool = Chain[e].pool
                                                      /\ Precedes(f, e)}
  PROVE  earlier # {} /\ Chain[Latest(earlier)].lp = Chain[e].lp
<1>1. e \in Events /\ e \in batch /\ Chain[e].pool \in DOMAIN c /\ e \in Nat
  BY EventType DEF Known
<1>2. PICK f \in 1..(e - 1) : /\ CarriesLp(f) /\ Chain[f].pool = Chain[e].pool
                              /\ Chain[f].sig = Chain[e].sig
  BY DEF SuppliedWithin
<1>3. f \in Events /\ f < e
  <2>1. Len(Chain) \in Nat
    BY ChainShape, LenProperties
  <2> QED BY <2>1, <1>1 DEF Events
<1>4. \A g \in Events : Chain[g].sig = Chain[e].sig /\ Chain[g].pool = Chain[e].pool
                          => g \in Known(batch, c)
  BY <1>1 DEF WholeTx, Known
<1>5. \A g \in Events : Chain[g].sig = Chain[e].sig /\ g < e => Precedes(g, e)
  BY <1>1, ChainAssumption DEF Precedes
<1>6. f \in earlier /\ earlier \in SUBSET Events
  BY <1>2, <1>3, <1>4, <1>5 DEF Known
<1>7. PICK a \in earlier : a = Latest(earlier) /\ \A g \in earlier \ {a} : Precedes(g, a)
  BY <1>6, LatestLast
<1>8. a \in Events /\ CarriesLp(a) /\ Chain[a].pool = Chain[e].pool /\ Precedes(a, e)
  BY <1>6, <1>7
<1>9. Chain[a].sig = Chain[e].sig
  <2>1. CASE a = f
    BY <2>1, <1>2
  <2>2. CASE a # f
    <3>1. Precedes(f, a) /\ Precedes(a, e) /\ Chain[f].slot = Chain[e].slot
      BY <2>2, <1>1, <1>2, <1>3, <1>6, <1>7, <1>8, ChainAssumption
    <3>2. /\ Chain[a].slot \in Nat /\ Chain[e].slot \in Nat /\ Chain[f].slot \in Nat
          /\ Chain[a].sig \in Nat /\ Chain[e].sig \in Nat /\ Chain[f].sig \in Nat
      BY <1>1, <1>3, <1>8, EventType
    <3> QED BY <3>1, <3>2, <1>2 DEF Precedes
  <2> QED BY <2>1, <2>2
<1>10. a < e
  BY <1>1, <1>8, <1>9, PrecedesOrder
<1>11. ASSUME NEW b \in Events, CarriesLp(b), Chain[b].pool = Chain[e].pool, a < b, b < e
       PROVE  FALSE
  <2>1. Chain[b].sig = Chain[e].sig
    BY <1>1, <1>8, <1>9, <1>11, TxStandsTogether
  <2>2. b \in earlier
    BY <2>1, <1>4, <1>5, <1>11
  <2>3. a # b
    BY <1>8, <1>11, EventType
  <2>4. Precedes(b, a)
    BY <2>2, <2>3, <1>7
  <2>5. Chain[b].sig = Chain[a].sig
    BY <2>1, <1>9
  <2>6. b < a
    BY <2>4, <2>5, <1>8, PrecedesOrder
  <2> QED BY <2>6, <1>8, <1>11, EventType
<1>12. LastChangeWithin(a, e)
  BY <1>8, <1>9, <1>10, <1>11 DEF LastChangeWithin
<1>13. Chain[e].lp = Chain[a].lp
  BY <1>1, <1>8, <1>12, SupplyWithin
<1> QED BY <1>6, <1>7, <1>13

-----------------------------------------------------------------------------
(* A commit of either writer.                                              *)
LEMMA WritesSound ==
  ASSUME StoreInv, RowIds, SuppliesOfThePool,
         NEW batch \in SUBSET Events, WholeTx(batch), NEW cache, SoundCache(cache),
         NEW lp_cache, SoundSupplies(lp_cache),
         ForeignKeysHold(batch, CachedPools(batch, cache)),
         InsertAll(batch, CachedPools(batch, cache), lp_cache), Grows
  PROVE  RowIds' /\ SuppliesOfThePool'
<1>0. PICK c : c = CachedPools(batch, cache)
  OBVIOUS
<1>1. PICK known : known = Known(batch, c)
  OBVIOUS
<1>2. /\ StoreInv' /\ pools' = Table(batch)
      /\ \A id : FreeId(id) => FreeId(id)'
      /\ DOMAIN reserves' = DOMAIN reserves \cup known
  BY <1>0, <1>1, StoreInvKept
<1>3. /\ reserves' = Over(reserves, ReservesRows(known, c, lp_cache))
      /\ reserve_serial' = reserve_serial + Cardinality(known)
  BY <1>0, <1>1 DEF InsertAll
<1>4. known \in SUBSET Events /\ \A e \in known : e \in batch /\ Chain[e].pool \in DOMAIN c
  BY <1>1 DEF Known
<1>5. /\ \A e \in DOMAIN reserves : reserves'[e] = reserves[e]
      /\ \A e \in known \ DOMAIN reserves :
           /\ reserves'[e].pool_id = c[Chain[e].pool]
           /\ reserves'[e].lp_supply = LpSupply(e, known, c, lp_cache)
           /\ reserves'[e].reserve_id = reserve_serial + 1 + Rank(e, known)
  <2> DEFINE rows == ReservesRows(known, c, lp_cache)
  <2>1. /\ DOMAIN rows = known
        /\ \A e \in known : /\ rows[e].pool_id = c[Chain[e].pool]
                            /\ rows[e].lp_supply = LpSupply(e, known, c, lp_cache)
                            /\ rows[e].reserve_id = reserve_serial + 1 + Rank(e, known)
    BY DEF ReservesRows
  <2>2. reserves' = Over(reserves, rows)
    BY <1>3
  <2> HIDE DEF rows
  <2>3. /\ \A e \in DOMAIN reserves : reserves'[e] = reserves[e]
        /\ \A e \in known \ DOMAIN reserves : reserves'[e] = rows[e]
    BY <2>1, <2>2 DEF Over
  <2> QED BY <2>1, <2>3
<1>6. \A e \in known \ DOMAIN reserves : c[Chain[e].pool] = pools'[Chain[e].pool]
  BY <1>0, <1>1, <1>2, KeysAreRight DEF StoreInv, Inserted
<1>7. RowIds'
  <2>1. Cardinality(known) \in Nat /\ \A e \in known : Rank(e, known) \in Nat
    <3>1. Cardinality(known) \in Nat
      BY <1>4, EventsFinite, FS_Subset, FS_CardinalityType
    <3> QED BY <3>1, <1>4, RankNumbers
  <2>2. reserve_serial \in Nat /\ \A e \in DOMAIN reserves : reserves[e].reserve_id \in Nat
    BY DEF RowIds
  <2>3. \A n \in Nat : reserve_serial + 1 + n \in Nat /\ reserve_serial + n \in Nat
    BY <2>2
  <2>4. reserve_serial' \in Nat
    BY <2>1, <2>3, <1>3
  <2>5. ASSUME NEW e \in DOMAIN reserves'
        PROVE  reserves'[e].reserve_id \in Nat
    <3>1. CASE e \in DOMAIN reserves
      BY <3>1, <2>2, <1>5
    <3>2. CASE e \in known \ DOMAIN reserves
      BY <3>2, <2>1, <2>3, <1>5
    <3> QED BY <3>1, <3>2, <1>2
  <2> QED BY <2>4, <2>5 DEF RowIds
<1>8. \A e \in Events : CarriesLp(e) /\ e \in DOMAIN reserves'
                          => (Chain[e].lp \in SuppliesOf(Chain[e].pool)')
  BY DEF SuppliesOf
<1>9. ASSUME NEW e \in DOMAIN reserves
      PROVE  /\ reserves'[e].lp_supply \in SuppliesOf(Chain[e].pool)'
             /\ CarriesLp(e) \/ SuppliedWithin(e) => reserves'[e].lp_supply = Chain[e].lp
  <2>1. /\ reserves[e].lp_supply \in SuppliesOf(Chain[e].pool)
        /\ CarriesLp(e) \/ SuppliedWithin(e) => reserves[e].lp_supply = Chain[e].lp
    BY DEF SuppliesOfThePool
  <2>2. PICK p, n : p = Chain[e].pool /\ n = reserves[e].lp_supply
    OBVIOUS
  <2>3. n \in SuppliesOf(p)'
    BY <2>1, <2>2, SuppliesStay
  <2> QED BY <2>1, <2>2, <2>3, <1>5
<1>10. ASSUME NEW e \in known \ DOMAIN reserves
       PROVE  /\ reserves'[e].lp_supply \in SuppliesOf(Chain[e].pool)'
              /\ CarriesLp(e) \/ SuppliedWithin(e) => reserves'[e].lp_supply = Chain[e].lp
  <2>1. CASE CarriesLp(e)
    <3>1. LpSupply(e, known, c, lp_cache) = Chain[e].lp
      BY <2>1 DEF LpSupply
    <3> QED BY <3>1, <2>1, <1>2, <1>4, <1>5, <1>8
  <2>2. CASE ~CarriesLp(e)
    <3>1. PICK earlier : earlier = {f \in known : /\ CarriesLp(f) /\ Chain[f].pool = Chain[e].pool
                                                  /\ Precedes(f, e)}
      OBVIOUS
    <3>2. LpSupply(e, known, c, lp_cache)
            = IF earlier # {} THEN Chain[Latest(earlier)].lp
              ELSE IF c[Chain[e].pool] \in DOMAIN lp_cache THEN lp_cache[c[Chain[e].pool]]
              ELSE 0
      BY <2>2, <3>1 DEF LpSupply
    <3>3. ASSUME SuppliedWithin(e)
          PROVE  earlier # {} /\ Chain[Latest(earlier)].lp = Chain[e].lp
      <4>1. Chain[e].kind = "swap"
        BY <2>2 DEF CarriesLp
      <4>2. e \in Known(batch, c)
        BY <1>1
      <4>3. earlier = {f \in Known(batch, c) : /\ CarriesLp(f) /\ Chain[f].pool = Chain[e].pool
                                               /\ Precedes(f, e)}
        BY <3>1, <1>1
      <4> QED BY <4>1, <4>2, <4>3, <3>3, WithinTheBatch
    <3>4. CASE earlier # {}
      <4>1. earlier \in SUBSET Events
        BY <3>1, <1>4
      <4>2. PICK f \in earlier : f = Latest(earlier)
        BY <3>4, <4>1, LatestLast
      <4>3. f \in known /\ CarriesLp(f) /\ Chain[f].pool = Chain[e].pool
        BY <3>1, <4>2
      <4>4. Chain[f].lp \in SuppliesOf(Chain[f].pool)'
        BY <4>3, <1>2, <1>4, <1>8
      <4>5. reserves'[e].lp_supply = Chain[f].lp
        BY <3>2, <3>4, <4>2, <1>5
      <4> QED BY <4>2, <4>3, <4>4, <4>5, <3>3, <2>2
    <3>5. CASE earlier = {}
      <4>1. ~SuppliedWithin(e)
        BY <3>3, <3>5
      <4>2. PICK p, id, n : p = Chain[e].pool /\ id = c[Chain[e].pool]
                              /\ n = LpSupply(e, known, c, lp_cache)
        OBVIOUS
      <4>3. p \in DOMAIN pools' /\ pools'[p] = id
        BY <4>2, <1>2, <1>6 DEF StoreInv, TablesAgree
      <4>4. n \in SuppliesOf(p)'
        <5>1. CASE id \in DOMAIN lp_cache
          <6>1. n = lp_cache[id] /\ SoundSupply(id, n)
            BY <5>1, <4>2, <3>2, <3>5 DEF SoundSupplies
          <6>2. SoundSupply(id, n)'
            BY <6>1, SuppliesStay
          <6>3. ~(FreeId(id)')
            BY <4>3 DEF FreeId
          <6>4. PICK q \in DOMAIN pools' : pools'[q] = id /\ n \in SuppliesOf(q)'
            BY <6>2, <6>3 DEF SoundSupply
          <6>5. q = p
            BY <6>4, <4>3, <1>2 DEF StoreInv, IdsDiffer
          <6> QED BY <6>4, <6>5
        <5>2. CASE id \notin DOMAIN lp_cache
          <6>1. n = 0
            BY <5>2, <4>2, <3>2, <3>5
          <6> QED BY <6>1 DEF SuppliesOf
        <5> QED BY <5>1, <5>2
      <4>5. reserves'[e].lp_supply = n
        BY <4>2, <1>5
      <4> QED BY <4>1, <4>2, <4>4, <4>5, <2>2
    <3> QED BY <3>4, <3>5
  <2> QED BY <2>1, <2>2
<1>11. SuppliesOfThePool'
  BY <1>2, <1>9, <1>10 DEF SuppliesOfThePool
<1> QED BY <1>7, <1>11

(* What a writer keeps in mind after a batch.                              *)
LEMMA MirroredSound ==
  ASSUME Grows, NEW batch \in SUBSET Events, NEW c, SoundCache(c)',
         NEW lp_cache, SoundSupplies(lp_cache),
         \A e \in Known(batch, c) : e \in DOMAIN reserves' \/ Chain[e].slot \in missed',
         NEW k, k = CachedSupplies(Known(batch, c), c, lp_cache)
  PROVE  SoundSupplies(k)'
<1>1. Known(batch, c) \in SUBSET Events /\ \A e \in Known(batch, c) : Chain[e].pool \in DOMAIN c
  BY DEF Known
<1>2. \A id \in DOMAIN lp_cache : SoundSupply(id, lp_cache[id])'
  BY SuppliesStay DEF SoundSupplies
<1>3. PICK known : known = Known(batch, c)
  OBVIOUS
<1>4. SoundSupplies(CachedSupplies(known, c, lp_cache))'
  BY <1>1, <1>2, <1>3, MirrorSound
<1> QED BY <1>3, <1>4

LEMMA RowsUndisturbed ==
  ASSUME RowIds, SuppliesOfThePool, Grows, UNCHANGED <<reserves, reserve_serial>>
  PROVE  RowIds' /\ SuppliesOfThePool'
<1>1. RowIds'
  BY DEF RowIds
<1>2. ASSUME NEW e \in DOMAIN reserves
      PROVE  /\ reserves[e].lp_supply \in SuppliesOf(Chain[e].pool)'
             /\ CarriesLp(e) \/ SuppliedWithin(e) => reserves[e].lp_supply = Chain[e].lp
  <2>1. /\ reserves[e].lp_supply \in SuppliesOf(Chain[e].pool)
        /\ CarriesLp(e) \/ SuppliedWithin(e) => reserves[e].lp_supply = Chain[e].lp
    BY DEF SuppliesOfThePool
  <2>2. PICK p, n : p = Chain[e].pool /\ n = reserves[e].lp_supply
    OBVIOUS
  <2>3. n \in SuppliesOf(p)'
    BY <2>1, <2>2, SuppliesStay
  <2> QED BY <2>1, <2>2, <2>3
<1> QED BY <1>1, <1>2 DEF SuppliesOfThePool

LEMMA SoundSuppliesStay ==
  ASSUME Grows, NEW k, SoundSupplies(k)
  PROVE  SoundSupplies(k)'
BY SuppliesStay DEF SoundSupplies

LEMMA SlotsAreWhole ==
  ASSUME NEW slot
  PROVE  WholeTx(Batch(slot)) /\ Batch(slot) \in SUBSET Events
<1>1. \A e, f \in Events : Chain[f].sig = Chain[e].sig => Chain[f].slot = Chain[e].slot
  BY ChainAssumption
<1> QED BY <1>1 DEF WholeTx, Batch

SupInv == BInv /\ Supplies

LEMMA SuppliesRunWriter ==
  ASSUME SupInv, BInv', NEW acknowledged, run_writer(acknowledged), UNCHANGED backfill
  PROVE  Supplies'
<1>1. PICK batch : batch = Batch(Head(rx))
  OBVIOUS
<1>2. PICK c : c = CachedPools(batch, pool_cache)
  OBVIOUS
<1>3. /\ ForeignKeysHold(batch, c) /\ InsertAll(batch, c, lp_supply_cache)
      /\ pool_cache' = c
      /\ lp_supply_cache' = CachedSupplies(Known(batch, c), c, lp_supply_cache)
      /\ missed' = missed
  BY <1>1, <1>2 DEF run_writer, write_block
<1>4. batch \in SUBSET Events /\ WholeTx(batch)
  BY <1>1, SlotsAreWhole
<1>5. SoundCache(pool_cache) /\ StoreInv
  BY DEF SupInv, BInv, LiveInv, LiveCache, SoundCache
<1>6. /\ pools' = Table(batch)
      /\ \A id : FreeId(id) => FreeId(id)'
      /\ DOMAIN reserves' = DOMAIN reserves \cup Known(batch, c)
  BY <1>2, <1>3, <1>4, <1>5, StoreInvKept
<1>7. Grows
  BY <1>3, <1>6, TableFacts DEF Grows
<1>8. RowIds' /\ SuppliesOfThePool'
  BY <1>2, <1>3, <1>4, <1>5, <1>7, WritesSound DEF SupInv, Supplies
<1>9. SoundCache(c)'
  BY <1>3 DEF BInv, LiveInv, LiveCache, SoundCache
<1>10. PICK k : k = CachedSupplies(Known(batch, c), c, lp_supply_cache)
  OBVIOUS
<1>11. SoundSupplies(k)'
  BY <1>4, <1>6, <1>7, <1>9, <1>10, MirroredSound DEF SupInv, Supplies
<1>12. lp_supply_cache' = k /\ its_supplies' = its_supplies /\ decoded' = decoded
  BY <1>3, <1>10 DEF backfill, its_caches, progress
<1>13. PICK i : i = its_supplies
  OBVIOUS
<1>14. SoundSupplies(i)'
  BY <1>7, <1>13, SoundSuppliesStay DEF SupInv, Supplies
<1> QED BY <1>8, <1>11, <1>12, <1>13, <1>14 DEF SupInv, Supplies, SoundSupplies, WholeTx

LEMMA SuppliesWriteFails ==
  ASSUME SupInv, BInv', NEW reached, WriteFails(reached), UNCHANGED backfill
  PROVE  Supplies'
<1>1. PICK batch : batch = Batch(Head(rx))
  OBVIOUS
<1>2. PICK c : c = CachedPools(batch, pool_cache)
  OBVIOUS
<1>3. /\ missed' = missed \cup {Head(rx)}
      /\ UNCHANGED <<pools, reserves, reserve_serial, tables>>
      /\ its_supplies' = its_supplies /\ decoded' = decoded
  BY DEF WriteFails, tables, backfill, its_caches, progress
<1>4. \/ pool_serial' = pool_serial /\ lp_supply_cache' = lp_supply_cache
      \/ TakePoolIds(batch) /\ lp_supply_cache' = lp_supply_cache
      \/ /\ TakePoolIds(batch) /\ pool_cache' = c
         /\ lp_supply_cache' = CachedSupplies(Known(batch, c), c, lp_supply_cache)
  BY <1>1, <1>2 DEF WriteFails, caches
<1>5. batch \in SUBSET Events
  BY <1>1, SlotsAreWhole
<1>6. \A id : FreeId(id) => FreeId(id)'
  <2>1. CASE TakePoolIds(batch)
    BY <2>1, <1>3, <1>5, StoreInvNumbersTaken DEF SupInv, BInv, LiveInv
  <2>2. CASE pool_serial' = pool_serial
    BY <2>2, <1>3 DEF FreeId
  <2> QED BY <2>1, <2>2, <1>4
<1>7. Grows
  BY <1>3, <1>6 DEF Grows
<1>8. RowIds' /\ SuppliesOfThePool'
  BY <1>3, <1>7, RowsUndisturbed DEF SupInv, Supplies
<1>9. PICK i, l : i = its_supplies /\ l = lp_supply_cache
  OBVIOUS
<1>10. SoundSupplies(i)' /\ SoundSupplies(l)'
  BY <1>7, <1>9, SoundSuppliesStay DEF SupInv, Supplies
<1>11. PICK k : k = lp_supply_cache'
  OBVIOUS
<1>12. SoundSupplies(k)'
  <2>1. CASE lp_supply_cache' = lp_supply_cache
    BY <2>1, <1>9, <1>10, <1>11
  <2>2. CASE /\ pool_cache' = c
             /\ lp_supply_cache' = CachedSupplies(Known(batch, c), c, lp_supply_cache)
    <3>1. SoundCache(c)'
      BY <2>2 DEF BInv, LiveInv, LiveCache, SoundCache
    <3>2. \A e \in Known(batch, c) : Chain[e].slot \in missed'
      BY <1>1, <1>3 DEF Known, Batch
    <3>3. k = CachedSupplies(Known(batch, c), c, l)
      BY <2>2, <1>9, <1>11
    <3>4. SoundSupplies(l)
      BY <1>9 DEF SupInv, Supplies
    <3> QED BY <3>1, <3>2, <3>3, <3>4, <1>5, <1>7, MirroredSound
  <2> QED BY <2>1, <2>2, <1>4
<1> QED BY <1>3, <1>8, <1>9, <1>10, <1>11, <1>12 DEF SupInv, Supplies, SoundSupplies, WholeTx

(* Steps that leave the tables and the numbers as they are.                *)
LEMMA GrowsUndisturbed ==
  ASSUME UNCHANGED store, missed \subseteq missed'
  PROVE  Grows
<1>1. UNCHANGED <<pools, reserves, pool_serial>>
  BY DEF store, tables
<1> QED BY <1>1 DEF Grows, FreeId

LEMMA SuppliesBesides ==
  ASSUME SupInv, BInv', UNCHANGED store, missed \subseteq missed',
         NEW l, NEW i, lp_supply_cache' = l, its_supplies' = i,
         \/ SoundSupplies(l) \/ l = Empty,
         \/ SoundSupplies(i) \/ i = Empty,
         WholeTx(decoded')
  PROVE  Supplies'
<1>1. Grows
  BY GrowsUndisturbed
<1>2. SoundSupplies(Empty)
  BY DEF SoundSupplies, Empty
<1>3. SoundSupplies(l)' /\ SoundSupplies(i)'
  BY <1>1, <1>2, SoundSuppliesStay
<1>4. UNCHANGED <<reserves, reserve_serial>>
  BY DEF store, tables
<1>5. RowIds' /\ SuppliesOfThePool'
  BY <1>1, <1>4, RowsUndisturbed DEF SupInv, Supplies
<1> QED BY <1>3, <1>5 DEF Supplies, SoundSupplies, WholeTx

LEMMA SuppliesLive ==
  ASSUME SupInv, BInv', [Next]_vars, UNCHANGED backfill
  PROVE  Supplies'
<1>1. its_supplies' = its_supplies /\ decoded' = decoded
  BY DEF backfill, its_caches, progress
<1>2. SoundSupplies(its_supplies) /\ SoundSupplies(lp_supply_cache) /\ WholeTx(decoded')
  BY <1>1 DEF SupInv, Supplies, WholeTx
<1>3. SoundSupplies(load_lp_supply_cache)
  BY LoadSound DEF SupInv, Supplies, BInv, LiveInv
<1>4. CASE \E acknowledged \in BOOLEAN : run_writer(acknowledged)
  BY <1>4, SuppliesRunWriter
<1>5. CASE \E reached \in {"begin", "pools", "rows"} : WriteFails(reached)
  BY <1>5, SuppliesWriteFails
<1>6. CASE Produce \/ run_live \/ FallBackToTip \/ subscribe_once \/ receive_block
           \/ Disconnect \/ Crash \/ UNCHANGED vars
  <2>1. /\ UNCHANGED store /\ missed \subseteq missed'
        /\ lp_supply_cache' \in {lp_supply_cache, load_lp_supply_cache, Empty}
    BY <1>6 DEF Produce, run_live, FallBackToTip, subscribe_once, receive_block,
                Disconnect, Crash, vars, caches
  <2>2. PICK l : l = lp_supply_cache' /\ (SoundSupplies(l) \/ l = Empty)
    BY <2>1, <1>2, <1>3
  <2>3. PICK i : i = its_supplies' /\ SoundSupplies(i)
    BY <1>1, <1>2
  <2> QED BY <2>1, <2>2, <2>3, <1>2, SuppliesBesides
<1> QED BY <1>4, <1>5, <1>6 DEF Next

(* The steps of the backfill.                                              *)
LEMMA SuppliesFetch ==
  ASSUME SupInv, BInv',
         run \/ rpc_call_again \/ get_signatures \/ ListingFails \/ decode_tx
  PROVE  Supplies'
<1>1. UNCHANGED store /\ missed' = missed /\ lp_supply_cache' = lp_supply_cache
  BY DEF run, rpc_call_again, get_signatures, ListingFails, decode_tx, live, caches
<1>2. /\ its_supplies' \in {its_supplies, load_lp_supply_cache, Empty}
      /\ \/ decoded' = decoded \/ decoded' = {}
         \/ decoded' = decoded \cup EventsOf(oldest_of(page))
  BY DEF run, rpc_call_again, get_signatures, ListingFails, decode_tx, Stop, its_caches, progress
<1>3. WholeTx(decoded) /\ SoundSupplies(its_supplies) /\ SoundSupplies(lp_supply_cache)
  BY DEF SupInv, Supplies
<1>4. WholeTx(decoded')
  BY <1>2, <1>3 DEF WholeTx, EventsOf
<1>5. SoundSupplies(load_lp_supply_cache)
  BY LoadSound DEF SupInv, Supplies, BInv, LiveInv
<1>6. PICK i : i = its_supplies' /\ (SoundSupplies(i) \/ i = Empty)
  BY <1>2, <1>3, <1>5
<1>7. PICK l : l = lp_supply_cache' /\ SoundSupplies(l)
  BY <1>1, <1>3
<1> QED BY <1>1, <1>4, <1>6, <1>7, SuppliesBesides

LEMMA SuppliesApplyPage ==
  ASSUME SupInv, BInv', apply_page
  PROVE  Supplies'
<1>1. PICK batch : batch = decoded
  OBVIOUS
<1>2. PICK c : c = CachedPools(batch, its_pools)
  OBVIOUS
<1>3. /\ ForeignKeysHold(batch, c) /\ InsertAll(batch, c, its_supplies)
      /\ missed' = missed /\ lp_supply_cache' = lp_supply_cache
      /\ decoded' = {}
      /\ \/ its_supplies' = Empty
         \/ /\ its_pools' = c
            /\ its_supplies' = CachedSupplies(Known(batch, c), c, its_supplies)
  BY <1>1, <1>2 DEF apply_page, Stop, caches
<1>4. batch \in SUBSET Events /\ WholeTx(batch)
  BY <1>1 DEF SupInv, Supplies, BInv, WalkInv
<1>5. SoundCache(its_pools) /\ StoreInv
  BY DEF SupInv, BInv, LiveInv, ItsCache, SoundCache
<1>6. /\ pools' = Table(batch)
      /\ \A id : FreeId(id) => FreeId(id)'
      /\ DOMAIN reserves' = DOMAIN reserves \cup Known(batch, c)
  BY <1>2, <1>3, <1>4, <1>5, StoreInvKept
<1>7. Grows
  BY <1>3, <1>6, TableFacts DEF Grows
<1>8. RowIds' /\ SuppliesOfThePool'
  BY <1>2, <1>3, <1>4, <1>5, <1>7, WritesSound DEF SupInv, Supplies
<1>9. PICK i, l : i = its_supplies /\ l = lp_supply_cache
  OBVIOUS
<1>10. SoundSupplies(i) /\ SoundSupplies(l)
  BY <1>9 DEF SupInv, Supplies
<1>11. SoundSupplies(l)'
  BY <1>7, <1>10, SoundSuppliesStay
<1>12. PICK k : k = its_supplies'
  OBVIOUS
<1>13. SoundSupplies(k)'
  <2>1. CASE its_supplies' = Empty
    BY <2>1, <1>12 DEF SoundSupplies, Empty
  <2>2. CASE /\ its_pools' = c
             /\ its_supplies' = CachedSupplies(Known(batch, c), c, its_supplies)
    <3>1. SoundCache(c)'
      BY <2>2 DEF BInv, ItsCache, SoundCache
    <3>2. k = CachedSupplies(Known(batch, c), c, i)
      BY <2>2, <1>9, <1>12
    <3> QED BY <3>1, <3>2, <1>4, <1>6, <1>7, <1>10, MirroredSound
  <2> QED BY <2>1, <2>2, <1>3
<1> QED BY <1>3, <1>8, <1>9, <1>11, <1>12, <1>13 DEF Supplies, SoundSupplies, WholeTx

LEMMA SuppliesPageFails ==
  ASSUME SupInv, BInv', PageFails
  PROVE  Supplies'
<1>1. /\ UNCHANGED <<tables, pools, reserves, reserve_serial>>
      /\ missed' = missed /\ lp_supply_cache' = lp_supply_cache
      /\ its_supplies' = Empty /\ decoded' = {}
      /\ TakePoolIds(decoded) \/ pool_serial' = pool_serial
  BY DEF PageFails, Stop, live, caches, tables
<1>2. decoded \in SUBSET Events
  BY DEF SupInv, BInv, WalkInv
<1>3. \A id : FreeId(id) => FreeId(id)'
  <2>1. CASE TakePoolIds(decoded)
    BY <2>1, <1>1, <1>2, StoreInvNumbersTaken DEF SupInv, BInv, LiveInv
  <2>2. CASE pool_serial' = pool_serial
    BY <2>2, <1>1 DEF FreeId
  <2> QED BY <2>1, <2>2, <1>1
<1>4. Grows
  BY <1>1, <1>3 DEF Grows
<1>5. RowIds' /\ SuppliesOfThePool'
  BY <1>1, <1>4, RowsUndisturbed DEF SupInv, Supplies
<1>6. PICK l : l = lp_supply_cache
  OBVIOUS
<1>7. SoundSupplies(l)'
  BY <1>4, <1>6, SoundSuppliesStay DEF SupInv, Supplies
<1> QED BY <1>1, <1>5, <1>6, <1>7 DEF Supplies, SoundSupplies, WholeTx, Empty

LEMMA SpecSupInv == BackfillSpec => []SupInv
<1>1. BackfillInit => Supplies
  <2> SUFFICES ASSUME BackfillInit PROVE Supplies
    OBVIOUS
  <2>1. /\ reserves = Empty /\ reserve_serial = 0 /\ lp_supply_cache = Empty
        /\ its_supplies = Empty /\ decoded = {}
    BY DEF BackfillInit, Init, StoreInit
  <2> QED BY <2>1 DEF Supplies, SoundSupplies, WholeTx, RowIds, SuppliesOfThePool, Empty
<1>2. BInv /\ BInv' /\ Supplies /\ [BackfillNext]_all => Supplies'
  <2> SUFFICES ASSUME SupInv, BInv', [BackfillNext]_all PROVE Supplies'
    BY DEF SupInv
  <2>1. CASE Next /\ UNCHANGED backfill
    BY <2>1, SuppliesLive
  <2>2. CASE UNCHANGED all
    BY <2>2, SuppliesLive DEF all
  <2>3. CASE BackfillStep
    BY <2>3, SuppliesFetch, SuppliesApplyPage, SuppliesPageFails DEF BackfillStep
  <2> QED BY <2>1, <2>2, <2>3 DEF BackfillNext
<1> QED BY <1>1, <1>2, SpecBInv, PTL DEF BackfillSpec, SupInv

(* No row has the supply of another pool, whichever writer stored it and   *)
(* whatever its cache held; and a swap whose transaction changed the       *)
(* supply before it has the right one.                                     *)
THEOREM SuppliesStayInThePool == BackfillSpec => []SuppliesOfThePool
<1>1. SupInv => SuppliesOfThePool
  BY DEF SupInv, Supplies
<1> QED BY <1>1, SpecSupInv, PTL
=============================================================================
