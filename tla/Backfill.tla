------------------------------ MODULE Backfill ------------------------------
(***************************************************************************)
(* The backfill subcommand (stream/backfill.rs), running beside the live   *)
(* indexer on one database.  It lists the signatures of the program page   *)
(* by page from the newest backwards, fetches each transaction, oldest of  *)
(* the page first, and stores the events of a page in one transaction with *)
(* caches of its own.  It stops at an empty page, at a page that inserts   *)
(* nothing, or with an error.                                              *)
(***************************************************************************)
EXTENDS Indexer

CONSTANTS
  History,            \* the transactions that mention the program, as [slot, sig]
  PAGE_LIMIT, MAX_HTTP_ATTEMPTS,
  MaxBackfills,       \* bound: how often it is started
  MaxUnread           \* bound: how many transactions cannot be fetched

Positions == 1..Len(History)
PositionOf(e) == CHOOSE p \in Positions : History[p].sig = Chain[e].sig
EventsOf(p) == {e \in Events : Chain[e].sig = History[p].sig}

(* The history is in the order of the chain; not all of it emits events.   *)
ASSUME BackfillAssumption ==
  /\ History \in Seq([slot : Nat \ {0}, sig : Nat])
  /\ \A p, q \in Positions : p < q => /\ History[p].slot <= History[q].slot
                                      /\ History[p].sig # History[q].sig
  /\ \A e \in Events : \E p \in Positions :
       History[p] = [slot |-> Chain[e].slot, sig |-> Chain[e].sig]
  /\ \A d, e \in Events : d < e => PositionOf(d) <= PositionOf(e)
  /\ {PAGE_LIMIT, MAX_HTTP_ATTEMPTS} \subseteq Nat \ {0}
  /\ MaxBackfills \in Nat /\ MaxUnread \in Nat

VARIABLES
  phase,      \* "idle", "listing" or "fetching"
  outcome,    \* of the last run
  attempt,    \* of rpc_call
  newest,     \* history: the newest position when the run listed its first page
  before,     \* the position the next page ends before
  page,       \* positions of the page that are still to fetch
  oldest,     \* the oldest position of the page
  decoded,    \* events of the page
  its_pools, its_supplies,  \* its pool_cache and lp_supply_cache
  unread,     \* history: positions that could not be fetched
  unknown,    \* history: events skipped while their pool was not in the table
  backfills   \* how often it was started

progress == <<newest, before, page, oldest, decoded>>
its_caches == <<its_pools, its_supplies>>
losses == <<unread, unknown>>
backfill == <<phase, outcome, attempt, progress, its_caches, losses, backfills>>
live == <<tip, checkpoint, running, caches, rx, stream, resume, published, missed,
          fallbacks>>
all == <<vars, backfill>>

BackfillInit ==
  /\ Init
  /\ phase = "idle" /\ outcome = "" /\ attempt = 1
  /\ newest = 0 /\ before = 0 /\ page = {} /\ oldest = 0 /\ decoded = {}
  /\ its_pools = Empty /\ its_supplies = Empty
  /\ unread = {} /\ unknown = {} /\ backfills = 0

(* The run is over, and its process ends. *)
Stop(how) ==
  /\ phase' = "idle" /\ outcome' = how /\ attempt' = 1
  /\ page' = {} /\ oldest' = 0 /\ decoded' = {}
  /\ its_pools' = Empty /\ its_supplies' = Empty

run ==
  /\ phase = "idle" /\ backfills < MaxBackfills
  /\ phase' = "listing" /\ outcome' = "" /\ backfills' = backfills + 1
  /\ newest' = 0 /\ before' = 0
  /\ its_pools' = load_pool_cache /\ its_supplies' = load_lp_supply_cache
  /\ UNCHANGED <<store, live, faults, attempt, page, oldest, decoded, losses>>

-----------------------------------------------------------------------------
(* Calls to the RPC node.                                                  *)

Confirmed == {p \in Positions : History[p].slot <= tip}
Youngest == Cardinality(Confirmed)

Calling == phase = "listing" \/ (phase = "fetching" /\ page # {})

\* Mutant: when the budget is used up, the call starts over.
rpc_call_again_unbounded ==
  /\ Calling
  /\ attempt' = IF attempt < MAX_HTTP_ATTEMPTS THEN attempt + 1 ELSE 1
  /\ UNCHANGED <<store, live, faults, phase, outcome, progress, its_caches, losses,
                 backfills>>
(* A transient failure is retried, as long as the budget lasts. *)
rpc_call_again ==
  /\ Calling
  /\ attempt < MAX_HTTP_ATTEMPTS
  /\ attempt' = attempt + 1
  /\ UNCHANGED <<store, live, faults, phase, outcome, progress, its_caches, losses,
                 backfills>>

(* The page before the cursor, or the newest one without a cursor. *)
get_signatures ==
  /\ phase = "listing"
  /\ LET last == IF before = 0 THEN Youngest ELSE before - 1
         first == IF last > PAGE_LIMIT THEN last - PAGE_LIMIT + 1 ELSE 1
     IN IF last = 0 THEN Stop("reached_start") /\ UNCHANGED newest
        ELSE /\ phase' = "fetching" /\ attempt' = 1
             /\ page' = first..last /\ oldest' = first
             /\ newest' = IF before = 0 THEN last ELSE newest
             /\ UNCHANGED <<outcome, decoded, its_caches>>
  /\ UNCHANGED <<store, live, faults, before, losses, backfills>>

(* The call fails for good, and with it the run. *)
ListingFails ==
  /\ phase = "listing" /\ Fault("listing")
  /\ Stop("failed")
  /\ UNCHANGED <<store, live, newest, before, losses, backfills>>

oldest_of(positions) == CHOOSE p \in positions : \A q \in positions : p <= q
(* The oldest transaction of the page that is not fetched yet.  If that    *)
(* fails for good, or the node does not know the transaction, the run goes *)
(* on without it.                                                          *)
decode_tx ==
  /\ phase = "fetching" /\ page # {}
  /\ LET p == oldest_of(page)
     IN /\ page' = page \ {p}
        /\ \/ /\ decoded' = decoded \cup EventsOf(p)
              /\ UNCHANGED unread
           \/ /\ p \in unread \/ Cardinality(unread) < MaxUnread
              /\ unread' = unread \cup {p}
              /\ UNCHANGED decoded
  /\ attempt' = 1
  /\ UNCHANGED <<store, live, faults, phase, outcome, newest, before, oldest,
                 its_caches, unknown, backfills>>

-----------------------------------------------------------------------------
(* One transaction for the page.  Nothing is announced, and the checkpoint *)
(* stays as it is.                                                         *)

\* Mutant: the page is announced like a block.
Announced_like_a_block(known) ==
  published' = [e \in Events |-> published[e] + IF e \in known THEN 1 ELSE 0]
Announced(known) == UNCHANGED published

apply_page ==
  /\ phase = "fetching" /\ page = {}
  /\ LET cache == CachedPools(decoded, its_pools)
         known == Known(decoded, cache)
         new_in_page == Cardinality(Inserted(known))
                          + Cardinality(DOMAIN InsertedPools(decoded))
     IN /\ ForeignKeysHold(decoded, cache)
        /\ InsertAll(decoded, cache, its_supplies)
        /\ Announced(known)
        /\ unknown' = unknown \cup {e \in decoded : Chain[e].pool \notin DOMAIN pools'}
        /\ IF new_in_page = 0 THEN Stop("caught_up")
           ELSE /\ phase' = "listing"
                /\ its_pools' = cache
                /\ its_supplies' = CachedSupplies(known, cache, its_supplies)
                /\ oldest' = 0 /\ decoded' = {}
                /\ UNCHANGED <<outcome, attempt, page>>
  /\ before' = oldest
  /\ UNCHANGED <<tip, checkpoint, running, caches, rx, stream, resume, missed,
                 fallbacks, faults, newest, unread, backfills>>

(* The transaction rolls back, or the process dies: the run is over.  The  *)
(* numbers taken from the sequences are gone.                              *)
PageFails ==
  /\ phase = "fetching" /\ page = {} /\ Fault("page")
  /\ TakePoolIds(decoded) \/ UNCHANGED pool_serial
  /\ Stop("failed")
  /\ UNCHANGED <<tables, live, newest, before, losses, backfills>>

-----------------------------------------------------------------------------
BackfillStep ==
  \/ run
  \/ rpc_call_again \/ get_signatures \/ ListingFails \/ decode_tx
  \/ apply_page \/ PageFails

BackfillNext ==
  \/ Next /\ UNCHANGED backfill
  \/ BackfillStep

BackfillSpec == BackfillInit /\ [][BackfillNext]_all

(* The steps of a run, as far as its control goes.                         *)
RunStep ==
  \/ /\ phase = "listing" /\ phase' \in {"fetching", "idle"}
     /\ page' \in SUBSET Positions /\ attempt' = 1
  \/ /\ phase = "fetching" /\ page # {}
     /\ page' = page \ {oldest_of(page)} /\ attempt' = 1 /\ UNCHANGED phase
  \/ /\ phase = "fetching" /\ page = {} /\ phase' \in {"listing", "idle"}
     /\ attempt' = 1 /\ UNCHANGED page
  \/ /\ Calling /\ attempt' \in (1..MAX_HTTP_ATTEMPTS) \ {attempt}
     /\ UNCHANGED <<phase, page>>

(* The process is scheduled; nobody need start a run.                      *)
BackfillFairSpec == BackfillSpec /\ WF_<<phase, page, attempt>>(RunStep)

-----------------------------------------------------------------------------
(* Of the pages that a run has walked through, every event is stored, but  *)
(* for transactions that could not be fetched and events whose pool was    *)
(* nowhere in the database when their page was written; no page is left    *)
(* out, up to the start of the history when the run says it was reached,   *)
(* whatever the live indexer stores meanwhile.                             *)
LeavesOutOnlyTheUnknown ==
  /\ \A e \in Events :
       \/ before = 0 \/ PositionOf(e) \notin before..newest
       \/ e \in DOMAIN reserves
       \/ PositionOf(e) \in unread \/ e \in unknown
  /\ outcome = "reached_start" => before \in {0, 1}

(* A pool id that the live writer has cached is the one in the table, or   *)
(* the writer's own transaction for it was rolled back: a pool that the    *)
(* backfill stores first costs the live writer nothing.                    *)
StaleOnlyAfterRollback ==
  \A p \in DOMAIN pool_cache :
    \/ p \in DOMAIN pools /\ pool_cache[p] = pools[p]
    \/ \E c \in Creations(Events) : Chain[c].pool = p /\ Chain[c].slot \in missed

(* The supplies that a pool has had, as far as either writer was told.     *)
SuppliesOf(p) ==
  {0} \cup {Chain[f].lp : f \in {g \in Events :
                                  /\ CarriesLp(g) /\ Chain[g].pool = p
                                  /\ g \in DOMAIN reserves \/ Chain[g].slot \in missed}}
(* The transaction of a swap changed the supply before it. *)
SuppliedWithin(e) ==
  \E f \in 1..(e - 1) : /\ CarriesLp(f) /\ Chain[f].pool = Chain[e].pool
                         /\ Chain[f].sig = Chain[e].sig

(* Two writers derive the supply of a swap from caches of their own, keyed *)
(* by pool ids that one of them may hold wrongly, and a backfill comes to  *)
(* the newest swaps first.  Still no row has the supply of another pool:   *)
(* it is one that its own pool had, before or after, or 0 while none is    *)
(* known.  It is the right one in rows whose event carries it, and when    *)
(* the swap's own transaction changed it.                                  *)
SuppliesOfThePool ==
  \A e \in DOMAIN reserves :
    /\ reserves[e].lp_supply \in SuppliesOf(Chain[e].pool)
    /\ CarriesLp(e) \/ SuppliedWithin(e) => reserves[e].lp_supply = Chain[e].lp

(* A run ends, though calls keep failing and the live indexer keeps        *)
(* writing: its calls have a budget, and each page is older.               *)
BackfillEnds == []<>(phase = "idle")

-----------------------------------------------------------------------------
(* stream/backfill.rs:12: "Stop conditions: [...] a page produces zero new *)
(* inserts -> already caught up to live state": what is older than that    *)
(* page has been stored.                                                   *)
StopMeansCaughtUp ==
  outcome = "caught_up" /\ unread = {} =>
    \A e \in Events : PositionOf(e) <= newest => e \in DOMAIN reserves
=============================================================================
