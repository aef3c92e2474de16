------------------------------ MODULE Indexer ------------------------------
(***************************************************************************)
(* The live indexer (main.rs run_live): a subscriber that receives blocks  *)
(* from Laserstream (stream/grpc.rs), a bounded channel, and a writer that *)
(* commits each block with the checkpoint in one transaction and then      *)
(* broadcasts the rows it inserted (stream/writer.rs).  The connection may *)
(* drop, the process may crash, a transaction may fail at any of its       *)
(* statements, and a commit may succeed without the writer learning of it. *)
(***************************************************************************)
EXTENDS Store

CONSTANTS REORG_BUFFER_SLOTS, BLOCK_CHANNEL_CAPACITY,
          Retention,   \* how many of the last slots Laserstream can replay
          FirstSlot,   \* the newest slot when the indexer is first started
          Checkpoints, \* the checkpoints it may be started with
          LastSlot,    \* bound: the chain stops here
          Faults,      \* the faults of a run, of "disconnect", "crash", "write"
          MaxFaults    \* bound: how many of them

ASSUME IndexerAssumption ==
  /\ REORG_BUFFER_SLOTS \in Nat /\ BLOCK_CHANNEL_CAPACITY \in Nat \ {0}
  /\ Retention \in Nat \ {0}
  /\ FirstSlot \in Nat /\ LastSlot \in Nat /\ MaxFaults \in Nat
  /\ Checkpoints \subseteq 0..FirstSlot
(* What happened up to the checkpoint that the indexer is first started    *)
(* with is not its business, and not part of the chain.                    *)
ASSUME StartAssumption == \A e \in Events, c \in Checkpoints : c < Chain[e].slot

VARIABLES
  tip,              \* the newest confirmed slot
  checkpoint,       \* indexer_state.last_processed_slot, 0 without a row
  running,          \* the process is up
  pool_cache, lp_supply_cache,  \* of the writer task
  rx,               \* slots of the blocks in the channel
  connected, next,  \* the stream, and the slot of the block it delivers next
  resume,           \* current_resume of run_subscriber
  published,        \* how often the reserves row of an event was broadcast
  missed,           \* history: slots that failed to be written or were jumped
  fallbacks,        \* history: the slots to come when the stream gave its place up
  faults            \* how many faults there were

caches == <<pool_cache, lp_supply_cache>>
stream == <<connected, next>>
vars == <<store, tip, checkpoint, running, caches, rx, stream, resume,
          published, missed, fallbacks, faults>>

Init ==
  /\ StoreInit
  /\ tip = FirstSlot /\ checkpoint \in Checkpoints
  /\ running = FALSE /\ pool_cache = Empty /\ lp_supply_cache = Empty
  /\ rx = <<>> /\ connected = FALSE /\ next = 0 /\ resume = 0
  /\ published = [e \in Events |-> 0]
  /\ missed = {} /\ fallbacks = {} /\ faults = 0

Fault(kind) == kind \in Faults /\ faults < MaxFaults /\ faults' = faults + 1

(* The cluster confirms another block. *)
Produce ==
  /\ tip < LastSlot
  /\ tip' = tip + 1
  /\ UNCHANGED <<store, checkpoint, running, caches, rx, stream, resume,
                 published, missed, fallbacks, faults>>

(* The process starts: run_subscriber will resume a buffer of slots before *)
(* the checkpoint, and the writer loads its caches.                        *)
run_live ==
  /\ ~running
  /\ running' = TRUE
  /\ resume' = IF checkpoint > REORG_BUFFER_SLOTS
               THEN checkpoint - REORG_BUFFER_SLOTS ELSE 0
  /\ pool_cache' = load_pool_cache
  /\ lp_supply_cache' = load_lp_supply_cache
  /\ UNCHANGED <<store, tip, checkpoint, rx, stream, published, missed, fallbacks, faults>>

-----------------------------------------------------------------------------
(* The subscriber.                                                         *)

Oldest == IF tip >= Retention THEN tip - Retention + 1 ELSE 0

(* Laserstream refuses a slot that it no longer has. *)
FallBackToTip ==
  /\ running /\ ~connected
  /\ 0 < resume /\ resume < Oldest
  /\ resume' = 0
  /\ fallbacks' = fallbacks \cup {tip + 1}
  /\ UNCHANGED <<store, tip, checkpoint, running, caches, rx, stream,
                 published, missed, faults>>

(* The slots that a stream from the tip will not deliver any more.         *)
Jumped ==
  {s \in 1..tip : /\ \A i \in DOMAIN rx : rx[i] # s
                  /\ ~(Batch(s) \subseteq DOMAIN reserves)}

subscribe_once ==
  /\ running /\ ~connected
  /\ connected' = TRUE
  /\ \/ /\ resume > 0 /\ resume >= Oldest
        /\ next' = resume
        /\ UNCHANGED missed
     \/ /\ resume = 0
        /\ next' = tip + 1
        /\ missed' = missed \cup Jumped
  /\ UNCHANGED <<store, tip, checkpoint, running, caches, rx, resume,
                 published, fallbacks, faults>>

\* Mutant: a block that finds the channel full is dropped.
receive_block_or_drop ==
  /\ running /\ connected /\ next <= tip
  /\ rx' = IF Len(rx) < BLOCK_CHANNEL_CAPACITY THEN Append(rx, next) ELSE rx
  /\ next' = next + 1
  /\ UNCHANGED <<store, tip, checkpoint, running, caches, connected, resume,
                 published, missed, fallbacks, faults>>
(* A block arrives and its events go to the writer; with the channel full  *)
(* the subscriber waits.                                                   *)
receive_block ==
  /\ running /\ connected /\ next <= tip
  /\ Len(rx) < BLOCK_CHANNEL_CAPACITY
  /\ rx' = Append(rx, next)
  /\ next' = next + 1
  /\ UNCHANGED <<store, tip, checkpoint, running, caches, connected, resume,
                 published, missed, fallbacks, faults>>

(* The stream ends or errs; run_subscriber keeps current_resume. *)
Disconnect ==
  /\ connected /\ Fault("disconnect")
  /\ connected' = FALSE /\ next' = 0
  /\ UNCHANGED <<store, tip, checkpoint, running, caches, rx, resume,
                 published, missed, fallbacks>>

-----------------------------------------------------------------------------
(* The writer.                                                             *)

(* One transaction for the block at the head of the channel.  If a row     *)
(* refers to a pool id that is not in the table, it fails: WriteFails.     *)
write_block(known, cache, batch) ==
  /\ ForeignKeysHold(batch, cache)
  /\ InsertAll(batch, cache, lp_supply_cache)
  /\ checkpoint' = Head(rx)
  /\ pool_cache' = cache
  /\ lp_supply_cache' = CachedSupplies(known, cache, lp_supply_cache)

(* The transaction commits; acknowledged, its new rows are broadcast.      *)
run_writer(acknowledged) ==
  /\ running /\ rx # <<>>
  /\ LET batch == Batch(Head(rx))
         cache == CachedPools(batch, pool_cache)
         known == Known(batch, cache)
     IN /\ write_block(known, cache, batch)
        /\ IF acknowledged
           THEN /\ published' = [e \in Events |->
                     published[e] + IF e \in Inserted(known) THEN 1 ELSE 0]
                /\ UNCHANGED faults
           ELSE Fault("write") /\ UNCHANGED published
  /\ rx' = Tail(rx)
  /\ UNCHANGED <<tip, running, stream, resume, missed, fallbacks>>

(* The transaction rolls back.  What write_block has put into the caches   *)
(* by then stays there, the numbers taken from the sequences are gone, and *)
(* the writer goes on with the next block.                                 *)
WriteFails(reached) ==
  /\ running /\ rx # <<>>
  /\ LET batch == Batch(Head(rx))
         cache == CachedPools(batch, pool_cache)
     IN /\ \/ Fault("write")
           \/ /\ ~ForeignKeysHold(batch, cache) /\ reached = "rows"
              /\ UNCHANGED faults
        /\ \/ reached = "begin" /\ UNCHANGED <<caches, pool_serial>>
           \/ /\ reached = "pools"
              /\ pool_cache' = Over(InsertedPools(batch), pool_cache)
              /\ TakePoolIds(batch)
              /\ UNCHANGED lp_supply_cache
           \/ /\ reached = "rows"
              /\ pool_cache' = cache
              /\ TakePoolIds(batch)
              /\ lp_supply_cache' =
                   CachedSupplies(Known(batch, cache), cache, lp_supply_cache)
  /\ missed' = missed \cup {Head(rx)}
  /\ rx' = Tail(rx)
  /\ UNCHANGED <<tables, tip, checkpoint, running, stream, resume, published, fallbacks>>

(* The process dies, with everything that is not in the database.          *)
Crash ==
  /\ running /\ Fault("crash")
  /\ running' = FALSE /\ connected' = FALSE /\ next' = 0 /\ resume' = 0
  /\ pool_cache' = Empty /\ lp_supply_cache' = Empty /\ rx' = <<>>
  /\ UNCHANGED <<store, tip, checkpoint, published, missed, fallbacks>>

-----------------------------------------------------------------------------
Next ==
  \/ Produce
  \/ run_live
  \/ FallBackToTip \/ subscribe_once \/ receive_block \/ Disconnect
  \/ \E acknowledged \in BOOLEAN : run_writer(acknowledged)
  \/ \E reached \in {"begin", "pools", "rows"} : WriteFails(reached)
  \/ Crash

Spec == Init /\ [][Next]_vars

(* The writer takes the block at the head of the channel, well or badly.   *)
WriterStep == running /\ running' = running /\ rx # <<>> /\ rx' = Tail(rx)

(* The process is restarted when it dies (docker-compose.yml), its tasks   *)
(* keep being scheduled and reconnect for ever.                            *)
Fairness ==
  /\ WF_vars(run_live)
  /\ WF_vars(FallBackToTip) /\ WF_vars(subscribe_once) /\ WF_vars(receive_block)
  /\ WF_rx(WriterStep)
FairSpec == Spec /\ Fairness

-----------------------------------------------------------------------------
(* Up to the checkpoint nothing is lost but what the writer failed to      *)
(* write or the stream jumped over, and what happened in a pool whose      *)
(* creation was lost in that way.                                          *)
LostOnlyWhenMissed ==
  \A e \in Events :
    \/ Chain[e].slot > checkpoint
    \/ e \in DOMAIN reserves
    \/ {Chain[e].slot, Chain[CreationOf(e)].slot} \cap missed # {}

(* A cached pool id is the one in the table, unless the transaction that   *)
(* was to create the pool has failed.                                      *)
CacheTrue ==
  \A p \in DOMAIN pool_cache :
    \/ p \in DOMAIN pools /\ pool_cache[p] = pools[p]
    \/ /\ p \notin DOMAIN pools
       /\ \E e \in Creations(Events) : Chain[e].pool = p /\ Chain[e].slot \in missed

(* The events before e that told the writer the supply of its pool.        *)
Told(e) == {a \in Events : CarriesLp(a) /\ Chain[a].pool = Chain[e].pool /\ Precedes(a, e)}

(* The replay after a restart takes the supply cache back to older events, *)
(* and the stream gave its place up, since when no event has set it right. *)
Rewound(e) ==
  \E t \in fallbacks : t <= Chain[e].slot /\ \A a \in Told(e) : Chain[a].slot < t

(* A block of the pool was missed since the supply was last told, up to e, *)
(* or the one that created the pool.                                       *)
MissedSince(e) ==
  \E b \in Events :
    /\ Chain[b].slot \in missed /\ Chain[b].slot <= Chain[e].slot
    /\ Chain[b].pool = Chain[e].pool
    /\ \/ Chain[b].kind = "create"
       \/ \A a \in Told(e) : Chain[a].slot <= Chain[b].slot

(* A swap's row has the supply that was told last before it in the order   *)
(* of the writer, by an event of its block, of a block before it or of one *)
(* that an earlier process has stored.  A lapse does not last: whatever    *)
(* was missed, reverted or out of order, the next event that tells the     *)
(* supply sets the rows after it right.                                    *)
SupplyAsLastTold ==
  \A e \in DOMAIN swaps :
    Told(e) # {} =>
      \/ reserves[e].lp_supply = Chain[Latest(Told(e))].lp
      \/ MissedSince(e) \/ Rewound(e)

(* Something that had happened in the pool was missed. *)
MissedBefore(e) ==
  \E a \in Events : /\ Chain[a].slot \in missed /\ Chain[a].slot <= Chain[e].slot
                   /\ Chain[a].pool = Chain[e].pool

(* Two transactions of one slot touched the pool in the order opposite to  *)
(* that of their signatures.                                               *)
Scrambled(e) ==
  \E a, b \in Events :
    /\ a < b /\ Chain[a].slot = Chain[b].slot /\ Chain[a].slot <= Chain[e].slot
    /\ Chain[a].pool = Chain[e].pool /\ Chain[b].pool = Chain[e].pool
    /\ Chain[b].sig < Chain[a].sig

(* The supply was changed before in a transaction that failed. *)
Reverted(e) == \E a \in Told(e) : ~Chain[a].ok

(* The LP supply of a stored row is the one that the chain had then, also  *)
(* for swaps, which do not carry it, after any restarts and replays; but   *)
(* for what missed an event of its pool, came in an order other than its   *)
(* signatures', follows a transaction that had failed, or follows a replay *)
(* that was given up.                                                      *)
LpSupplyRight ==
  \A e \in DOMAIN reserves :
    \/ reserves[e].lp_supply = Chain[e].lp
    \/ MissedBefore(e) \/ Scrambled(e) \/ Reverted(e) \/ Rewound(e)

(* The store keeps the promise of EventStore: whole events, in or after    *)
(* the commit that created their pool, each announced at most once.        *)
Store_ == INSTANCE EventStore WITH stored <- DOMAIN reserves, announced <- published
KeepsThePromise == Store_!Spec

(* The store catches up with the chain again and again, but for what was   *)
(* missed, whatever is cut or crashes meanwhile.                           *)
CatchesUp ==
  []<>(\A e \in Events :
         \/ Chain[e].slot > tip
         \/ e \in DOMAIN reserves
         \/ {Chain[e].slot, Chain[CreationOf(e)].slot} \cap missed # {})

-----------------------------------------------------------------------------
(* stream/writer.rs:67: "Don't advance the checkpoint; Laserstream replay  *)
(* on the next restart will re-process" a block whose write failed.        *)
FailedBlocksReplayable ==
  \A s \in missed :
    Batch(s) \subseteq DOMAIN reserves \/ s + REORG_BUFFER_SLOTS >= checkpoint
=============================================================================
