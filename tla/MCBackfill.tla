----------------------------- MODULE MCBackfill -----------------------------
EXTENDS Backfill

Event(slot, sig, ix, kind, pool, lp) ==
  [slot |-> slot, sig |-> sig, ix |-> ix, kind |-> kind, pool |-> pool, lp |-> lp,
   ok |-> TRUE]
Tx(slot, sig) == [slot |-> slot, sig |-> sig]

(* P is created on the oldest page, changed there and swapped on newer     *)
(* ones; Q is created in a block that the live indexer may be the first to *)
(* store.  A transaction without events stands between.                    *)
TwoPools == <<
  Event(1, 10, 0, "create", "P", 5),
  Event(2, 20, 0, "add",    "P", 8),
  Event(3, 30, 0, "swap",   "P", 8),
  Event(4, 40, 0, "swap",   "P", 8),
  Event(4, 41, 0, "create", "Q", 3),
  Event(4, 41, 1, "swap",   "Q", 3),
  Event(4, 42, 0, "swap",   "Q", 3)>>
TwoPoolsHistory == <<Tx(1, 10), Tx(2, 20), Tx(3, 30), Tx(3, 31),
                     Tx(4, 40), Tx(4, 41), Tx(4, 42)>>
=============================================================================
