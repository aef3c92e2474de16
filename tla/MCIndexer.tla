----------------------------- MODULE MCIndexer -----------------------------
EXTENDS Indexer

Event(slot, sig, ix, kind, pool, lp) ==
  [slot |-> slot, sig |-> sig, ix |-> ix, kind |-> kind, pool |-> pool, lp |-> lp,
   ok |-> TRUE]
Failed(event) == [event EXCEPT !.ok = FALSE]

(* Two pools.  The swaps of P come before a change of its supply in their  *)
(* block, in a later block, in the transaction that creates Q and then     *)
(* changes the supply of P, in the block after such a change, and after a  *)
(* change in their block.  The swap and the deposit of Q share a block and *)
(* have their signatures the other way round.  The block ends with a       *)
(* deposit that was reverted and a swap after it.  The slot after the      *)
(* first deposit is empty.                                                 *)
TwoPools == <<
  Event(4, 10, 0, "create", "P", 5),
  Event(5, 20, 0, "swap",   "P", 5),
  Event(5, 21, 0, "add",    "P", 8),
  Event(7, 30, 0, "create", "Q", 3),
  Event(7, 30, 1, "swap",   "P", 8),
  Event(7, 30, 2, "add",    "P", 9),
  Event(8, 38, 0, "swap",   "P", 9),
  Event(8, 40, 0, "swap",   "Q", 3),
  Event(8, 39, 0, "add",    "Q", 4),
  Event(8, 41, 0, "remove", "P", 6),
  Event(8, 42, 0, "swap",   "P", 6),
  Failed(Event(8, 50, 0, "add", "P", 7)),
  Event(8, 51, 0, "swap",   "P", 6)>>
=============================================================================
