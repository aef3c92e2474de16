----------------------------- MODULE EventStore -----------------------------
(***************************************************************************)
(* What the indexer's database promises, whoever writes to it (the live    *)
(* writer or the backfill).  A commit stores some new events, whole, those *)
(* of a pool never without the pool's creation; they are announced to the  *)
(* subscribers at most once and never before they are stored.  Nothing     *)
(* stored is ever removed.                                                 *)
(***************************************************************************)
EXTENDS Naturals

CONSTANTS Events,        \* the events of the chain
          CreationOf(_)  \* the event that created the pool of an event

VARIABLES stored,    \* the events that have a row
          announced  \* how often the row of each event was broadcast

Init == stored = {} /\ announced = [e \in Events |-> 0]

Commit(new) ==
  /\ new \subseteq Events
  /\ stored' = stored \cup new
  /\ \A e \in new : CreationOf(e) \in stored'
  /\ \/ announced' = [e \in Events |-> announced[e] + (IF e \in new THEN 1 ELSE 0)]
     \/ UNCHANGED announced

Next == Commit(stored' \ stored)
Spec == Init /\ [][Next]_<<stored, announced>>

-----------------------------------------------------------------------------
(* A row is broadcast at most once, and only if it is stored.              *)
AnnouncedOnce == \A e \in Events : announced[e] <= (IF e \in stored THEN 1 ELSE 0)

(* A pool's creation is stored no later than any other event of the pool.  *)
CreationFirst == \A e \in stored : CreationOf(e) \in stored
=============================================================================
