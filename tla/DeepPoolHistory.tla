-------------------------- MODULE DeepPoolHistory --------------------------
(***************************************************************************)
(* DeepPool with history variables: what the pool held when its present    *)
(* run of redemptions began, which spot prices it showed in each slot, and *)
(* over which slots the oracle skipped accumulation.  They only record;    *)
(* every step of this module is a step of DeepPool.                        *)
(***************************************************************************)
EXTENDS DeepPool

VARIABLES birth,   \* what the users held together right after create_pool
          base,    \* reserves and LP when the last step other than a redemption ended
          seen,    \* slot -> the spot prices the pool showed during it
          skipped  \* slots whose price the oracle did not accumulate

history == <<birth, base, seen, skipped>>
hvars == <<vars, history>>

Spot == price_q64(sol_reserve, vault)
Holdings == [sol |-> sol_reserve, tok |-> vault, supply |-> supply, locked |-> locked]

Purse == [sol |-> InWallets(sol), tok |-> InWallets(tok), lp |-> InWallets(lp)]

HInit ==
  /\ Init
  /\ birth = Purse
  /\ base = Holdings
  /\ seen = <<>>
  /\ skipped = {}

Shown(s) == IF s \in DOMAIN seen THEN seen[s] ELSE {}
(* What has been shown when `price` was shown in those slots too.          *)
ShownAlso(slots, price) ==
  [s \in DOMAIN seen \cup slots |->
     IF s \in slots THEN Shown(s) \cup {price} ELSE seen[s]]

(* A swap of a pool below the floor: record_observation moves              *)
(* last_cum_slot and accumulates nothing.                                  *)
Skips == last'.op \in {"buy", "sell"} /\ sol_reserve < MIN_SPOT_RESERVE

\* What a call records.
Recorded ==
  /\ birth' = IF created THEN birth ELSE Purse'
  /\ base' = IF last'.op = "remove" THEN base ELSE Holdings'
  /\ seen' = IF created' THEN ShownAlso({slot}, Spot') ELSE seen
  /\ skipped' = IF Skips THEN skipped \cup (oracle.last_cum_slot + 1)..slot ELSE skipped

HStep(u) == Step(u) /\ Recorded

HTick ==
  /\ Tick
  /\ seen' = IF created THEN ShownAlso((slot + 1)..slot', Spot) ELSE seen
  /\ UNCHANGED <<birth, base, skipped>>

HNext == HTick \/ \E u \in Users : HStep(u)
HSpec == HInit /\ [][HNext]_hvars

-----------------------------------------------------------------------------
(* docs/audit.md, the reserve floor: if a fraction x of the LP is locked,  *)
(* then after any sequence of redemptions the pool retains at least x of   *)
(* both reserves.                                                          *)
LockedFloor ==
  created => /\ sol_reserve * base.supply >= base.locked * base.sol
             /\ vault * base.supply >= base.locked * base.tok

(* No sequence of calls, by any number of users, takes value out of the    *)
(* pool: if the users together hold at least the tokens and the LP they    *)
(* held when the pool was born, they do not hold more SOL.                 *)
NoFreeLunch ==
  created /\ Purse.tok >= birth.tok /\ Purse.lp >= birth.lp => Purse.sol <= birth.sol

(* A mark is an average: it lies between two spot prices that the pool     *)
(* showed during the window, however the accumulators wrapped, the head    *)
(* was extended and the window's start was found.  The true integral of    *)
(* the window has to fit the accumulator, and no slot of the window may    *)
(* have been skipped.                                                      *)
MarkWithinSeen ==
  \A k \in Lookbacks :
    LET start == WindowStart(oracle, slot, k).slot
        prices == UNION {seen[s] : s \in start..slot}
    IN /\ Mark(k) # NoMark
       /\ \A p \in prices : p * (slot - start) < CUM_MOD
       /\ skipped \cap (start + 1)..slot = {}
       => \E low, high \in prices : low <= Mark(k) /\ Mark(k) <= high
=============================================================================
