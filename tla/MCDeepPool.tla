----------------------------- MODULE MCDeepPool -----------------------------
(***************************************************************************)
(* DeepPoolHistory bounded for TLC: at most MaxOps calls and slots up to   *)
(* MaxSlot.  Creators may create the pool, Traders call it afterwards.     *)
(***************************************************************************)
EXTENDS DeepPoolHistory

CONSTANTS Creators, Traders, MaxOps, MaxSlot,
          SolEach, TokEach   \* every wallet's endowment

VARIABLE ops  \* calls made so far

MCInit == HInit /\ ops = 0
MCNext ==
  \/ /\ created /\ HTick /\ slot' <= MaxSlot /\ UNCHANGED ops
  \/ /\ ops < MaxOps /\ ops' = ops + 1
     /\ \E u \in Users :
          /\ IF created THEN u \in Traders ELSE u \in Creators
          /\ HStep(u)
MCSpec == MCInit /\ [][MCNext]_<<hvars, ops>>

EachSol == [u \in Users |-> SolEach]
EachTok == [u \in Users |-> TokEach]

(* <<sol, tokens>> of create_pool                                          *)
BornBalanced == {<<36, 36>>}
BornSkewed == {<<40, 70>>, <<60, 24>>}
BornAny == BornBalanced \cup BornSkewed
=============================================================================
