--------------------------- MODULE MCSwapClients ----------------------------
(***************************************************************************)
(* SwapClients on the bounded instances of MCDeepPool: at most MaxOps      *)
(* calls of the program, those that the panel sends included, and the      *)
(* clients named in Active.                                                *)
(***************************************************************************)
EXTENDS MCDeepPool, SwapClients

CONSTANT Active

MCCInit == CInit /\ ops = 0
MCCNext ==
  \/ MCNext /\ UNCHANGED clients
  \/ /\ UNCHANGED ops
     /\ \/ "router" \in Active /\ update
        \/ "sdk" \in Active /\ (getAccountInfo \/ getTokenAccountBalance)
        \/ "panel" \in Active /\ \E a \in SwapAmounts, b \in BOOLEAN : ShowQuote(a, b)
  \/ /\ ops < MaxOps /\ ops' = ops + 1
     /\ \E u \in Traders : handleSwap(u)
MCCSpec == MCCInit /\ [][MCCNext]_<<cvars, ops>>
=============================================================================
