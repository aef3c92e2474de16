------------------------------ MODULE Wallets ------------------------------
(***************************************************************************)
(* A wallet function maps every user to an amount.  Its units are the      *)
(* pairs <<user, i>>, one for each unit that the user holds, so that the   *)
(* total of the wallets is a cardinality.                                  *)
(***************************************************************************)
EXTENDS Integers, FiniteSets

Units(wallet) == UNION {{u} \X (1..wallet[u]) : u \in DOMAIN wallet}
InWallets(wallet) == Cardinality(Units(wallet))
=============================================================================
