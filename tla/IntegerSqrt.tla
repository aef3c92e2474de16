---------------------------- MODULE IntegerSqrt ----------------------------
(***************************************************************************)
(* The Newton loop of math.rs integer_sqrt, one iteration per step.        *)
(* create_pool calls it on sol * tokens to find the first LP supply; the   *)
(* value it is used for there is PoolMath!integer_sqrt.                    *)
(***************************************************************************)
EXTENDS Integers

CONSTANT Inputs  \* the arguments to consider
ASSUME InputsAssumption == Inputs \subseteq Nat

VARIABLES n, x, y, pc
vars == <<n, x, y, pc>>

\* Mutant: rounds the mean up.
NextGuess_rounding_up(m, guess) == (guess + m \div guess + 1) \div 2
\* Mutant: halves the terms before it adds them.
NextGuess_halved_apart(m, guess) == guess \div 2 + (m \div guess) \div 2
(* One Newton step from a guess at the root of m.                          *)
NextGuess(m, guess) == (guess + m \div guess) \div 2

Init == n \in Inputs /\ x = 0 /\ y = 0 /\ pc = "enter"

Enter ==
  /\ pc = "enter"
  /\ IF n = 0 THEN pc' = "done" /\ UNCHANGED <<x, y>>
     ELSE pc' = "loop" /\ x' = n /\ y' = (n + 1) \div 2
  /\ UNCHANGED n

Iterate ==
  /\ pc = "loop" /\ y < x
  /\ x' = y
  /\ y' = NextGuess(n, y)
  /\ UNCHANGED <<n, pc>>

\* Mutant: stops only when the guess increases.
Return_after_increase ==
  /\ pc = "loop" /\ y > x
  /\ pc' = "done"
  /\ UNCHANGED <<n, x, y>>

Return ==
  /\ pc = "loop" /\ y >= x
  /\ pc' = "done"
  /\ UNCHANGED <<n, x, y>>

Next == Enter \/ Iterate \/ Return
Spec == Init /\ [][Next]_vars
FairSpec == Spec /\ WF_vars(Next)

-----------------------------------------------------------------------------
TypeOK ==
  /\ n \in Nat /\ x \in Nat /\ y \in Nat
  /\ pc \in {"enter", "loop", "done"}

(* What integer_sqrt returns is the floor of the square root.              *)
ReturnsFloorSqrt == pc = "done" => x * x <= n /\ n < (x + 1) * (x + 1)

(* Every guess overestimates: the loop cannot step below the root, which   *)
(* is why stopping at the first guess that does not decrease is right.     *)
NeverBelow == pc = "loop" => n < (x + 1) * (x + 1) /\ n < (y + 1) * (y + 1)

(* The loop ends for every argument.                                       *)
Terminates == <>(pc = "done")
=============================================================================
