------------------------- MODULE IntegerSqrtProofs -------------------------
(***************************************************************************)
(* The Newton loop returns the floor of the root, for every argument.      *)
(***************************************************************************)
EXTENDS IntegerSqrt, TLAPS

(* Quotient and remainder, the only facts about \div that are used.        *)
LEMMA DivFacts ==
  ASSUME NEW a \in Nat, NEW b \in Nat \ {0}
  PROVE  /\ a \div b \in Nat
         /\ b * (a \div b) <= a
         /\ a < b * (a \div b) + b
  OBVIOUS

(* Products, and with them squares, are monotone.                          *)
LEMMA ProductsGrow ==
  ASSUME NEW a \in Nat, NEW b \in Nat, NEW c \in Nat, NEW d \in Nat, a <= b, c <= d
  PROVE  a * c <= b * d
<1>1. a * c <= b * c
  OBVIOUS
<1>2. b * c <= b * d
  OBVIOUS
<1> QED BY <1>1, <1>2

LEMMA SquaresGrow ==
  ASSUME NEW a \in Nat, NEW b \in Nat, a <= b
  PROVE  a * a <= b * b
BY ProductsGrow

(* The inductive invariant: inside the loop the pair of guesses is a       *)
(* positive overestimate and its Newton step, so that y >= x can only mean *)
(* that x squared does not exceed n.                                       *)
IInv ==
  /\ TypeOK
  /\ pc = "enter" => x = 0
  /\ pc = "loop" => /\ n > 0 /\ x > 0 /\ y > 0
                    /\ y = NextGuess(n, x)
                    /\ n < (x + 1) * (x + 1)
  /\ ReturnsFloorSqrt

(* Newton steps do not undershoot: the arithmetic mean of a guess and n    *)
(* divided by it is at least the geometric mean, which is the root.        *)
LEMMA NewtonOverestimates ==
  ASSUME NEW m \in Nat \ {0}, NEW g \in Nat \ {0}
  PROVE  LET h == (g + m \div g) \div 2
         IN  h \in Nat /\ m < (h + 1) * (h + 1)
<1> DEFINE q == m \div g
           h == (g + q) \div 2
<1>1. q \in Nat /\ m < g * q + g
  BY DivFacts
<1>2. h \in Nat /\ g + q < 2 * h + 2
  <2> HIDE DEF q
  <2> QED BY <1>1, DivFacts
<1> HIDE DEF q, h
<1>3. (g + q + 1) * (g + q + 1) <= (2 * h + 2) * (2 * h + 2)
  <2> DEFINE s == g + q + 1
             t == 2 * h + 2
  <2>1. s \in Nat /\ t \in Nat /\ s <= t
    BY <1>1, <1>2
  <2> HIDE DEF s, t
  <2>2. s * s <= t * t
    BY <2>1
  <2> QED BY <2>2 DEF s, t
<1>4. 4 * (g * (q + 1)) <= (g + q + 1) * (g + q + 1)
  <2>1. 0 <= (g - (q + 1)) * (g - (q + 1))
    BY <1>1
  <2> QED BY <1>1, <2>1
<1>5. m < g * (q + 1)
  BY <1>1
<1>6. 4 * m < 4 * ((h + 1) * (h + 1))
  BY <1>1, <1>2, <1>3, <1>4, <1>5
<1> QED BY <1>2, <1>6 DEF h, q

LEMMA InitIInv == Init => IInv
  BY InputsAssumption DEF Init, IInv, TypeOK, ReturnsFloorSqrt

LEMMA StepIInv == IInv /\ [Next]_vars => IInv'
<1> SUFFICES ASSUME IInv, [Next]_vars
             PROVE  IInv'
  OBVIOUS
<1> USE DEF IInv, TypeOK, ReturnsFloorSqrt
<1>1. CASE Enter
  <2>1. CASE n = 0
    BY <1>1, <2>1 DEF Enter
  <2>2. CASE n # 0
    <3>1. n \div n = 1
      BY <2>2, DivFacts
    <3>2. y' = NextGuess(n', x') /\ x' = n /\ n' = n /\ pc' = "loop"
      BY <1>1, <2>2, <3>1 DEF Enter, NextGuess
    <3>3. y' \in Nat /\ y' > 0
      BY <1>1, <2>2 DEF Enter
    <3>4. n < (n + 1) * (n + 1)
      BY <2>2
    <3> QED BY <2>2, <3>2, <3>3, <3>4
  <2> QED BY <2>1, <2>2
<1>2. CASE Iterate
  <2>1. x' = y /\ y' = NextGuess(n, y) /\ n' = n /\ pc' = "loop" /\ pc = "loop"
    BY <1>2 DEF Iterate
  <2>2. n < (y + 1) * (y + 1)
    BY <2>1, NewtonOverestimates DEF NextGuess
  <2>3. NextGuess(n, y) \in Nat
    BY <2>1, NewtonOverestimates DEF NextGuess
  <2>4. NextGuess(n, y) > 0
    <3>1. n \div y \in Nat /\ n < y * (n \div y) + y
      <4>1. n \in Nat /\ y \in Nat \ {0}
        BY <2>1
      <4> HIDE DEF IInv
      <4> QED BY <4>1, DivFacts
    <3>2. CASE y = 1
      <4>1. n \div y >= 1
        BY <2>1, <3>1, <3>2
      <4> QED BY <3>1, <3>2, <4>1 DEF NextGuess
    <3>3. CASE y > 1
      BY <3>1, <3>3 DEF NextGuess
    <3> QED BY <2>1, <3>2, <3>3
  <2> QED BY <2>1, <2>2, <2>3, <2>4
<1>3. CASE Return
  <2>1. x' = x /\ n' = n /\ y' = y /\ pc' = "done" /\ pc = "loop" /\ y >= x
    BY <1>3 DEF Return
  <2>2. n \div x \in Nat /\ x * (n \div x) <= n
    BY <2>1, DivFacts
  <2>3. n \div x >= x
    BY <2>1, <2>2 DEF NextGuess
  <2>4. x * x <= x * (n \div x)
    BY <2>2, <2>3
  <2>5. x * x <= n
    BY <2>2, <2>4
  <2> QED BY <2>1, <2>5
<1>4. CASE UNCHANGED vars
  BY <1>4 DEF vars, NextGuess
<1> QED BY <1>1, <1>2, <1>3, <1>4 DEF Next

(* integer_sqrt (math.rs:105-117) is right for every n: when the loop      *)
(* stops, x is the floor of the square root.                               *)
THEOREM SqrtCorrect == Spec => []ReturnsFloorSqrt
<1>1. IInv => ReturnsFloorSqrt
  BY DEF IInv
<1> QED BY <1>1, InitIInv, StepIInv, PTL DEF Spec

(* No guess of the loop falls below the root (the reason that the first    *)
(* guess that does not decrease is the answer).                            *)
THEOREM SqrtNeverBelow == Spec => []NeverBelow
<1>1. IInv => NeverBelow
  <2> SUFFICES ASSUME IInv, pc = "loop"
               PROVE  n < (x + 1) * (x + 1) /\ n < (y + 1) * (y + 1)
    BY DEF NeverBelow
  <2> QED BY NewtonOverestimates DEF IInv, TypeOK, NextGuess
<1> QED BY <1>1, InitIInv, StepIInv, PTL DEF Spec

(* Each iteration at least halves the distance to the root, whatever the   *)
(* argument: after as many iterations as it has bits, 128 at most, the     *)
(* guess is the root.                                                      *)
THEOREM DistanceHalves ==
  Spec => [][pc = "loop" /\ pc' = "loop" =>
               \A r \in Nat : r * r <= n /\ n < (r + 1) * (r + 1) =>
                 r <= x' /\ 2 * (x' - r) <= x - r]_vars
<1>1. ASSUME IInv, [Next]_vars, pc = "loop", pc' = "loop", x' # x,
             NEW r \in Nat, r * r <= n, n < (r + 1) * (r + 1)
      PROVE  r <= x' /\ 2 * (x' - r) <= x - r
  <2> DEFINE q == n \div x
  <2>1. /\ n \in Nat \ {0} /\ x \in Nat \ {0} /\ y \in Nat
        /\ y = (x + q) \div 2
    BY <1>1 DEF IInv, TypeOK, NextGuess
  <2>2. x' = y /\ y < x
    BY <1>1 DEF Next, Enter, Iterate, Return, vars
  <2>3. n < (y + 1) * (y + 1)
    BY <2>1, NewtonOverestimates
  <2>4. r <= y
    <3>1. SUFFICES ASSUME y + 1 <= r PROVE FALSE
      BY <2>1
    <3>2. (y + 1) * (y + 1) <= r * r
      BY <2>1, <3>1, SquaresGrow
    <3> QED BY <1>1, <2>1, <2>3, <3>2
  <2>5. q \in Nat /\ x * q <= n
    BY <2>1, DivFacts
  <2> HIDE DEF q
  <2>6. q <= r
    <3>1. SUFFICES ASSUME r + 1 <= q PROVE FALSE
      BY <2>5
    <3>2. r + 1 <= x
      BY <2>1, <2>2, <2>4
    <3>3. (r + 1) * (r + 1) <= x * q
      BY <2>1, <2>5, <3>1, <3>2, ProductsGrow
    <3> QED BY <1>1, <2>1, <2>5, <3>3
  <2>7. 2 * y <= x + q
    BY <2>1, <2>5, DivFacts
  <2> QED BY <2>1, <2>2, <2>4, <2>5, <2>6, <2>7
<1>2. IInv /\ [Next]_vars =>
        [pc = "loop" /\ pc' = "loop" =>
           \A r \in Nat : r * r <= n /\ n < (r + 1) * (r + 1) =>
             r <= x' /\ 2 * (x' - r) <= x - r]_vars
  <2> SUFFICES ASSUME IInv, Next, ~(UNCHANGED vars), pc = "loop", pc' = "loop",
                      NEW r \in Nat, r * r <= n, n < (r + 1) * (r + 1)
               PROVE  r <= x' /\ 2 * (x' - r) <= x - r
    OBVIOUS
  <2>1. x' # x
    BY DEF IInv, TypeOK, Next, Enter, Iterate, Return, vars
  <2> QED BY <1>1, <2>1
<1> QED BY <1>2, InitIInv, StepIInv, PTL DEF Spec
=============================================================================
