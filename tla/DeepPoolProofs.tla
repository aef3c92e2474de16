--------------------------- MODULE DeepPoolProofs ---------------------------
(***************************************************************************)
(* Theorems about DeepPool for every set of users, every wallet, every     *)
(* transfer fee and every set of arguments that callers may pass.          *)
(*                                                                         *)
(* There is one inductive invariant, IInv.  Type correctness needs the LP  *)
(* accounting (a redemption subtracts from the supply what it takes from   *)
(* one wallet, which is known to be enough only because the supply is the  *)
(* sum of the wallets and the lock), and the two need the pool to be       *)
(* alive (prices divide by the reserves), so they are proved together.     *)
(***************************************************************************)
EXTENDS DeepPool, PoolMathProofs, FiniteSetTheorems, TLAPS

LpInv ==
  /\ supply \in Nat /\ locked \in Nat
  /\ lp \in [Users -> Nat] /\ IsFiniteSet(Units(lp))
  /\ LpAccounted
Unborn == ~created => supply = 0 /\ vault = 0 /\ locked = 0
Alive == created => lamports > RENT /\ vault > 0 /\ locked > 0
Sound == TypeOK /\ LpInv /\ Unborn /\ Alive
IInv == Sound /\ BackedSupply

(* What a step does to the worth of a share: a swap keeps the supply and   *)
(* does not lower the product of the reserves; anything else keeps at      *)
(* least as much of each reserve per unit of LP.                           *)
Swapped == supply' = supply /\ sol_reserve' * vault' >= sol_reserve * vault
Kept == /\ sol_reserve' * supply >= sol_reserve * supply'
        /\ vault' * supply >= vault * supply'

-----------------------------------------------------------------------------
(* Crediting and debiting one wallet changes the total by that amount.  A  *)
(* sum over the users would need induction on the set of users; the block  *)
(* of units that one user gains or loses does not.                         *)

LEMMA BlockCardinality ==
  ASSUME NEW u, NEW a \in Nat, NEW b \in Nat, a <= b
  PROVE  /\ IsFiniteSet({u} \X ((a + 1)..b))
         /\ Cardinality({u} \X ((a + 1)..b)) = b - a
<1> DEFINE I == (a + 1)..b
           B == {u} \X I
           f == [i \in I |-> <<u, i>>]
<1>1. IsFiniteSet(I) /\ Cardinality(I) = b - a
  <2>1. a + 1 \in Int /\ b \in Int
    OBVIOUS
  <2>2. IsFiniteSet(I) /\ Cardinality(I) = IF a + 1 > b THEN 0 ELSE b - (a + 1) + 1
    BY <2>1, FS_Interval
  <2> HIDE DEF I
  <2> QED BY <2>2
<1>2. ExistsBijection(I, B)
  <2> HIDE DEF I
  <2>1. f \in [I -> B] /\ \A i \in I : f[i] = <<u, i>>
    OBVIOUS
  <2>2. \A i, j \in I : f[i] = f[j] => i = j
    BY <2>1
  <2>3. \A p \in B : \E i \in I : f[i] = p
    OBVIOUS
  <2> HIDE DEF f, B
  <2>4. f \in Bijection(I, B)
    BY <2>1, <2>2, <2>3 DEF Bijection, Injection, Surjection, IsInjective
  <2> QED BY <2>4 DEF ExistsBijection
<1> HIDE DEF I, B
<1>3. IsFiniteSet(B) /\ Cardinality(B) = b - a
  BY <1>1, <1>2, FS_Bijection
<1> QED BY <1>3 DEF I, B

LEMMA UnitsMember ==
  ASSUME NEW U, NEW w \in [U -> Nat], NEW u, NEW i
  PROVE  <<u, i>> \in Units(w) <=> u \in U /\ i \in 1..w[u]
<1>1. DOMAIN w = U
  OBVIOUS
<1> QED BY <1>1 DEF Units

LEMMA UnitsPairs ==
  ASSUME NEW U, NEW w \in [U -> Nat], NEW p \in Units(w)
  PROVE  \E u \in U, i \in Nat : p = <<u, i>>
<1>1. DOMAIN w = U
  OBVIOUS
<1> QED BY <1>1 DEF Units

LEMMA UnitsCredited ==
  ASSUME NEW U, NEW w \in [U -> Nat], NEW v \in [U -> Nat],
         NEW u \in U, NEW k \in Nat,
         v[u] = w[u] + k, \A x \in U \ {u} : v[x] = w[x],
         IsFiniteSet(Units(w))
  PROVE  IsFiniteSet(Units(v)) /\ InWallets(v) = InWallets(w) + k
<1> DEFINE B == {u} \X ((w[u] + 1)..(w[u] + k))
<1>1. w[u] \in Nat /\ v[u] \in Nat /\ w[u] + k \in Nat /\ w[u] <= w[u] + k
  OBVIOUS
<1>2. IsFiniteSet(B) /\ Cardinality(B) = k
  <2>1. Cardinality(B) = (w[u] + k) - w[u] /\ IsFiniteSet(B)
    BY <1>1, BlockCardinality
  <2> HIDE DEF B
  <2> QED BY <1>1, <2>1
<1>3. ASSUME NEW x, NEW i
      PROVE  <<x, i>> \in Units(v) <=> <<x, i>> \in Units(w) \/ <<x, i>> \in B
  <2>1. <<x, i>> \in B <=> x = u /\ i \in (w[u] + 1)..(w[u] + k)
    OBVIOUS
  <2>2. i \in 1..(w[u] + k) <=> i \in 1..w[u] \/ i \in (w[u] + 1)..(w[u] + k)
    BY <1>1
  <2> HIDE DEF B
  <2>3. CASE x = u
    BY <2>1, <2>2, <2>3, UnitsMember
  <2>4. CASE x # u
    BY <2>1, <2>4, UnitsMember
  <2> QED BY <2>3, <2>4
<1>4. ASSUME NEW p \in B PROVE \E x, i : p = <<x, i>>
  BY <1>4
<1>5. Units(w) \cap B = {}
  <2> SUFFICES ASSUME NEW i \in (w[u] + 1)..(w[u] + k), <<u, i>> \in Units(w)
               PROVE  FALSE
    OBVIOUS
  <2>1. i \in 1..w[u]
    BY UnitsMember
  <2> QED BY <1>1, <2>1
<1> HIDE DEF B
<1>6. Units(v) = Units(w) \cup B
  <2>1. \A p : p \in Units(v) => p \in Units(w) \cup B
    BY <1>3, UnitsPairs
  <2>2. \A p : p \in Units(w) => p \in Units(v)
    BY <1>3, UnitsPairs
  <2>3. \A p : p \in B => p \in Units(v)
    BY <1>3, <1>4
  <2> QED BY <2>1, <2>2, <2>3
<1>7. /\ IsFiniteSet(Units(w) \cup B)
      /\ Cardinality(Units(w) \cup B)
           = Cardinality(Units(w)) + Cardinality(B) - Cardinality(Units(w) \cap B)
  BY <1>2, FS_Union
<1>8. Cardinality(Units(w) \cap B) = 0 /\ Cardinality(Units(w)) \in Nat
  BY <1>5, FS_EmptySet, FS_CardinalityType
<1> QED BY <1>2, <1>6, <1>7, <1>8 DEF InWallets

(* A user's wallet is part of the total.                                   *)
LEMMA UnitsBound ==
  ASSUME NEW U, NEW w \in [U -> Nat], NEW u \in U, IsFiniteSet(Units(w))
  PROVE  InWallets(w) \in Nat /\ w[u] <= InWallets(w)
<1> DEFINE B == {u} \X ((0 + 1)..w[u])
<1>1. w[u] \in Nat /\ 0 <= w[u]
  OBVIOUS
<1>2. Cardinality(B) = w[u] - 0
  BY <1>1, BlockCardinality
<1>3. B \subseteq Units(w)
  <2> SUFFICES ASSUME NEW i \in (0 + 1)..w[u] PROVE <<u, i>> \in Units(w)
    OBVIOUS
  <2>1. i \in 1..w[u]
    OBVIOUS
  <2> QED BY <2>1, UnitsMember
<1> HIDE DEF B
<1>4. Cardinality(B) <= Cardinality(Units(w)) /\ Cardinality(Units(w)) \in Nat
  BY <1>3, FS_Subset, FS_CardinalityType
<1> QED BY <1>1, <1>2, <1>4 DEF InWallets

LEMMA UnitsDebited ==
  ASSUME NEW U, NEW w \in [U -> Nat], NEW v \in [U -> Nat],
         NEW u \in U, NEW k \in Nat,
         w[u] = v[u] + k, \A x \in U \ {u} : v[x] = w[x],
         IsFiniteSet(Units(w))
  PROVE  IsFiniteSet(Units(v)) /\ InWallets(v) = InWallets(w) - k
<1>1. ASSUME NEW x, NEW i, <<x, i>> \in Units(v) PROVE <<x, i>> \in Units(w)
  <2>1. x \in U /\ i \in 1..v[x]
    BY <1>1, UnitsMember
  <2>2. v[x] \in Nat /\ w[x] \in Nat /\ v[x] <= w[x]
    BY <2>1
  <2>3. i \in 1..w[x]
    BY <2>1, <2>2
  <2> QED BY <2>1, <2>3, UnitsMember
<1>2. Units(v) \subseteq Units(w)
  BY <1>1, UnitsPairs
<1>3. IsFiniteSet(Units(v))
  BY <1>2, FS_Subset
<1>4. InWallets(w) = InWallets(v) + k
  BY <1>3, UnitsCredited
<1>5. InWallets(v) \in Nat
  BY <1>3, UnitsBound
<1> QED BY <1>3, <1>4, <1>5

(* Empty wallets hold nothing.                                             *)
LEMMA UnitsEmpty ==
  ASSUME NEW U, NEW w \in [U -> Nat], \A u \in U : w[u] = 0
  PROVE  IsFiniteSet(Units(w)) /\ InWallets(w) = 0
<1>1. ASSUME NEW p \in Units(w) PROVE FALSE
  <2>1. PICK u \in U, i \in Nat : p = <<u, i>>
    BY <1>1, UnitsPairs
  <2>2. i \in 1..w[u] /\ w[u] = 0
    BY <2>1, UnitsMember
  <2> QED BY <2>2
<1>2. Units(w) = {}
  BY <1>1
<1> QED BY <1>2, FS_EmptySet DEF InWallets

-----------------------------------------------------------------------------
(* What the account operations do to the types.                            *)

LEMMA NetRange ==
  ASSUME NEW amount \in Nat
  PROVE  TransferFee(amount) \in 0..amount /\ Net(amount) \in 0..amount
<1> DEFINE c == CeilDiv(amount * TRANSFER_FEE_BPS, 10000)
<1>1. amount * TRANSFER_FEE_BPS \in Nat /\ amount * TRANSFER_FEE_BPS <= amount * 10000
  BY PoolAssumption, MulMono, MulPos
<1>2. c \in Nat /\ 10000 * c < amount * TRANSFER_FEE_BPS + 10000
  BY <1>1, CeilDivBound
<1> HIDE DEF c
<1>3. c <= amount
  BY <1>1, <1>2
<1>4. TransferFee(amount) = IF c <= MAX_TRANSFER_FEE THEN c ELSE MAX_TRANSFER_FEE
  BY DEF TransferFee, Smaller, c
<1>5. TransferFee(amount) \in 0..amount
  BY <1>2, <1>3, <1>4, PoolAssumption
<1> QED BY <1>5 DEF Net

LEMMA DepositTokensType ==
  ASSUME TypeOK, NEW u \in Users, NEW a \in Nat, DepositTokens(u, a)
  PROVE  /\ tok' \in [Users -> Nat] /\ vault' \in Nat /\ withheld' \in Nat
         /\ vault' = vault + Net(a)
<1>1. tok[u] \in Nat /\ a <= tok[u]
  BY DEF TypeOK, DepositTokens
<1>2. tok' \in [Users -> Nat]
  BY <1>1 DEF TypeOK, DepositTokens
<1>3. TransferFee(a) \in Nat /\ Net(a) \in Nat
  BY NetRange
<1> QED BY <1>2, <1>3 DEF TypeOK, DepositTokens

LEMMA PayTokensType ==
  ASSUME TypeOK, NEW u \in Users, NEW a \in Nat, a <= vault, PayTokens(u, a)
  PROVE  /\ tok' \in [Users -> Nat] /\ vault' \in Nat /\ withheld' \in Nat
         /\ vault' = vault - a
<1>1. TransferFee(a) \in Nat /\ Net(a) \in Nat
  BY NetRange
<1>2. tok' \in [Users -> Nat]
  BY <1>1 DEF TypeOK, PayTokens
<1> QED BY <1>1, <1>2 DEF TypeOK, PayTokens

LEMMA DepositSolType ==
  ASSUME TypeOK, NEW u \in Users, NEW a \in Nat, DepositSol(u, a)
  PROVE  /\ sol' \in [Users -> Nat] /\ lamports' \in Nat
         /\ lamports' = lamports + a
<1>1. sol[u] \in Nat /\ a <= sol[u]
  BY DEF TypeOK, DepositSol
<1> QED BY <1>1 DEF TypeOK, DepositSol

LEMMA PaySolType ==
  ASSUME TypeOK, NEW u \in Users, NEW a \in Nat, a <= lamports, PaySol(u, a)
  PROVE  /\ sol' \in [Users -> Nat] /\ lamports' \in Nat
         /\ lamports' = lamports - a
BY DEF TypeOK, PaySol

LEMMA MintLpInv ==
  ASSUME LpInv, NEW u \in Users, NEW a \in Nat, NEW b \in Nat, b <= a, MintLp(u, a, b)
  PROVE  LpInv' /\ locked' >= locked
<1>1. /\ supply \in Nat /\ locked \in Nat /\ lp \in [Users -> Nat]
      /\ IsFiniteSet(Units(lp)) /\ supply = locked + InWallets(lp)
  BY DEF LpInv, LpAccounted
<1>2. supply' = supply + a /\ locked' = locked + b /\ lp' = [lp EXCEPT ![u] = @ + (a - b)]
  BY DEF MintLp
<1>3. a - b \in Nat
  OBVIOUS
<1>4. /\ lp' \in [Users -> Nat]
      /\ lp'[u] = lp[u] + (a - b)
      /\ \A x \in Users \ {u} : lp'[x] = lp[x]
  BY <1>1, <1>2, <1>3
<1>5. IsFiniteSet(Units(lp')) /\ InWallets(lp') = InWallets(lp) + (a - b)
  BY <1>1, <1>3, <1>4, UnitsCredited
<1>6. InWallets(lp) \in Nat
  BY <1>1, UnitsBound
<1> QED BY <1>1, <1>2, <1>4, <1>5, <1>6 DEF LpInv, LpAccounted

(* The debit side of a burn or a transfer of LP.                           *)
LEMMA LpDebited ==
  ASSUME LpInv, NEW v \in [Users -> Nat], NEW u \in Users, NEW a \in Nat,
         lp[u] = v[u] + a, \A x \in Users \ {u} : v[x] = lp[x]
  PROVE  /\ IsFiniteSet(Units(v))
         /\ InWallets(v) = InWallets(lp) - a
         /\ InWallets(lp) \in Nat /\ a <= InWallets(lp)
<1>1. lp \in [Users -> Nat] /\ lp[u] \in Nat /\ v[u] \in Nat /\ IsFiniteSet(Units(lp))
  BY DEF LpInv
<1>2. InWallets(lp) \in Nat /\ lp[u] <= InWallets(lp)
  BY <1>1, UnitsBound
<1>3. IsFiniteSet(Units(v)) /\ InWallets(v) = InWallets(lp) - a
  BY <1>1, UnitsDebited
<1> QED BY <1>1, <1>2, <1>3

LEMMA BurnLpInv ==
  ASSUME LpInv, NEW u \in Users, NEW a \in Nat, BurnLp(u, a)
  PROVE  LpInv' /\ locked' = locked /\ supply' = supply - a /\ a <= supply - locked
<1>1. /\ a <= lp[u] /\ lp' = [lp EXCEPT ![u] = @ - a]
      /\ supply' = supply - a /\ locked' = locked
  BY DEF BurnLp
<1>2. /\ lp' \in [Users -> Nat] /\ lp[u] = lp'[u] + a
      /\ \A x \in Users \ {u} : lp'[x] = lp[x]
  BY <1>1 DEF LpInv
<1>3. /\ IsFiniteSet(Units(lp')) /\ InWallets(lp') = InWallets(lp) - a
      /\ InWallets(lp) \in Nat /\ a <= InWallets(lp)
  BY <1>2, LpDebited
<1>4. supply \in Nat /\ locked \in Nat /\ supply = locked + InWallets(lp)
  BY DEF LpInv, LpAccounted
<1> QED BY <1>1, <1>2, <1>3, <1>4 DEF LpInv, LpAccounted

LEMMA LpToPoolInv ==
  ASSUME LpInv, NEW u \in Users, NEW a \in Nat, lp_to_pool(u, a)
  PROVE  LpInv' /\ locked' >= locked
<1>1. /\ a <= lp[u] /\ lp' = [lp EXCEPT ![u] = @ - a]
      /\ supply' = supply /\ locked' = locked + a
  BY DEF lp_to_pool, LpInv
<1>2. /\ lp' \in [Users -> Nat] /\ lp[u] = lp'[u] + a
      /\ \A x \in Users \ {u} : lp'[x] = lp[x]
  BY <1>1 DEF LpInv
<1>3. /\ IsFiniteSet(Units(lp')) /\ InWallets(lp') = InWallets(lp) - a
      /\ InWallets(lp) \in Nat /\ a <= InWallets(lp)
  BY <1>2, LpDebited
<1>4. supply \in Nat /\ locked \in Nat /\ supply = locked + InWallets(lp)
  BY DEF LpInv, LpAccounted
<1> QED BY <1>1, <1>2, <1>3, <1>4 DEF LpInv, LpAccounted

LEMMA LpTransferInv ==
  ASSUME LpInv, NEW u \in Users, NEW v \in Users, NEW a \in Nat, lp_transfer(u, v, a)
  PROVE  LpInv' /\ locked' = locked
<1>1. /\ u # v /\ a <= lp[u] /\ supply' = supply /\ locked' = locked
      /\ lp' = [lp EXCEPT ![u] = @ - a, ![v] = @ + a]
  BY DEF lp_transfer
<1>2. /\ lp \in [Users -> Nat] /\ lp[u] \in Nat /\ lp[v] \in Nat
      /\ IsFiniteSet(Units(lp))
  BY DEF LpInv
<1> DEFINE w == [lp EXCEPT ![u] = @ - a]
<1>3. /\ w \in [Users -> Nat] /\ lp[u] = w[u] + a
      /\ \A x \in Users \ {u} : w[x] = lp[x]
  BY <1>1, <1>2
<1>4. /\ lp' \in [Users -> Nat] /\ lp'[v] = w[v] + a
      /\ \A x \in Users \ {v} : lp'[x] = w[x]
  BY <1>1, <1>2
<1> HIDE DEF w
<1>5. IsFiniteSet(Units(w)) /\ InWallets(w) = InWallets(lp) - a
  BY <1>2, <1>3, UnitsDebited
<1>6. IsFiniteSet(Units(lp')) /\ InWallets(lp') = InWallets(w) + a
  BY <1>3, <1>4, <1>5, UnitsCredited
<1>7. InWallets(lp) \in Nat
  BY <1>2, UnitsBound
<1> QED BY <1>1, <1>4, <1>5, <1>6, <1>7 DEF LpInv, LpAccounted

-----------------------------------------------------------------------------
(* The oracle keeps its type.                                              *)

LEMMA PriceType ==
  ASSUME NEW a \in Nat, NEW b \in Nat \ {0}
  PROVE  price_q64(a, b) \in Nat
<1>1. a * PRICE_ONE \in Nat
  BY OracleAssumption, MulPos
<1> QED BY <1>1, DivFacts DEF price_q64

LEMMA AccumulateType ==
  ASSUME NEW c \in Nat, NEW p \in Nat, NEW d \in Nat
  PROVE  accumulate_price(c, p, d) \in Cum
<1>1. c + p * d \in Nat
  BY MulPos
<1> QED BY <1>1, ModFacts, OracleAssumption DEF accumulate_price, Cum

LEMMA InitOracleType ==
  ASSUME NEW now \in Nat
  PROVE  init_oracle(now) \in Oracle
<1>1. 0 \in Cum /\ 0 \in Index
  BY OracleAssumption DEF Cum, Index
<1>2. Unwritten \in Observation
  BY <1>1 DEF Unwritten, Observation
<1> QED BY <1>1, <1>2 DEF init_oracle, Oracle

LEMMA WriteObservationType ==
  ASSUME NEW o \in Oracle, NEW now \in Nat
  PROVE  write_observation(o, now) \in Oracle
<1>1. /\ o.cum_sol_per_tok \in Cum /\ o.cum_tok_per_sol \in Cum
      /\ o.last_cum_slot \in Nat /\ o.observations \in [Index -> Observation]
      /\ o.obs_head \in Index
  BY DEF Oracle
<1> DEFINE e == [slot |-> now, cum_sol_per_tok |-> o.cum_sol_per_tok,
                 cum_tok_per_sol |-> o.cum_tok_per_sol]
           h == (o.obs_head + 1) % TWAP_RING_SIZE
<1>2. e \in Observation
  BY <1>1 DEF Observation
<1>3. h \in Index
  BY <1>1, ModFacts, OracleAssumption DEF Index
<1>4. write_observation(o, now)
        = [o EXCEPT !.observations = [o.observations EXCEPT ![o.obs_head] = e],
                    !.obs_head = h]
  BY <1>1 DEF write_observation, Oracle
<1> HIDE DEF e, h
<1>5. [o.observations EXCEPT ![o.obs_head] = e] \in [Index -> Observation]
  BY <1>1, <1>2
<1> QED BY <1>1, <1>3, <1>4, <1>5 DEF Oracle

LEMMA AccumulatedType ==
  ASSUME NEW o \in Oracle, NEW a \in Nat \ {0}, NEW b \in Nat \ {0}, NEW now \in Nat,
         o.last_cum_slot <= now
  PROVE  Accumulated(o, a, b, now) \in Oracle
<1> DEFINE d == now - o.last_cum_slot
<1>1. /\ o.cum_sol_per_tok \in Cum /\ o.cum_tok_per_sol \in Cum
      /\ o.last_cum_slot \in Nat
  BY DEF Oracle
<1>2. d \in Nat
  BY <1>1
<1>3. o.cum_sol_per_tok \in Nat /\ o.cum_tok_per_sol \in Nat
  BY <1>1, OracleAssumption DEF Cum
<1>4. price_q64(a, b) \in Nat /\ price_q64(b, a) \in Nat
  BY PriceType
<1>5. /\ accumulate_price(o.cum_sol_per_tok, price_q64(a, b), d) \in Cum
      /\ accumulate_price(o.cum_tok_per_sol, price_q64(b, a), d) \in Cum
  BY <1>2, <1>3, <1>4, AccumulateType
<1>6. Accumulated(o, a, b, now)
        = [o EXCEPT !.cum_sol_per_tok =
                      accumulate_price(o.cum_sol_per_tok, price_q64(a, b), d),
                    !.cum_tok_per_sol =
                      accumulate_price(o.cum_tok_per_sol, price_q64(b, a), d),
                    !.last_cum_slot = now]
  BY DEF Accumulated, Oracle
<1> HIDE DEF d
<1> QED BY <1>5, <1>6 DEF Oracle

LEMMA RecordObservationType ==
  ASSUME NEW o \in Oracle, NEW a \in Nat \ {0}, NEW b \in Nat \ {0}, NEW now \in Nat
  PROVE  record_observation(o, a, b, now) \in Oracle
<1> DEFINE acc == Accumulated(o, a, b, now)
<1>1. o.last_cum_slot \in Nat
  BY DEF Oracle
<1>2. CASE now <= o.last_cum_slot
  BY <1>2 DEF record_observation
<1>3. CASE now > o.last_cum_slot
  <2>1. acc \in Oracle
    BY <1>1, <1>3, AccumulatedType
  <2>2. write_observation(acc, now) \in Oracle
    BY <2>1, WriteObservationType
  <2>3. [o EXCEPT !.last_cum_slot = now] \in Oracle
    BY DEF Oracle
  <2>4. record_observation(o, a, b, now) \in
          {[o EXCEPT !.last_cum_slot = now], acc, write_observation(acc, now)}
    <3> HIDE DEF acc
    <3>1. ~(now <= o.last_cum_slot)
      BY <1>1, <1>3
    <3> QED BY <3>1 DEF record_observation, acc
  <2> QED BY <2>1, <2>2, <2>3, <2>4
<1> QED BY <1>1, <1>2, <1>3

-----------------------------------------------------------------------------
(* One lemma per operation: it keeps Sound, does not unlock, and does not  *)
(* lower the worth of a share.                                             *)

LEMMA AliveFacts ==
  ASSUME Sound, created
  PROVE  /\ sol_reserve \in Nat \ {0} /\ sol_reserve = lamports - RENT
         /\ vault \in Nat \ {0}
         /\ supply \in Nat \ {0} /\ locked \in Nat /\ locked <= supply
<1>1. lamports \in Nat /\ RENT \in Nat /\ lamports > RENT /\ vault \in Nat /\ vault > 0
  BY PoolAssumption DEF Sound, TypeOK, Alive
<1>2. sol_reserve = lamports - RENT
  BY <1>1 DEF sol_reserve, SatSub
<1>3. InWallets(lp) \in Nat
  <2>1. CASE Users = {}
    BY <2>1 DEF Sound, TypeOK
  <2>2. CASE Users # {}
    BY <2>2, UnitsBound DEF Sound, LpInv
  <2> QED BY <2>1, <2>2
<1>4. supply = locked + InWallets(lp) /\ locked \in Nat /\ locked > 0
  BY DEF Sound, LpInv, LpAccounted, Alive
<1> QED BY <1>1, <1>2, <1>3, <1>4

LEMMA LpUnchanged ==
  ASSUME LpInv, UNCHANGED shares
  PROVE  LpInv' /\ supply' = supply /\ locked' = locked
BY DEF LpInv, LpAccounted, shares

(* The reserves after an operation that leaves the pool alive.             *)
LEMMA ReserveAfter ==
  ASSUME lamports' \in Nat, lamports' >= RENT
  PROVE  sol_reserve' = lamports' - RENT
<1>1. (sol_reserve)' = SatSub(lamports', RENT)
  BY DEF sol_reserve
<1> QED BY <1>1 DEF SatSub

LEMMA AliveAfter ==
  ASSUME Sound', created'
  PROVE  /\ sol_reserve' \in Nat \ {0} /\ vault' \in Nat \ {0}
         /\ supply' \in Nat \ {0} /\ locked' \in Nat /\ locked' <= supply'
<1>1. /\ lamports' \in Nat /\ RENT \in Nat /\ lamports' > RENT
      /\ vault' \in Nat /\ vault' > 0 /\ locked' \in Nat /\ locked' > 0
  BY PoolAssumption DEF Sound, TypeOK, Alive
<1>2. sol_reserve' = lamports' - RENT
  BY <1>1, ReserveAfter
<1>3. /\ lp' \in [Users -> Nat] /\ IsFiniteSet(Units(lp'))
      /\ supply' = locked' + InWallets(lp')
  BY DEF Sound, LpInv, LpAccounted
<1>4. InWallets(lp') \in Nat
  <2>1. CASE Users = {}
    BY <2>1 DEF Sound, TypeOK
  <2>2. CASE Users # {}
    BY <1>3, <2>2, UnitsBound
  <2> QED BY <2>1, <2>2
<1>5. sol_reserve' \in Nat \ {0}
  <2>1. \A x, y \in Nat : x > y => x - y \in Nat \ {0}
    OBVIOUS
  <2>2. lamports' - RENT \in Nat \ {0}
    BY <1>1, <2>1
  <2> QED BY <1>2, <2>2
<1>6. supply' \in Nat \ {0} /\ locked' <= supply'
  BY <1>1, <1>3, <1>4
<1> QED BY <1>1, <1>5, <1>6

LEMMA BuyStep ==
  ASSUME Sound, NEW u \in Users, NEW s \in Users, NEW a \in Nat, NEW b,
         handle_buy(u, s, a, b)
  PROVE  Sound' /\ created /\ created' /\ locked' = locked /\ Swapped
<1> DEFINE fee == calc_swap_fee(a)
           e == a - fee
           r == calc_swap_output(e, sol_reserve, vault)
<1>1. /\ created /\ a > 0 /\ fee # None /\ r < vault
      /\ DepositSol(s, a) /\ PayTokens(u, r)
      /\ oracle' = record_observation(oracle, sol_reserve, vault, slot)
      /\ last' = Called("buy", u, b, a, r)
      /\ created' = created /\ slot' = slot /\ UNCHANGED shares
  BY DEF handle_buy, BuyAccepted, BuyOutput, HasReserves, AdvanceOracle
<1>2. /\ sol_reserve \in Nat \ {0} /\ sol_reserve = lamports - RENT
      /\ vault \in Nat \ {0}
  BY <1>1, AliveFacts
<1>3. e \in Nat /\ e <= a
  <2>1. fee \in 1..a
    BY <1>1, SwapFeeBound
  <2> QED BY <2>1
<1> HIDE DEF fee, e
<1>4. r \in Nat /\ (sol_reserve + e) * (vault - r) >= sol_reserve * vault
  BY <1>2, <1>3, SwapOutputBound
<1> HIDE DEF r
<1>5. TypeOK /\ LpInv /\ slot \in Nat /\ oracle \in Oracle /\ RENT \in Nat /\ lamports \in Nat
  BY PoolAssumption DEF Sound, TypeOK
<1>6. /\ sol' \in [Users -> Nat] /\ lamports' \in Nat
      /\ lamports' = lamports + a
  BY <1>1, <1>5, DepositSolType
<1>7. /\ tok' \in [Users -> Nat] /\ vault' \in Nat /\ withheld' \in Nat
      /\ vault' = vault - r
  <2>1. r <= vault
    BY <1>1, <1>2, <1>4
  <2> QED BY <1>1, <1>4, <1>5, <2>1, PayTokensType
<1>8. oracle' \in Oracle
  BY <1>1, <1>2, <1>5, RecordObservationType
<1>9. LpInv' /\ supply' = supply /\ locked' = locked
  BY <1>1, <1>5, LpUnchanged
<1>10. last'.op \in Ops /\ last'.user \in Users
  BY <1>1 DEF Called, Ops
<1>11. TypeOK'
  BY <1>1, <1>5, <1>6, <1>7, <1>8, <1>9, <1>10 DEF TypeOK, LpInv
<1>12. sol_reserve' = sol_reserve + a
  BY <1>2, <1>5, <1>6, ReserveAfter
<1>13. Unborn' /\ Alive'
  BY <1>1, <1>2, <1>4, <1>5, <1>6, <1>7, <1>9 DEF Unborn, Alive, Sound
<1>14. (sol_reserve + e) * (vault - r) <= (sol_reserve + a) * (vault - r)
  BY <1>1, <1>2, <1>3, <1>4, MulMono
<1>15. Swapped
  <2>1. sol_reserve' * vault' = (sol_reserve + a) * (vault - r)
    BY <1>7, <1>12
  <2>2. sol_reserve * vault \in Nat /\ (sol_reserve + e) * (vault - r) \in Int
        /\ (sol_reserve + a) * (vault - r) \in Int
    BY <1>1, <1>2, <1>3, <1>4
  <2> QED BY <1>4, <1>9, <1>14, <2>1, <2>2 DEF Swapped
<1> QED BY <1>1, <1>9, <1>11, <1>13, <1>15 DEF Sound

LEMMA SellStep ==
  ASSUME Sound, NEW u \in Users, NEW s \in Users, NEW a \in Nat, NEW b,
         handle_sell(u, s, a, b)
  PROVE  Sound' /\ created /\ created' /\ locked' = locked /\ Swapped
<1> DEFINE net == Net(a)
           fee == calc_swap_fee(net)
           e == net - fee
           r == calc_swap_output(e, vault, sol_reserve)
<1>1. /\ created /\ net > 0 /\ fee # None /\ r < sol_reserve
      /\ DepositTokens(u, a) /\ PaySol(s, r)
      /\ oracle' = record_observation(oracle, sol_reserve, vault, slot)
      /\ last' = Called("sell", u, b, a, r)
      /\ created' = created /\ slot' = slot /\ UNCHANGED shares
  BY DEF handle_sell, SellAccepted, SellOutput, HasReserves, AdvanceOracle
<1>2. /\ sol_reserve \in Nat \ {0} /\ sol_reserve = lamports - RENT
      /\ vault \in Nat \ {0}
  BY <1>1, AliveFacts
<1>3. net \in Nat
  BY NetRange
<1>4. e \in Nat /\ e <= net
  <2> HIDE DEF net
  <2>1. fee \in 1..net
    BY <1>1, <1>3, SwapFeeBound
  <2> QED BY <1>3, <2>1
<1> HIDE DEF net, fee, e
<1>5. r \in Nat /\ (vault + e) * (sol_reserve - r) >= vault * sol_reserve
  BY <1>2, <1>4, SwapOutputBound
<1> HIDE DEF r
<1>6. TypeOK /\ LpInv /\ slot \in Nat /\ oracle \in Oracle /\ RENT \in Nat /\ lamports \in Nat
  BY PoolAssumption DEF Sound, TypeOK
<1>7. /\ tok' \in [Users -> Nat] /\ vault' \in Nat /\ withheld' \in Nat
      /\ vault' = vault + net
  BY <1>1, <1>6, DepositTokensType DEF net
<1>8. /\ sol' \in [Users -> Nat] /\ lamports' \in Nat
      /\ lamports' = lamports - r
  <2>1. r <= lamports
    BY <1>1, <1>2, <1>5, <1>6
  <2> QED BY <1>1, <1>5, <1>6, <2>1, PaySolType
<1>9. oracle' \in Oracle
  BY <1>1, <1>2, <1>6, RecordObservationType
<1>10. LpInv' /\ supply' = supply /\ locked' = locked
  BY <1>1, <1>6, LpUnchanged
<1>11. last'.op \in Ops /\ last'.user \in Users
  BY <1>1 DEF Called, Ops
<1>12. TypeOK'
  BY <1>1, <1>6, <1>7, <1>8, <1>9, <1>10, <1>11 DEF TypeOK, LpInv
<1>13. lamports' > RENT /\ sol_reserve' = sol_reserve - r
  <2>1. lamports' > RENT
    BY <1>1, <1>2, <1>5, <1>6, <1>8
  <2>2. lamports' >= RENT
    BY <1>6, <1>8, <2>1
  <2>3. sol_reserve' = lamports' - RENT
    BY <1>8, <2>2, ReserveAfter
  <2> QED BY <1>2, <1>5, <1>6, <1>8, <2>1, <2>3
<1>14. Unborn' /\ Alive'
  BY <1>1, <1>2, <1>3, <1>7, <1>10, <1>13 DEF Unborn, Alive, Sound
<1>15. (vault + e) * (sol_reserve - r) <= (vault + net) * (sol_reserve - r)
  BY <1>1, <1>2, <1>3, <1>4, <1>5, MulMono
<1>16. Swapped
  <2>1. sol_reserve' * vault' = (vault + net) * (sol_reserve - r)
    BY <1>2, <1>3, <1>5, <1>7, <1>13
  <2>2. vault * sol_reserve = sol_reserve * vault /\ vault * sol_reserve \in Nat
        /\ (vault + e) * (sol_reserve - r) \in Int
        /\ (vault + net) * (sol_reserve - r) \in Int
    BY <1>1, <1>2, <1>3, <1>4, <1>5
  <2> QED BY <1>5, <1>10, <1>15, <2>1, <2>2 DEF Swapped
<1> QED BY <1>1, <1>10, <1>12, <1>14, <1>16 DEF Sound

(* Deposits: the LP minted is at most the depositor's share of the tokens, *)
(* and the SOL charged is at least the share of the SOL.                   *)
LEMMA DepositKeeps ==
  ASSUME NEW S \in Nat, NEW T \in Nat \ {0}, NEW P \in Nat,
         NEW net \in Nat, NEW c \in Nat, NEW m \in Nat,
         net * S <= c * T, m * T <= P * net
  PROVE  (S + c) * P >= S * (P + m) /\ (T + net) * P >= T * (P + m)
<1>1. (T + net) * P >= T * (P + m)
  <2>1. (T + net) * P = T * P + P * net /\ T * (P + m) = T * P + m * T
    OBVIOUS
  <2>2. T * P \in Nat /\ P * net \in Nat /\ m * T \in Nat
    BY MulPos
  <2>3. T * P + P * net >= T * P + m * T
    BY <2>2
  <2> QED BY <2>1, <2>3
<1>2. S * m <= c * P
  <2>1. S * m \in Nat /\ c * P \in Nat /\ m * T \in Nat /\ P * net \in Nat
        /\ net * S \in Nat /\ c * T \in Nat
    BY MulPos
  <2>2. S * (m * T) <= S * (P * net)
    BY <2>1, MulMono
  <2>3. P * (net * S) <= P * (c * T)
    BY <2>1, MulMono
  <2>4. S * (m * T) = (S * m) * T /\ S * (P * net) = P * (net * S)
        /\ P * (c * T) = (c * P) * T
    OBVIOUS
  <2>5. (S * m) * T \in Nat /\ P * (net * S) \in Nat /\ (c * P) * T \in Nat
    BY <2>1, MulPos
  <2>6. (S * m) * T <= (c * P) * T
    BY <2>2, <2>3, <2>4, <2>5
  <2> QED BY <2>1, <2>6, MulCancel
<1>3. (S + c) * P >= S * (P + m)
  <2>1. (S + c) * P = S * P + c * P /\ S * (P + m) = S * P + S * m
    OBVIOUS
  <2>2. S * P \in Nat /\ c * P \in Nat /\ S * m \in Nat
    BY MulPos
  <2> QED BY <1>2, <2>1, <2>2
<1> QED BY <1>1, <1>3

LEMMA AddStep ==
  ASSUME Sound, NEW u \in Users, NEW a \in Nat, NEW m, NEW b,
         add_liquidity(u, a, m, b)
  PROVE  Sound' /\ created /\ created' /\ locked' >= locked /\ Kept
<1> DEFINE net == Net(a)
           c == sol_required(net)
           n == calc_lp_mint(supply, net, vault)
           k == ProviderLock(n)
<1>1. /\ created /\ net > 0 /\ c > 0 /\ n > 0 /\ n > k
      /\ DepositTokens(u, a) /\ DepositSol(u, c) /\ MintLp(u, n, k)
      /\ last'.op = "add" /\ last'.user = u
      /\ created' = created /\ slot' = slot /\ oracle' = oracle
  BY DEF add_liquidity, HasReserves, Called
<1>2. /\ sol_reserve \in Nat \ {0} /\ sol_reserve = lamports - RENT
      /\ vault \in Nat \ {0} /\ supply \in Nat
  BY <1>1, AliveFacts
<1>3. net \in Nat
  BY NetRange
<1> HIDE DEF net
<1>4. c \in Nat /\ net * sol_reserve <= c * vault
  BY <1>1, <1>2, <1>3, ProportionalCeilBound DEF sol_required, None
<1>5. n \in Nat /\ n * vault <= supply * net
  BY <1>1, <1>2, <1>3, LpMintBound DEF None
<1> HIDE DEF c, n
<1>6. k \in Nat \ {0}
  BY <1>5, ProviderLockBound
<1> HIDE DEF k
<1>7. TypeOK /\ LpInv /\ slot \in Nat /\ oracle \in Oracle /\ RENT \in Nat /\ lamports \in Nat
  BY PoolAssumption DEF Sound, TypeOK
<1>8. /\ tok' \in [Users -> Nat] /\ vault' \in Nat /\ withheld' \in Nat
      /\ vault' = vault + net
  BY <1>1, <1>7, DepositTokensType DEF net
<1>9. /\ sol' \in [Users -> Nat] /\ lamports' \in Nat
      /\ lamports' = lamports + c
  BY <1>1, <1>4, <1>7, DepositSolType
<1>10. LpInv' /\ locked' >= locked
  <2>1. k <= n
    BY <1>1, <1>5, <1>6
  <2> QED BY <1>1, <1>5, <1>6, <1>7, <2>1, MintLpInv
<1>11. supply' = supply + n
  BY <1>1 DEF MintLp
<1>12. last'.op \in Ops /\ last'.user \in Users
  BY <1>1 DEF Ops
<1>13. TypeOK'
  BY <1>1, <1>7, <1>8, <1>9, <1>10, <1>12 DEF TypeOK, LpInv
<1>14. sol_reserve' = sol_reserve + c
  <2>1. lamports' >= RENT
    BY <1>2, <1>4, <1>7, <1>9
  <2> QED BY <1>2, <1>4, <1>7, <1>9, <2>1, ReserveAfter
<1>15. Unborn' /\ Alive'
  <2>1. locked' \in Nat /\ locked \in Nat /\ locked > 0
    BY <1>1, <1>10 DEF LpInv, Sound, Alive
  <2>2. lamports' > RENT /\ vault' > 0
    BY <1>2, <1>3, <1>4, <1>7, <1>8, <1>9
  <2> QED BY <1>1, <1>10, <2>1, <2>2 DEF Unborn, Alive
<1>16. Kept
  BY <1>2, <1>3, <1>4, <1>5, <1>8, <1>11, <1>14, DepositKeeps DEF Kept
<1> QED BY <1>1, <1>10, <1>13, <1>15, <1>16 DEF Sound

(* Redemptions: what is paid is at most the share of what is burnt.        *)
LEMMA RedemptionKeeps ==
  ASSUME NEW R \in Nat, NEW P \in Nat, NEW a \in 0..P, NEW r \in 0..R,
         r * P <= a * R
  PROVE  (R - r) * P >= R * (P - a)
<1>1. (R - r) * P = R * P - r * P /\ R * (P - a) = R * P - a * R
  OBVIOUS
<1>2. R * P \in Nat /\ r * P \in Nat /\ a * R \in Nat
  BY MulPos
<1> QED BY <1>1, <1>2

LEMMA RemoveStep ==
  ASSUME Sound, NEW u \in Users, NEW a \in Nat, NEW b, NEW c,
         remove_liquidity(u, a, b, c)
  PROVE  Sound' /\ created /\ created' /\ locked' = locked /\ Kept
<1> DEFINE x == RedeemedSol(a)
           y == RedeemedTokens(a)
<1>1. /\ created /\ x # None /\ y # None
      /\ sol_reserve - x >= MIN_POOL_RESERVE_SOL
      /\ vault - y >= MIN_POOL_RESERVE_TOKENS
      /\ BurnLp(u, a) /\ PayTokens(u, y) /\ PaySol(u, x)
      /\ last'.op = "remove" /\ last'.user = u
      /\ created' = created /\ slot' = slot /\ oracle' = oracle
  BY DEF remove_liquidity, RemoveAccepted, HasReserves, AboveRetentionFloor, Called
<1>2. /\ sol_reserve \in Nat \ {0} /\ sol_reserve = lamports - RENT
      /\ vault \in Nat \ {0} /\ supply \in Nat \ {0} /\ locked \in Nat
  BY <1>1, AliveFacts
<1>3. x \in Nat /\ x * supply <= a * sol_reserve
  BY <1>1, <1>2, LpRedeemBound DEF RedeemedSol
<1>4. y \in Nat /\ y * supply <= a * vault
  BY <1>1, <1>2, LpRedeemBound DEF RedeemedTokens
<1> HIDE DEF x, y
<1>5. TypeOK /\ LpInv /\ slot \in Nat /\ oracle \in Oracle /\ RENT \in Nat /\ lamports \in Nat
      /\ MIN_POOL_RESERVE_SOL \in Nat \ {0} /\ MIN_POOL_RESERVE_TOKENS \in Nat \ {0}
  BY PoolAssumption DEF Sound, TypeOK
<1>6. x < sol_reserve /\ y < vault
  BY <1>1, <1>2, <1>3, <1>4, <1>5
<1>7. /\ tok' \in [Users -> Nat] /\ vault' \in Nat /\ withheld' \in Nat
      /\ vault' = vault - y
  <2>1. y <= vault
    BY <1>2, <1>4, <1>6
  <2> QED BY <1>1, <1>4, <1>5, <2>1, PayTokensType
<1>8. /\ sol' \in [Users -> Nat] /\ lamports' \in Nat
      /\ lamports' = lamports - x
  <2>1. x <= lamports
    BY <1>2, <1>3, <1>5, <1>6
  <2> QED BY <1>1, <1>3, <1>5, <2>1, PaySolType
<1>9. /\ LpInv' /\ locked' = locked /\ supply' = supply - a /\ a <= supply - locked
  BY <1>1, <1>5, BurnLpInv
<1>10. last'.op \in Ops /\ last'.user \in Users
  BY <1>1 DEF Ops
<1>11. TypeOK'
  BY <1>1, <1>5, <1>7, <1>8, <1>9, <1>10 DEF TypeOK, LpInv
<1>12. lamports' > RENT /\ sol_reserve' = sol_reserve - x
  <2>1. lamports' > RENT
    BY <1>2, <1>3, <1>5, <1>6, <1>8
  <2>2. lamports' >= RENT
    BY <1>5, <1>8, <2>1
  <2>3. sol_reserve' = lamports' - RENT
    BY <1>8, <2>2, ReserveAfter
  <2> QED BY <1>2, <1>3, <1>5, <1>8, <2>1, <2>3
<1>13. Unborn' /\ Alive'
  <2>1. locked > 0 /\ vault' > 0
    BY <1>1, <1>2, <1>4, <1>6, <1>7 DEF Sound, Alive
  <2> QED BY <1>1, <1>9, <1>12, <2>1 DEF Unborn, Alive
<1>14. Kept
  <2>1. x \in 0..sol_reserve /\ y \in 0..vault /\ a \in 0..supply
    BY <1>2, <1>3, <1>4, <1>6, <1>9
  <2>2. /\ (sol_reserve - x) * supply >= sol_reserve * (supply - a)
        /\ (vault - y) * supply >= vault * (supply - a)
    BY <1>2, <1>3, <1>4, <2>1, RedemptionKeeps
  <2> QED BY <1>7, <1>9, <1>12, <2>2 DEF Kept
<1> QED BY <1>1, <1>9, <1>11, <1>13, <1>14 DEF Sound

(* The born lock: the gates of create_pool make it positive.               *)
LEMMA BornLockPositive ==
  ASSUME NEW s \in Nat, NEW t \in Nat \ {0}, s >= MIN_INITIAL_SOL,
         integer_sqrt(s * t) > MIN_LIQUIDITY
  PROVE  LET n == integer_sqrt(s * t) - MIN_LIQUIDITY
         IN  n \in Nat /\ CreatorLock(n) \in Nat \ {0}
<1> DEFINE root == integer_sqrt(s * t)
           least == integer_sqrt(MIN_INITIAL_SOL)
           n == root - MIN_LIQUIDITY
<1>1. MIN_INITIAL_SOL \in Nat /\ MIN_LIQUIDITY \in Nat /\ s * t \in Nat
      /\ LP_LOCK_CREATOR_BPS \in Nat
  BY PoolAssumption, MathAssumption, MulPos
<1>2. MIN_INITIAL_SOL <= s * t
  <2>1. MIN_INITIAL_SOL * 1 <= s * t
    BY <1>1, MulMono
  <2> QED BY <1>1, <2>1
<1>3. root \in Nat /\ least \in Nat /\ least <= root
  BY <1>1, <1>2, IntegerSqrtValue, IntegerSqrtMono
<1>4. (least - MIN_LIQUIDITY) * LP_LOCK_CREATOR_BPS >= 10000
  BY BornLockAssumption
<1>5. root > MIN_LIQUIDITY
  OBVIOUS
<1> HIDE DEF root, least
<1>6. n \in Nat
  BY <1>1, <1>3, <1>5
<1>7. least - MIN_LIQUIDITY \in Nat
  <2>1. SUFFICES ASSUME least < MIN_LIQUIDITY PROVE FALSE
    BY <1>1, <1>3
  <2> DEFINE d == MIN_LIQUIDITY - least
  <2>2. d \in Nat /\ least - MIN_LIQUIDITY = -d
    BY <1>1, <1>3, <2>1
  <2> HIDE DEF d
  <2>3. d * LP_LOCK_CREATOR_BPS \in Nat
    BY <1>1, <2>2, MulPos
  <2>4. (-d) * LP_LOCK_CREATOR_BPS = -(d * LP_LOCK_CREATOR_BPS)
    BY <1>1, <2>2
  <2> QED BY <1>4, <2>2, <2>3, <2>4
<1>8. (least - MIN_LIQUIDITY) * LP_LOCK_CREATOR_BPS <= n * LP_LOCK_CREATOR_BPS
  BY <1>1, <1>3, <1>6, <1>7, MulMono
<1>9. n * LP_LOCK_CREATOR_BPS \in Nat
      /\ (least - MIN_LIQUIDITY) * LP_LOCK_CREATOR_BPS \in Nat
  BY <1>1, <1>6, <1>7, MulPos
<1>10. n * LP_LOCK_CREATOR_BPS >= 10000
  BY <1>4, <1>8, <1>9
<1>11. CreatorLock(n) \in Nat \ {0}
  BY <1>6, <1>10, CreatorLockBound
<1> QED BY <1>6, <1>11 DEF root

LEMMA SubNat ==
  ASSUME NEW x \in Nat, NEW y \in Nat, x >= y
  PROVE  x - y \in Nat
OBVIOUS

LEMMA BornBacked ==
  ASSUME NEW s \in Nat, NEW t \in Nat, NEW root \in Nat, NEW n \in Nat, NEW S \in Nat,
         n <= root, root * root <= s * t, s <= S
  PROVE  n * n <= S * t
<1>1. s * t <= S * t /\ n * n <= root * root
  BY MulMono
<1>2. s * t \in Nat /\ S * t \in Nat /\ n * n \in Nat /\ root * root \in Nat
  BY MulPos
<1> QED BY <1>1, <1>2

LEMMA CreateStep ==
  ASSUME Sound, NEW u \in Users, NEW w \in Users, NEW s \in Nat, NEW a \in Nat,
         create_pool(u, w, s, a)
  PROVE  Sound' /\ ~created /\ created' /\ locked' >= locked /\ BackedSupply'
<1> DEFINE t == Net(a)
           root == integer_sqrt(s * t)
           n == root - MIN_LIQUIDITY
           k == CreatorLock(n)
           due == SatSub(RENT, lamports)
<1>1. /\ ~created /\ created' = TRUE
      /\ s >= MIN_INITIAL_SOL /\ t > 0 /\ root > MIN_LIQUIDITY /\ n > k
      /\ DepositTokens(u, a) /\ MintLp(u, n, k)
      /\ sol[u] >= due
      /\ sol[w] >= s + (IF w = u THEN due ELSE 0)
      /\ sol' = [[sol EXCEPT ![u] = @ - due] EXCEPT ![w] = @ - s]
      /\ lamports' = lamports + due + s
      /\ oracle' = init_oracle(slot) /\ slot' = slot
      /\ last'.op = "create" /\ last'.user = u
  BY DEF create_pool, Called
<1>2. t \in Nat \ {0}
  BY <1>1, NetRange
<1>3. /\ TypeOK /\ LpInv /\ slot \in Nat /\ sol \in [Users -> Nat] /\ lamports \in Nat
      /\ RENT \in Nat /\ MIN_INITIAL_SOL \in Nat \ {0} /\ MIN_LIQUIDITY \in Nat
      /\ supply = 0 /\ vault = 0 /\ locked = 0
  <2>1. RENT \in Nat /\ MIN_INITIAL_SOL \in Nat \ {0} /\ MIN_LIQUIDITY \in Nat
    BY PoolAssumption, MathAssumption
  <2>2. supply = 0 /\ vault = 0 /\ locked = 0
    BY <1>1 DEF Sound, Unborn
  <2>3. TypeOK /\ LpInv
    BY DEF Sound
  <2>4. slot \in Nat /\ sol \in [Users -> Nat] /\ lamports \in Nat
    BY <2>3 DEF TypeOK
  <2> QED BY <2>1, <2>2, <2>3, <2>4
<1>4. due \in Nat /\ lamports + due >= RENT
  BY <1>3 DEF SatSub
<1> HIDE DEF t, due
<1>5. n \in Nat /\ k \in Nat \ {0}
  BY <1>1, <1>2, BornLockPositive
<1>6. root \in Nat /\ root * root <= s * t /\ s * t \in Nat
  <2>1. s * t \in Nat
    BY <1>2, MulPos
  <2> QED BY <2>1, IntegerSqrtValue DEF IsFloorSqrt
<1> HIDE DEF root, k
<1>7. n <= root /\ n > 0
  BY <1>1, <1>3, <1>5, <1>6
<1> HIDE DEF n
<1>8. /\ tok' \in [Users -> Nat] /\ vault' \in Nat /\ withheld' \in Nat
      /\ vault' = t
  <2>1. /\ tok' \in [Users -> Nat] /\ vault' \in Nat /\ withheld' \in Nat
        /\ vault' = vault + t
    BY <1>1, <1>3, DepositTokensType DEF t
  <2> QED BY <1>2, <1>3, <2>1
<1>9. sol' \in [Users -> Nat]
  <2>1. CASE u = w
    <3>1. sol[u] \in Nat /\ sol[u] >= s + due /\ (sol[u] - due) - s \in Nat
      BY <1>1, <1>3, <1>4, <2>1
    <3>2. sol' = [[sol EXCEPT ![u] = @ - due] EXCEPT ![u] = @ - s]
      BY <1>1, <2>1
    <3> QED BY <1>3, <3>1, <3>2
  <2>2. CASE u # w
    <3>1. sol[u] - due \in Nat /\ sol[w] - s \in Nat
      BY <1>1, <1>3, <1>4, <2>2
    <3> QED BY <1>1, <1>3, <2>2, <3>1
  <2> QED BY <2>1, <2>2
<1>10. LpInv' /\ locked' >= locked
  <2>1. k <= n
    BY <1>1, <1>5
  <2> QED BY <1>1, <1>3, <1>5, <2>1, MintLpInv
<1>11. supply' = n /\ locked' = k
  BY <1>1, <1>3, <1>5 DEF MintLp
<1>12. oracle' \in Oracle
  BY <1>1, <1>3, InitOracleType
<1>13. last'.op \in Ops /\ last'.user \in Users
  BY <1>1 DEF Ops
<1>14. lamports' \in Nat /\ lamports' > RENT /\ lamports' >= RENT /\ lamports' - RENT >= s
  BY <1>1, <1>3, <1>4
<1>15. TypeOK'
  BY <1>1, <1>3, <1>8, <1>9, <1>10, <1>12, <1>13, <1>14 DEF TypeOK, LpInv
<1>16. Unborn' /\ Alive'
  BY <1>1, <1>2, <1>5, <1>8, <1>11, <1>14 DEF Unborn, Alive
<1>17. BackedSupply'
  <2>1. sol_reserve' = lamports' - RENT
    BY <1>14, ReserveAfter
  <2>2. sol_reserve' \in Nat /\ s <= sol_reserve'
    <3>1. lamports' \in Nat /\ RENT \in Nat /\ lamports' >= RENT
      BY <1>3, <1>14
    <3>2. lamports' - RENT \in Nat
      BY <3>1, SubNat
    <3> QED BY <1>14, <2>1, <3>2
  <2>3. n * n <= sol_reserve' * t
    <3>1. t \in Nat /\ root \in Nat /\ n \in Nat /\ n <= root /\ root * root <= s * t
      BY <1>2, <1>5, <1>6, <1>7
    <3> QED BY <2>2, <3>1, BornBacked
  <2>4. supply' = n /\ vault' = t
    BY <1>8, <1>11
  <2> QED BY <2>3, <2>4 DEF BackedSupply
<1> QED BY <1>1, <1>10, <1>15, <1>16, <1>17 DEF Sound

(* What other programs can do, and the clock.                              *)
LEMMA KeptByMore ==
  ASSUME Sound, created, supply' \in Nat, sol_reserve' \in Nat, vault' \in Nat,
         supply' <= supply, sol_reserve' >= sol_reserve, vault' >= vault
  PROVE  Kept
<1>1. sol_reserve \in Nat /\ vault \in Nat /\ supply \in Nat
  BY AliveFacts
<1>2. sol_reserve * supply' <= sol_reserve' * supply
  BY <1>1, MulMono
<1>3. vault * supply' <= vault' * supply
  BY <1>1, MulMono
<1>4. /\ sol_reserve * supply' \in Nat /\ sol_reserve' * supply \in Nat
      /\ vault * supply' \in Nat /\ vault' * supply \in Nat
  BY <1>1, MulPos
<1> QED BY <1>2, <1>3, <1>4 DEF Kept

LEMMA GiftSolStep ==
  ASSUME Sound, NEW u \in Users, NEW a \in Nat, gift_sol(u, a)
  PROVE  Sound' /\ created' = created /\ locked' = locked /\ (created => Kept)
<1>1. /\ DepositSol(u, a) /\ UNCHANGED shares
      /\ created' = created /\ vault' = vault /\ oracle' = oracle
      /\ tok' = tok /\ withheld' = withheld /\ slot' = slot
      /\ last'.op = "gift_sol" /\ last'.user = u
  BY DEF gift_sol, Called
<1>2. TypeOK /\ LpInv /\ RENT \in Nat /\ lamports \in Nat
  BY PoolAssumption DEF Sound, TypeOK
<1>3. sol' \in [Users -> Nat] /\ lamports' \in Nat /\ lamports' = lamports + a
  BY <1>1, <1>2, DepositSolType
<1>4. LpInv' /\ supply' = supply /\ locked' = locked
  BY <1>1, <1>2, LpUnchanged
<1>5. last'.op \in Ops /\ last'.user \in Users
  BY <1>1 DEF Ops
<1>6. TypeOK'
  BY <1>1, <1>2, <1>3, <1>4, <1>5 DEF TypeOK, LpInv
<1>7. lamports' >= lamports
  BY <1>2, <1>3
<1>8. Unborn' /\ Alive'
  BY <1>1, <1>2, <1>3, <1>4, <1>7 DEF Unborn, Alive, Sound
<1>9. ASSUME created PROVE Kept
  <2>1. /\ sol_reserve \in Nat \ {0} /\ sol_reserve = lamports - RENT
        /\ vault \in Nat /\ supply \in Nat
    BY <1>9, AliveFacts
  <2>2. lamports' >= RENT
    BY <1>2, <1>3, <2>1
  <2>3. sol_reserve' = lamports' - RENT
    BY <1>3, <2>2, ReserveAfter
  <2>4. sol_reserve' = sol_reserve + a
    BY <1>2, <1>3, <2>1, <2>3
  <2>5. sol_reserve' \in Nat /\ sol_reserve' >= sol_reserve
    BY <2>1, <2>4
  <2>6. supply' \in Nat /\ supply' <= supply /\ vault' \in Nat /\ vault' >= vault
    BY <1>1, <1>4, <2>1
  <2> QED BY <1>9, <2>5, <2>6, KeptByMore
<1> QED BY <1>1, <1>4, <1>6, <1>8, <1>9 DEF Sound

LEMMA GiftTokensStep ==
  ASSUME Sound, NEW u \in Users, NEW a \in Nat, gift_tokens(u, a)
  PROVE  Sound' /\ created' = created /\ locked' = locked /\ Kept
<1>1. /\ created /\ DepositTokens(u, a) /\ UNCHANGED shares
      /\ created' = created /\ lamports' = lamports /\ oracle' = oracle
      /\ sol' = sol /\ slot' = slot
      /\ last'.op = "gift_tokens" /\ last'.user = u
  BY DEF gift_tokens, Called
<1>2. TypeOK /\ LpInv
  BY DEF Sound
<1>3. /\ tok' \in [Users -> Nat] /\ vault' \in Nat /\ withheld' \in Nat
      /\ vault' = vault + Net(a)
  BY <1>1, <1>2, DepositTokensType
<1>4. LpInv' /\ supply' = supply /\ locked' = locked
  BY <1>1, <1>2, LpUnchanged
<1>5. last'.op \in Ops /\ last'.user \in Users
  BY <1>1 DEF Ops
<1>6. TypeOK'
  BY <1>1, <1>2, <1>3, <1>4, <1>5 DEF TypeOK, LpInv
<1>7. /\ sol_reserve \in Nat /\ vault \in Nat \ {0} /\ supply \in Nat
      /\ Net(a) \in Nat
  BY <1>1, AliveFacts, NetRange
<1>8. vault' >= vault /\ vault' > 0
  BY <1>3, <1>7
<1>9. Unborn' /\ Alive'
  BY <1>1, <1>4, <1>8 DEF Unborn, Alive, Sound
<1>10. sol_reserve' = sol_reserve
  BY <1>1 DEF sol_reserve
<1>11. supply' \in Nat /\ supply' <= supply
       /\ sol_reserve' \in Nat /\ sol_reserve' >= sol_reserve
  BY <1>4, <1>7, <1>10
<1>12. Kept
  BY <1>1, <1>3, <1>8, <1>11, KeptByMore
<1> QED BY <1>1, <1>4, <1>6, <1>9, <1>12 DEF Sound

(* Operations on LP alone: the reserves stay, the supply does not grow.    *)
LEMMA LpOnlyStep ==
  ASSUME Sound, LpInv', locked' >= locked, supply' <= supply,
         UNCHANGED <<reserves, oracle, sol, tok, withheld, slot>>,
         last'.op \in Ops, last'.user \in Users
  PROVE  Sound' /\ created' = created /\ (created => Kept)
<1>1. /\ created' = created /\ lamports' = lamports /\ vault' = vault
      /\ oracle' = oracle /\ sol' = sol /\ tok' = tok /\ withheld' = withheld
      /\ slot' = slot
  BY DEF reserves
<1>2. /\ supply' \in Nat /\ locked' \in Nat /\ lp' \in [Users -> Nat]
      /\ IsFiniteSet(Units(lp')) /\ supply' = locked' + InWallets(lp')
  BY DEF LpInv, LpAccounted
<1>3. TypeOK'
  BY <1>1, <1>2 DEF Sound, TypeOK
<1>4. Users # {}
  BY DEF Sound, TypeOK
<1>5. InWallets(lp') \in Nat
  BY <1>2, <1>4, UnitsBound
<1>6. Unborn'
  <2>1. ASSUME ~created PROVE supply' = 0 /\ locked' = 0 /\ vault' = 0
    <3>1. supply = 0 /\ vault = 0
      BY <2>1 DEF Sound, Unborn
    <3> QED BY <1>1, <1>2, <1>5, <3>1
  <2> QED BY <1>1, <2>1 DEF Unborn
<1>7. Alive'
  <2>1. ASSUME created PROVE lamports' > RENT /\ vault' > 0 /\ locked' > 0
    <3>1. lamports > RENT /\ vault > 0 /\ locked > 0 /\ locked \in Nat
      BY <2>1 DEF Sound, Alive, LpInv
    <3> QED BY <1>1, <1>2, <3>1
  <2> QED BY <1>1, <2>1 DEF Alive
<1>8. ASSUME created PROVE Kept
  <2>1. sol_reserve \in Nat /\ vault \in Nat
    BY <1>8, AliveFacts
  <2>2. sol_reserve' = sol_reserve
    BY <1>1 DEF sol_reserve
  <2>3. /\ sol_reserve' \in Nat /\ sol_reserve' >= sol_reserve
        /\ vault' \in Nat /\ vault' >= vault
    BY <1>1, <2>1, <2>2
  <2> QED BY <1>2, <1>8, <2>3, KeptByMore
<1> QED BY <1>1, <1>3, <1>6, <1>7, <1>8 DEF Sound

LEMMA LpStep ==
  ASSUME Sound, NEW u \in Users, NEW a \in Nat,
         \/ lp_to_pool(u, a) \/ lp_self_burn(u, a)
         \/ \E v \in Users : lp_transfer(u, v, a)
  PROVE  Sound' /\ created' = created /\ locked' >= locked /\ (created => Kept)
<1>1. LpInv /\ supply \in Nat /\ locked \in Nat
  BY DEF Sound, LpInv
<1>2. CASE lp_to_pool(u, a)
  <2>1. LpInv' /\ locked' >= locked
    BY <1>1, <1>2, LpToPoolInv
  <2>2. /\ supply' = supply /\ UNCHANGED <<reserves, oracle, sol, tok, withheld, slot>>
        /\ last'.op \in Ops /\ last'.user \in Users
    BY <1>2 DEF lp_to_pool, Called, Ops
  <2>3. supply' <= supply
    BY <1>1, <2>2
  <2> QED BY <2>1, <2>2, <2>3, LpOnlyStep
<1>3. CASE lp_self_burn(u, a)
  <2>1. BurnLp(u, a)
    BY <1>3 DEF lp_self_burn
  <2>2. LpInv' /\ locked' = locked /\ supply' = supply - a
    BY <1>1, <2>1, BurnLpInv
  <2>3. /\ UNCHANGED <<reserves, oracle, sol, tok, withheld, slot>>
        /\ last'.op \in Ops /\ last'.user \in Users
    BY <1>3 DEF lp_self_burn, Called, Ops
  <2>4. supply' <= supply /\ locked' >= locked
    BY <1>1, <2>2
  <2> QED BY <2>2, <2>3, <2>4, LpOnlyStep
<1>4. ASSUME NEW v \in Users, lp_transfer(u, v, a)
      PROVE  Sound' /\ created' = created /\ locked' >= locked /\ (created => Kept)
  <2>1. LpInv' /\ locked' = locked
    BY <1>1, <1>4, LpTransferInv
  <2>2. /\ supply' = supply /\ UNCHANGED <<reserves, oracle, sol, tok, withheld, slot>>
        /\ last'.op \in Ops /\ last'.user \in Users
    BY <1>4 DEF lp_transfer, Called, Ops
  <2>3. supply' <= supply /\ locked' >= locked
    BY <1>1, <2>1, <2>2
  <2> QED BY <2>1, <2>2, <2>3, LpOnlyStep
<1> QED BY <1>2, <1>3, <1>4

(* The clock, and steps that change nothing.                               *)
LEMMA IdleStep ==
  ASSUME Sound, UNCHANGED <<reserves, shares, oracle, sol, tok, withheld, last>>,
         slot' \in Nat
  PROVE  Sound' /\ created' = created /\ locked' = locked /\ supply' = supply
         /\ sol_reserve' = sol_reserve /\ vault' = vault
<1>1. LpInv' /\ supply' = supply /\ locked' = locked
  BY LpUnchanged DEF Sound
<1>2. /\ created' = created /\ lamports' = lamports /\ vault' = vault
      /\ lp' = lp /\ oracle' = oracle /\ sol' = sol /\ tok' = tok
      /\ withheld' = withheld /\ last' = last
  BY DEF reserves, shares
<1>3. TypeOK'
  BY <1>1, <1>2 DEF Sound, TypeOK
<1>4. Unborn' /\ Alive'
  BY <1>1, <1>2 DEF Sound, Unborn, Alive
<1>5. sol_reserve' = sol_reserve
  BY <1>2 DEF sol_reserve
<1> QED BY <1>1, <1>2, <1>3, <1>4, <1>5 DEF Sound

-----------------------------------------------------------------------------
(* The invariant is inductive.                                             *)

LEMMA InitIInv ==
  ASSUME Init
  PROVE  IInv
<1>1. /\ created = FALSE /\ lamports = 0 /\ vault = 0 /\ supply = 0 /\ locked = 0
      /\ oracle = init_oracle(0) /\ sol = SolEndowment /\ tok = TokEndowment
      /\ lp = [u \in Users |-> 0] /\ withheld = 0 /\ slot = StartSlot
      /\ \E u \in Users : last = Called("none", u, 0, 0, 0)
  BY DEF Init
<1>2. /\ SolEndowment \in [Users -> Nat] /\ TokEndowment \in [Users -> Nat]
      /\ StartSlot \in Nat
  BY PoolAssumption
<1>3. oracle \in Oracle
  BY <1>1, InitOracleType
<1>4. last.op \in Ops /\ last.user \in Users
  BY <1>1 DEF Called, Ops
<1>5. lp \in [Users -> Nat] /\ \A u \in Users : lp[u] = 0
  BY <1>1
<1>6. TypeOK
  BY <1>1, <1>2, <1>3, <1>4, <1>5 DEF TypeOK
<1>7. IsFiniteSet(Units(lp)) /\ InWallets(lp) = 0
  BY <1>5, UnitsEmpty
<1>8. LpInv
  BY <1>1, <1>5, <1>7 DEF LpInv, LpAccounted
<1> QED BY <1>1, <1>6, <1>8 DEF IInv, Sound, Unborn, Alive, BackedSupply

(* Every step, classified.                                                 *)
StepEffect ==
  /\ Sound' /\ locked' >= locked
  /\ created => created' /\ (Swapped \/ Kept)
  /\ created /\ last'.op \notin {"buy", "sell"} => Kept
  /\ ~created /\ created' => BackedSupply'

LEMMA NextEffect ==
  ASSUME Sound, [Next]_vars
  PROVE  StepEffect
<1>1. locked \in Nat /\ slot \in Nat /\ SlotSteps \subseteq Nat
  BY PoolAssumption DEF Sound, TypeOK
<1>2. ASSUME UNCHANGED <<reserves, shares, oracle, sol, tok, withheld, last>>, slot' \in Nat
      PROVE  StepEffect
  <2>1. /\ Sound' /\ created' = created /\ locked' = locked /\ supply' = supply
        /\ sol_reserve' = sol_reserve /\ vault' = vault
    BY <1>2, IdleStep
  <2>2. ASSUME created PROVE Kept
    <3>1. sol_reserve \in Nat /\ vault \in Nat /\ supply \in Nat
      BY <2>2, AliveFacts
    <3>2. sol_reserve * supply \in Nat /\ vault * supply \in Nat
      BY <3>1, MulPos
    <3> QED BY <2>1, <3>2 DEF Kept
  <2> QED BY <1>1, <2>1, <2>2 DEF StepEffect
<1>3. CASE UNCHANGED vars
  <2>1. UNCHANGED <<reserves, shares, oracle, sol, tok, withheld, last>> /\ slot' = slot
    BY <1>3 DEF vars, reserves, shares
  <2> QED BY <1>1, <1>2, <2>1
<1>4. CASE Tick
  <2>1. PICK d \in SlotSteps : advance_slot(d)
    BY <1>4 DEF Tick
  <2>2. UNCHANGED <<reserves, shares, oracle, sol, tok, withheld, last>> /\ slot' = slot + d
    BY <2>1 DEF advance_slot
  <2>3. slot' \in Nat
    BY <1>1, <2>2
  <2> QED BY <1>2, <2>2, <2>3
<1>5. ASSUME NEW u \in Users, Create(u) PROVE StepEffect
  <2>1. PICK w \in Users, x \in InitialAmounts : create_pool(u, w, x[1], x[2])
    BY <1>5 DEF Create
  <2>2. x[1] \in Nat /\ x[2] \in Nat
    BY PoolAssumption
  <2>3. Sound' /\ ~created /\ created' /\ locked' >= locked /\ BackedSupply'
    BY <2>1, <2>2, CreateStep
  <2> QED BY <2>3 DEF StepEffect
<1>6. ASSUME NEW u \in Users, Buy(u) PROVE StepEffect
  <2>1. PICK w \in Users, x \in SwapAmounts, b \in Bounds : handle_buy(u, w, x, b)
    BY <1>6 DEF Buy
  <2>2. x \in Nat
    BY PoolAssumption
  <2>3. Sound' /\ created /\ created' /\ locked' = locked /\ Swapped
    BY <2>1, <2>2, BuyStep
  <2>4. last'.op = "buy"
    BY <2>1 DEF handle_buy, BuyAccepted, BuyOutput, Called
  <2> QED BY <1>1, <2>3, <2>4 DEF StepEffect
<1>7. ASSUME NEW u \in Users, Sell(u) PROVE StepEffect
  <2>1. PICK w \in Users, x \in SwapAmounts, b \in Bounds : handle_sell(u, w, x, b)
    BY <1>7 DEF Sell
  <2>2. x \in Nat
    BY PoolAssumption
  <2>3. Sound' /\ created /\ created' /\ locked' = locked /\ Swapped
    BY <2>1, <2>2, SellStep
  <2>4. last'.op = "sell"
    BY <2>1 DEF handle_sell, SellAccepted, SellOutput, Called
  <2> QED BY <1>1, <2>3, <2>4 DEF StepEffect
<1>8. ASSUME NEW u \in Users, Add(u) PROVE StepEffect
  <2>1. PICK x \in DepositAmounts, m \in MaxBounds, b \in Bounds : add_liquidity(u, x, m, b)
    BY <1>8 DEF Add
  <2>2. x \in Nat
    BY PoolAssumption
  <2>3. Sound' /\ created /\ created' /\ locked' >= locked /\ Kept
    BY <2>1, <2>2, AddStep
  <2> QED BY <2>3 DEF StepEffect
<1>9. ASSUME NEW u \in Users, Remove(u) PROVE StepEffect
  <2>1. PICK x \in RedeemAmounts, b \in Bounds, c \in Bounds : remove_liquidity(u, x, b, c)
    BY <1>9 DEF Remove
  <2>2. x \in Nat
    BY PoolAssumption
  <2>3. Sound' /\ created /\ created' /\ locked' = locked /\ Kept
    BY <2>1, <2>2, RemoveStep
  <2> QED BY <1>1, <2>3 DEF StepEffect
<1>10. ASSUME NEW u \in Users, External(u) PROVE StepEffect
  <2>1. PICK x \in GiftAmounts :
          \/ gift_sol(u, x) \/ gift_tokens(u, x) \/ lp_to_pool(u, x)
          \/ lp_self_burn(u, x) \/ \E v \in Users : lp_transfer(u, v, x)
    BY <1>10 DEF External
  <2>2. x \in Nat
    BY PoolAssumption
  <2>3. Sound' /\ created' = created /\ locked' >= locked /\ (created => Kept)
    <3>1. CASE gift_sol(u, x)
      BY <1>1, <2>2, <3>1, GiftSolStep
    <3>2. CASE gift_tokens(u, x)
      BY <1>1, <2>2, <3>2, GiftTokensStep
    <3>3. CASE \/ lp_to_pool(u, x) \/ lp_self_burn(u, x)
               \/ \E v \in Users : lp_transfer(u, v, x)
      BY <2>2, <3>3, LpStep
    <3> QED BY <2>1, <3>1, <3>2, <3>3
  <2> QED BY <2>3 DEF StepEffect
<1> QED BY <1>3, <1>4, <1>5, <1>6, <1>7, <1>8, <1>9, <1>10 DEF Next, Step

(* Both kinds of step let the worth of a share grow.                       *)
LEMMA ProductGrows ==
  ASSUME NEW S \in Nat, NEW T \in Nat, NEW P \in Nat,
         NEW x \in Nat, NEW y \in Nat, NEW p \in Nat,
         \/ p = P /\ x * y >= S * T
         \/ x * P >= S * p /\ y * P >= T * p
  PROVE  x * y * (P * P) >= S * T * (p * p)
<1>1. S * T \in Nat /\ x * y \in Nat /\ P * P \in Nat /\ p * p \in Nat
      /\ S * p \in Nat /\ x * P \in Nat /\ T * p \in Nat /\ y * P \in Nat
  BY MulPos
<1>2. x * y * (P * P) \in Nat /\ S * T * (p * p) \in Nat
  BY <1>1, MulPos
<1>3. CASE p = P /\ x * y >= S * T
  <2>1. S * T * (P * P) <= x * y * (P * P)
    BY <1>1, <1>3, MulMono
  <2> QED BY <1>2, <1>3, <2>1
<1>4. CASE x * P >= S * p /\ y * P >= T * p
  <2>1. (S * p) * (T * p) <= (x * P) * (y * P)
    BY <1>1, <1>4, MulMono
  <2>2. (S * p) * (T * p) = S * T * (p * p) /\ (x * P) * (y * P) = x * y * (P * P)
    OBVIOUS
  <2> QED BY <1>2, <2>1, <2>2
<1> QED BY <1>3, <1>4

LEMMA StepGrows ==
  ASSUME Sound, [Next]_vars, created
  PROVE  /\ sol_reserve' * vault' * (supply * supply)
              >= sol_reserve * vault * (supply' * supply')
         /\ sol_reserve' \in Nat /\ vault' \in Nat /\ supply' \in Nat
<1>1. Sound' /\ created' /\ (Swapped \/ Kept)
  BY NextEffect DEF StepEffect
<1>2. sol_reserve \in Nat /\ vault \in Nat /\ supply \in Nat
  BY AliveFacts
<1>3. lamports' \in Nat /\ lamports' > RENT /\ RENT \in Nat
      /\ vault' \in Nat /\ supply' \in Nat
  BY <1>1, PoolAssumption DEF Sound, TypeOK, Alive
<1>4. sol_reserve' \in Nat
  <2>1. lamports' >= RENT
    BY <1>3
  <2>2. sol_reserve' = lamports' - RENT
    BY <1>3, <2>1, ReserveAfter
  <2> QED BY <1>3, <2>1, <2>2, SubNat
<1>5. \/ supply' = supply /\ sol_reserve' * vault' >= sol_reserve * vault
      \/ sol_reserve' * supply >= sol_reserve * supply' /\ vault' * supply >= vault * supply'
  BY <1>1 DEF Swapped, Kept
<1> QED BY <1>2, <1>3, <1>4, <1>5, ProductGrows

LEMMA BackedStep ==
  ASSUME NEW S \in Nat, NEW T \in Nat, NEW P \in Nat \ {0},
         NEW x \in Nat, NEW y \in Nat, NEW p \in Nat,
         P * P <= S * T, x * y * (P * P) >= S * T * (p * p)
  PROVE  p * p <= x * y
<1>1. /\ P * P \in Nat /\ P * P > 0 /\ S * T \in Nat /\ p * p \in Nat /\ x * y \in Nat
  BY MulPos
<1>2. (P * P) * (p * p) <= S * T * (p * p)
  BY <1>1, MulMono
<1>3. /\ (P * P) * (p * p) \in Nat /\ S * T * (p * p) \in Nat /\ x * y * (P * P) \in Nat
  BY <1>1, MulPos
<1>4. (P * P) * (p * p) = (p * p) * (P * P)
  OBVIOUS
<1>5. (p * p) * (P * P) <= x * y * (P * P)
  BY <1>2, <1>3, <1>4
<1> QED BY <1>1, <1>5, MulCancel

LEMMA StepIInv ==
  ASSUME IInv, [Next]_vars
  PROVE  IInv'
<1>1. Sound /\ BackedSupply
  BY DEF IInv
<1>2. Sound' /\ (~created /\ created' => BackedSupply')
  BY <1>1, NextEffect DEF StepEffect
<1>3. ASSUME created PROVE BackedSupply'
  <2>1. /\ sol_reserve \in Nat /\ vault \in Nat /\ supply \in Nat \ {0}
    BY <1>1, <1>3, AliveFacts
  <2>2. supply * supply <= sol_reserve * vault
    BY <1>1, <1>3 DEF BackedSupply
  <2>3. /\ sol_reserve' * vault' * (supply * supply)
             >= sol_reserve * vault * (supply' * supply')
        /\ sol_reserve' \in Nat /\ vault' \in Nat /\ supply' \in Nat
    BY <1>1, <1>3, StepGrows
  <2>4. supply' * supply' <= sol_reserve' * vault'
    BY <2>1, <2>2, <2>3, BackedStep
  <2> QED BY <2>4 DEF BackedSupply
<1>4. ASSUME ~created' PROVE BackedSupply'
  BY <1>4 DEF BackedSupply
<1> QED BY <1>2, <1>3, <1>4 DEF IInv

LEMMA SpecIInv == Spec => []IInv
BY InitIInv, StepIInv, PTL DEF Spec

-----------------------------------------------------------------------------
(* Type correctness: no balance, reserve, supply or locked amount of any   *)
(* reachable state is negative, and every price accumulator stays within   *)
(* its modulus, although no handler checks the LP supply before burning.   *)
THEOREM TypeCorrect == Spec => []TypeOK
<1>1. IInv => TypeOK
  BY DEF IInv, Sound
<1> QED BY <1>1, SpecIInv, PTL

(* The LP supply is what the wallets and the pool's own account hold, for  *)
(* any number of users.                                                    *)
THEOREM LpIsAccounted == Spec => []LpAccounted
<1>1. IInv => LpAccounted
  BY DEF IInv, Sound, LpInv
<1> QED BY <1>1, SpecIInv, PTL

(* A created pool never runs out of SOL, of tokens or of locked LP.        *)
THEOREM PoolNeverEmpty == Spec => []NeverEmpty
<1>1. IInv => NeverEmpty
  <2>1. SUFFICES ASSUME Sound, created
                 PROVE  /\ sol_reserve > 0 /\ vault > 0
                        /\ locked > 0 /\ locked <= supply
    BY DEF IInv, NeverEmpty
  <2> QED BY <2>1, AliveFacts DEF Sound, Alive
<1> QED BY <1>1, SpecIInv, PTL

(* supply^2 <= SOL reserve * token reserve, always.                        *)
THEOREM SupplyIsBacked == Spec => []BackedSupply
<1>1. IInv => BackedSupply
  BY DEF IInv
<1> QED BY <1>1, SpecIInv, PTL

(* No call, by anyone, lowers what one LP unit is worth.                   *)
THEOREM ShareNeverLosesWorth == Spec => ShareGrowth
<1>1. IInv /\ [Next]_vars =>
        [created => sol_reserve' * vault' * (supply * supply)
                      >= sol_reserve * vault * (supply' * supply')]_vars
  BY StepGrows DEF IInv
<1> QED BY <1>1, SpecIInv, PTL DEF Spec, ShareGrowth

(* Whoever deposits, redeems, donates, transfers or burns leaves the other *)
(* shares at least the SOL and at least the tokens they stood for.         *)
THEOREM OthersAreNotDiluted == Spec => OthersKeepTheirShare
<1>1. IInv /\ [Next]_vars =>
        [created /\ last'.op \notin {"buy", "sell"} =>
           /\ sol_reserve' * supply >= sol_reserve * supply'
           /\ vault' * supply >= vault * supply']_vars
  BY NextEffect DEF IInv, StepEffect, Kept
<1> QED BY <1>1, SpecIInv, PTL DEF Spec, OthersKeepTheirShare

(* LP that the pool's own account holds never leaves it.                   *)
THEOREM LockedStaysLocked == Spec => LockedNeverFalls
<1>1. IInv /\ [Next]_vars => [locked' >= locked]_vars
  BY NextEffect DEF IInv, StepEffect
<1> QED BY <1>1, SpecIInv, PTL DEF Spec, LockedNeverFalls

-----------------------------------------------------------------------------
(* What one call moves, for the bounds that its caller gave.               *)
BoundsKept ==
  LET u == last'.user b == last'.bound IN
  /\ last'.op = "buy" => vault - vault' >= b
  /\ last'.op = "sell" => lamports - lamports' >= b
  /\ last'.op = "add" => sol[u] - sol'[u] <= b[1]
  /\ last'.op = "remove" => /\ sol'[u] - sol[u] >= b[1]
                            /\ vault - vault' >= b[2]

LEMMA BuyBound ==
  ASSUME Sound, NEW u \in Users, NEW s \in Users, NEW a \in Nat, NEW b \in Nat,
         handle_buy(u, s, a, b)
  PROVE  BoundsKept
<1> DEFINE e == a - calc_swap_fee(a)
           r == calc_swap_output(e, sol_reserve, vault)
<1>1. /\ created /\ a > 0 /\ calc_swap_fee(a) # None /\ r >= b
      /\ vault' = vault - r
      /\ last'.op = "buy" /\ last'.bound = b
  BY DEF handle_buy, BuyAccepted, BuyOutput, HasReserves, PayTokens, Called
<1>2. sol_reserve \in Nat \ {0} /\ vault \in Nat
  BY <1>1, AliveFacts
<1>3. e \in Nat
  <2>1. calc_swap_fee(a) \in 1..a
    BY <1>1, SwapFeeBound
  <2> QED BY <2>1
<1> HIDE DEF e
<1>4. r \in Nat
  BY <1>2, <1>3, SwapOutputBound
<1> HIDE DEF r
<1>5. vault - vault' >= b
  BY <1>1, <1>2, <1>4
<1> QED BY <1>1, <1>5 DEF BoundsKept

LEMMA SellBound ==
  ASSUME Sound, NEW u \in Users, NEW s \in Users, NEW a \in Nat, NEW b \in Nat,
         handle_sell(u, s, a, b)
  PROVE  BoundsKept
<1> DEFINE e == Net(a) - calc_swap_fee(Net(a))
           r == calc_swap_output(e, vault, sol_reserve)
<1>1. /\ created /\ Net(a) > 0 /\ calc_swap_fee(Net(a)) # None /\ r >= b
      /\ lamports' = lamports - r
      /\ last'.op = "sell" /\ last'.bound = b
  BY DEF handle_sell, SellAccepted, SellOutput, HasReserves, PaySol, Called
<1>2. sol_reserve \in Nat /\ vault \in Nat \ {0} /\ lamports \in Nat
  BY <1>1, AliveFacts DEF Sound, TypeOK
<1>3. e \in Nat
  <2>1. Net(a) \in Nat
    BY NetRange
  <2>2. calc_swap_fee(Net(a)) \in 1..Net(a)
    BY <1>1, <2>1, SwapFeeBound
  <2> QED BY <2>1, <2>2
<1> HIDE DEF e
<1>4. r \in Nat
  BY <1>2, <1>3, SwapOutputBound
<1> HIDE DEF r
<1>5. lamports - lamports' >= b
  BY <1>1, <1>2, <1>4
<1> QED BY <1>1, <1>5 DEF BoundsKept

(* The gross amount bounds the net one, so the bound on the worst case is  *)
(* a bound on the charge.                                                  *)
LEMMA AddBound ==
  ASSUME Sound, NEW u \in Users, NEW a \in Nat, NEW m \in Nat, NEW b \in Nat,
         add_liquidity(u, a, m, b)
  PROVE  BoundsKept
<1> DEFINE c == sol_required(Net(a))
           w == worst_case_sol(a)
<1>1. /\ created /\ w > 0 /\ w <= m /\ c > 0
      /\ sol' = [sol EXCEPT ![u] = @ - c]
      /\ last'.op = "add" /\ last'.user = u /\ last'.bound = <<m, b>>
  BY DEF add_liquidity, HasReserves, DepositSol, Called
<1>2. /\ sol_reserve \in Nat /\ vault \in Nat \ {0}
      /\ sol \in [Users -> Nat]
  BY <1>1, AliveFacts DEF Sound, TypeOK
<1>3. Net(a) \in Nat /\ Net(a) <= a
  BY NetRange
<1>4. c \in Nat /\ w \in Nat
  BY <1>1, <1>2, <1>3, ProportionalCeilBound DEF sol_required, worst_case_sol, None
<1>5. c <= w
  BY <1>1, <1>2, <1>3, ProportionalCeilMono DEF sol_required, worst_case_sol, None
<1> HIDE DEF c, w
<1>6. sol'[u] = sol[u] - c
  BY <1>1, <1>2
<1>7. sol[u] - sol'[u] <= m
  BY <1>1, <1>2, <1>4, <1>5, <1>6
<1> QED BY <1>1, <1>7 DEF BoundsKept

LEMMA RemoveBound ==
  ASSUME Sound, NEW u \in Users, NEW a \in Nat, NEW b \in Nat, NEW c \in Nat,
         remove_liquidity(u, a, b, c)
  PROVE  BoundsKept
<1> DEFINE x == RedeemedSol(a)
           y == RedeemedTokens(a)
<1>1. /\ created /\ x # None /\ y # None /\ x >= b /\ y >= c
      /\ vault' = vault - y
      /\ sol' = [sol EXCEPT ![u] = @ + x]
      /\ last'.op = "remove" /\ last'.user = u /\ last'.bound = <<b, c>>
  BY DEF remove_liquidity, RemoveAccepted, HasReserves, PayTokens, PaySol, Called
<1>2. /\ sol_reserve \in Nat /\ vault \in Nat /\ supply \in Nat \ {0}
      /\ sol \in [Users -> Nat]
  BY <1>1, AliveFacts DEF Sound, TypeOK
<1>3. x \in Nat /\ y \in Nat
  BY <1>1, <1>2, LpRedeemBound DEF RedeemedSol, RedeemedTokens
<1> HIDE DEF x, y
<1>4. sol'[u] = sol[u] + x
  BY <1>1, <1>2
<1>5. sol'[u] - sol[u] >= b /\ vault - vault' >= c
  BY <1>1, <1>2, <1>3, <1>4
<1> QED BY <1>1, <1>5 DEF BoundsKept

LEMMA StepBounds ==
  ASSUME Sound, Next, slot' = slot
  PROVE  BoundsKept
<1>1. CASE Tick
  <2>1. PICK d \in SlotSteps : slot' = slot + d
    BY <1>1 DEF Tick, advance_slot
  <2>2. slot \in Nat /\ d \in Nat \ {0}
    BY PoolAssumption DEF Sound, TypeOK
  <2> QED BY <2>1, <2>2
<1>2. ASSUME NEW u \in Users, Create(u) PROVE BoundsKept
  BY <1>2 DEF Create, create_pool, Called, BoundsKept
<1>3. ASSUME NEW u \in Users, Buy(u) PROVE BoundsKept
  <2>1. PICK w \in Users, x \in SwapAmounts, b \in Bounds : handle_buy(u, w, x, b)
    BY <1>3 DEF Buy
  <2> QED BY <2>1, BuyBound, PoolAssumption
<1>4. ASSUME NEW u \in Users, Sell(u) PROVE BoundsKept
  <2>1. PICK w \in Users, x \in SwapAmounts, b \in Bounds : handle_sell(u, w, x, b)
    BY <1>4 DEF Sell
  <2> QED BY <2>1, SellBound, PoolAssumption
<1>5. ASSUME NEW u \in Users, Add(u) PROVE BoundsKept
  <2>1. PICK x \in DepositAmounts, m \in MaxBounds, b \in Bounds : add_liquidity(u, x, m, b)
    BY <1>5 DEF Add
  <2> QED BY <2>1, AddBound, PoolAssumption
<1>6. ASSUME NEW u \in Users, Remove(u) PROVE BoundsKept
  <2>1. PICK x \in RedeemAmounts, b \in Bounds, c \in Bounds : remove_liquidity(u, x, b, c)
    BY <1>6 DEF Remove
  <2> QED BY <2>1, RemoveBound, PoolAssumption
<1>7. ASSUME NEW u \in Users, External(u) PROVE BoundsKept
  <2>1. last'.op \in {"gift_sol", "gift_tokens", "lp_to_pool", "lp_self_burn", "lp_transfer"}
    BY <1>7 DEF External, gift_sol, gift_tokens, lp_to_pool, lp_self_burn, lp_transfer, Called
  <2> QED BY <2>1 DEF BoundsKept
<1> QED BY <1>1, <1>2, <1>3, <1>4, <1>5, <1>6, <1>7 DEF Next, Step

(* A caller's minimum outputs and maximum payment hold of what the call    *)
(* moved, although the maximum of a deposit is compared with the charge    *)
(* for the amount before the transfer fee.                                 *)
THEOREM CallersAreBound == Spec => BoundsHonoured
<1>1. IInv /\ [Next]_vars => [slot' = slot => BoundsKept]_vars
  BY StepBounds DEF IInv
<1>2. [slot' = slot => BoundsKept]_vars =>
        [slot' = slot =>
           LET u == last'.user b == last'.bound IN
           /\ last'.op = "buy" => vault - vault' >= b
           /\ last'.op = "sell" => lamports - lamports' >= b
           /\ last'.op = "add" => sol[u] - sol'[u] <= b[1]
           /\ last'.op = "remove" => /\ sol'[u] - sol[u] >= b[1]
                                     /\ vault - vault' >= b[2]]_vars
  BY DEF BoundsKept
<1> QED BY <1>1, <1>2, SpecIInv, PTL DEF Spec, BoundsHonoured

-----------------------------------------------------------------------------
(* Nothing is made or lost: all lamports are in the pool or in a wallet,   *)
(* and all tokens there or withheld by the transfer fee.                   *)
SolKept ==
  /\ IsFiniteSet(Units(sol))
  /\ lamports + InWallets(sol) = InWallets(SolEndowment)
TokKept ==
  /\ IsFiniteSet(Units(tok))
  /\ vault + withheld + InWallets(tok) = InWallets(TokEndowment)

LEMMA DepositTokensKeeps ==
  ASSUME TypeOK, TokKept, NEW u \in Users, NEW amount \in Nat, DepositTokens(u, amount)
  PROVE  TokKept' /\ withheld' >= withheld
<1>1. /\ tok \in [Users -> Nat] /\ tok' \in [Users -> Nat]
      /\ vault \in Nat /\ withheld \in Nat
  BY DepositTokensType DEF TypeOK
<1>2. /\ tok[u] = tok'[u] + amount /\ \A x \in Users \ {u} : tok'[x] = tok[x]
  BY <1>1 DEF DepositTokens
<1>3. IsFiniteSet(Units(tok')) /\ InWallets(tok') = InWallets(tok) - amount
  BY <1>1, <1>2, UnitsDebited DEF TokKept
<1>4. InWallets(tok) \in Nat
  BY <1>1, UnitsBound DEF TokKept
<1>5. /\ TransferFee(amount) \in Nat /\ Net(amount) \in Nat
      /\ Net(amount) = amount - TransferFee(amount)
  BY NetRange DEF Net
<1>6. vault' = vault + Net(amount) /\ withheld' = withheld + TransferFee(amount)
  BY DEF DepositTokens
<1>7. /\ vault' + withheld' + InWallets(tok') = vault + withheld + InWallets(tok)
      /\ withheld' >= withheld
  BY <1>1, <1>3, <1>4, <1>5, <1>6
<1> QED BY <1>3, <1>7 DEF TokKept

LEMMA PayTokensKeeps ==
  ASSUME TypeOK, TokKept, NEW u \in Users, NEW a \in Nat, a <= vault, PayTokens(u, a)
  PROVE  TokKept' /\ withheld' >= withheld
<1>1. /\ tok \in [Users -> Nat] /\ tok' \in [Users -> Nat]
      /\ vault \in Nat /\ withheld \in Nat /\ vault' \in Nat /\ withheld' \in Nat
  BY PayTokensType DEF TypeOK
<1>2. TransferFee(a) \in Nat /\ Net(a) \in Nat /\ Net(a) = a - TransferFee(a)
  BY NetRange DEF Net
<1>3. /\ tok'[u] = tok[u] + Net(a) /\ \A x \in Users \ {u} : tok'[x] = tok[x]
  BY <1>1, <1>2 DEF PayTokens
<1>4. IsFiniteSet(Units(tok')) /\ InWallets(tok') = InWallets(tok) + Net(a)
  BY <1>1, <1>2, <1>3, UnitsCredited DEF TokKept
<1>5. InWallets(tok) \in Nat
  BY <1>1, UnitsBound DEF TokKept
<1>6. vault' = vault - a /\ withheld' = withheld + TransferFee(a)
  BY DEF PayTokens
<1>7. /\ vault' + withheld' + InWallets(tok') = vault + withheld + InWallets(tok)
      /\ withheld' >= withheld
  BY <1>1, <1>2, <1>4, <1>5, <1>6
<1> QED BY <1>4, <1>7 DEF TokKept

LEMMA DepositSolKeeps ==
  ASSUME TypeOK, SolKept, NEW u \in Users, NEW a \in Nat, DepositSol(u, a)
  PROVE  SolKept'
<1>1. sol \in [Users -> Nat] /\ sol' \in [Users -> Nat] /\ lamports \in Nat
  BY DepositSolType DEF TypeOK
<1>2. sol[u] = sol'[u] + a /\ \A x \in Users \ {u} : sol'[x] = sol[x]
  BY <1>1 DEF DepositSol
<1>3. IsFiniteSet(Units(sol')) /\ InWallets(sol') = InWallets(sol) - a
  BY <1>1, <1>2, UnitsDebited DEF SolKept
<1>4. InWallets(sol) \in Nat
  BY <1>1, UnitsBound DEF SolKept
<1>5. lamports' = lamports + a
  BY DEF DepositSol
<1>6. lamports' + InWallets(sol') = lamports + InWallets(sol)
  BY <1>1, <1>3, <1>4, <1>5
<1> QED BY <1>3, <1>6 DEF SolKept

LEMMA PaySolKeeps ==
  ASSUME TypeOK, SolKept, NEW u \in Users, NEW a \in Nat, a <= lamports, PaySol(u, a)
  PROVE  SolKept'
<1>1. sol \in [Users -> Nat] /\ sol' \in [Users -> Nat] /\ lamports \in Nat
  BY PaySolType DEF TypeOK
<1>2. sol'[u] = sol[u] + a /\ \A x \in Users \ {u} : sol'[x] = sol[x]
  BY <1>1 DEF PaySol
<1>3. IsFiniteSet(Units(sol')) /\ InWallets(sol') = InWallets(sol) + a
  BY <1>1, <1>2, UnitsCredited DEF SolKept
<1>4. InWallets(sol) \in Nat
  BY <1>1, UnitsBound DEF SolKept
<1>5. lamports' = lamports - a
  BY DEF PaySol
<1>6. lamports' + InWallets(sol') = lamports + InWallets(sol)
  BY <1>1, <1>3, <1>4, <1>5
<1> QED BY <1>3, <1>6 DEF SolKept

(* At creation one user pays the missing rent and one, perhaps the same,   *)
(* the SOL.                                                                *)
Paid(U, wallet, after, u, k) ==
  /\ after \in [U -> Nat] /\ wallet[u] = after[u] + k
  /\ \A x \in U \ {u} : after[x] = wallet[x]

LEMMA PaidTwice ==
  ASSUME NEW U, NEW wallet \in [U -> Nat], NEW mid, NEW after,
         NEW u \in U, NEW w \in U, NEW due \in Nat, NEW s \in Nat,
         Paid(U, wallet, mid, u, due), Paid(U, mid, after, w, s),
         IsFiniteSet(Units(wallet))
  PROVE  /\ IsFiniteSet(Units(after))
         /\ InWallets(after) = InWallets(wallet) - (due + s)
<1>1. mid \in [U -> Nat] /\ after \in [U -> Nat]
  BY DEF Paid
<1>2. IsFiniteSet(Units(mid)) /\ InWallets(mid) = InWallets(wallet) - due
  BY <1>1, UnitsDebited DEF Paid
<1>3. IsFiniteSet(Units(after)) /\ InWallets(after) = InWallets(mid) - s
  BY <1>1, <1>2, UnitsDebited DEF Paid
<1>4. InWallets(wallet) \in Nat
  BY UnitsBound
<1> QED BY <1>2, <1>3, <1>4

LEMMA BirthKeepsSol ==
  ASSUME TypeOK, SolKept, NEW u \in Users, NEW w \in Users, NEW due \in Nat, NEW s \in Nat,
         sol[u] >= due, sol[w] >= s + (IF w = u THEN due ELSE 0),
         sol' = [[sol EXCEPT ![u] = @ - due] EXCEPT ![w] = @ - s],
         lamports' = lamports + due + s
  PROVE  SolKept'
<1>1. sol \in [Users -> Nat] /\ lamports \in Nat
  BY DEF TypeOK
<1>2. /\ IsFiniteSet(Units(sol'))
      /\ InWallets(sol') = InWallets(sol) - (due + s)
  <2>1. PICK mid : mid = [sol EXCEPT ![u] = @ - due]
    OBVIOUS
  <2>2. PICK after : after = sol'
    OBVIOUS
  <2>3. Paid(Users, sol, mid, u, due) /\ mid[w] >= s
    BY <1>1, <2>1 DEF Paid
  <2>4. after = [mid EXCEPT ![w] = @ - s]
    BY <2>1, <2>2
  <2>5. Paid(Users, mid, after, w, s)
    BY <2>3, <2>4 DEF Paid
  <2>6. IsFiniteSet(Units(sol))
    BY DEF SolKept
  <2> QED BY <1>1, <2>2, <2>3, <2>5, <2>6, PaidTwice
<1>3. InWallets(sol) \in Nat
  BY <1>1, UnitsBound DEF SolKept
<1>4. lamports' + InWallets(sol') = lamports + InWallets(sol)
  BY <1>1, <1>2, <1>3
<1> QED BY <1>2, <1>4 DEF SolKept

Conserved == SolKept /\ TokKept
Conserves == Conserved' /\ withheld' >= withheld

LEMMA KeptIdle ==
  ASSUME TypeOK
  PROVE  /\ TokKept /\ UNCHANGED <<tok, vault, withheld>> => TokKept' /\ withheld' >= withheld
         /\ SolKept /\ UNCHANGED <<sol, lamports>> => SolKept'
BY DEF TokKept, SolKept, TypeOK

LEMMA CreateConserves ==
  ASSUME Sound, Conserved, NEW u \in Users, NEW w \in Users, NEW s \in Nat, NEW a \in Nat,
         create_pool(u, w, s, a)
  PROVE  Conserves
<1> DEFINE due == SatSub(RENT, lamports)
<1>1. /\ DepositTokens(u, a)
      /\ sol[u] >= due /\ sol[w] >= s + (IF w = u THEN due ELSE 0)
      /\ sol' = [[sol EXCEPT ![u] = @ - due] EXCEPT ![w] = @ - s]
      /\ lamports' = lamports + due + s
  BY DEF create_pool
<1>2. TypeOK /\ SolKept /\ TokKept
  BY DEF Sound, Conserved
<1>3. due \in Nat
  BY <1>2, PoolAssumption DEF SatSub, TypeOK
<1> HIDE DEF due
<1>4. SolKept'
  BY <1>1, <1>2, <1>3, BirthKeepsSol
<1>5. TokKept' /\ withheld' >= withheld
  BY <1>1, <1>2, DepositTokensKeeps
<1> QED BY <1>4, <1>5 DEF Conserved, Conserves

LEMMA BuyConserves ==
  ASSUME Sound, Conserved, NEW u \in Users, NEW w \in Users, NEW a \in Nat, NEW b,
         handle_buy(u, w, a, b)
  PROVE  Conserves
<1> DEFINE e == a - calc_swap_fee(a)
           r == calc_swap_output(e, sol_reserve, vault)
<1>1. /\ created /\ a > 0 /\ calc_swap_fee(a) # None /\ r < vault
      /\ DepositSol(w, a) /\ PayTokens(u, r)
  BY DEF handle_buy, BuyAccepted, BuyOutput, HasReserves
<1>2. TypeOK /\ SolKept /\ TokKept
  BY DEF Sound, Conserved
<1>3. sol_reserve \in Nat \ {0} /\ vault \in Nat
  BY <1>1, AliveFacts
<1>4. e \in Nat
  <2>1. calc_swap_fee(a) \in 1..a
    BY <1>1, SwapFeeBound
  <2> QED BY <2>1
<1> HIDE DEF e
<1>5. r \in Nat
  BY <1>3, <1>4, SwapOutputBound
<1> HIDE DEF r
<1>6. r <= vault
  BY <1>1, <1>3, <1>5
<1>7. SolKept'
  BY <1>1, <1>2, DepositSolKeeps
<1>8. TokKept' /\ withheld' >= withheld
  BY <1>1, <1>2, <1>5, <1>6, PayTokensKeeps
<1> QED BY <1>7, <1>8 DEF Conserved, Conserves

LEMMA SellConserves ==
  ASSUME Sound, Conserved, NEW u \in Users, NEW w \in Users, NEW a \in Nat, NEW b,
         handle_sell(u, w, a, b)
  PROVE  Conserves
<1> DEFINE e == Net(a) - calc_swap_fee(Net(a))
           r == calc_swap_output(e, vault, sol_reserve)
<1>1. /\ created /\ Net(a) > 0 /\ calc_swap_fee(Net(a)) # None /\ r < sol_reserve
      /\ DepositTokens(u, a) /\ PaySol(w, r)
  BY DEF handle_sell, SellAccepted, SellOutput, HasReserves
<1>2. TypeOK /\ SolKept /\ TokKept /\ RENT \in Nat /\ lamports \in Nat
  BY PoolAssumption DEF Sound, Conserved, TypeOK
<1>3. sol_reserve \in Nat /\ vault \in Nat \ {0} /\ sol_reserve = lamports - RENT
  BY <1>1, AliveFacts
<1>4. e \in Nat
  <2>1. Net(a) \in Nat
    BY NetRange
  <2>2. calc_swap_fee(Net(a)) \in 1..Net(a)
    BY <1>1, <2>1, SwapFeeBound
  <2> QED BY <2>1, <2>2
<1> HIDE DEF e
<1>5. r \in Nat
  BY <1>3, <1>4, SwapOutputBound
<1> HIDE DEF r
<1>6. r <= lamports
  BY <1>1, <1>2, <1>3, <1>5
<1>7. SolKept'
  BY <1>1, <1>2, <1>5, <1>6, PaySolKeeps
<1>8. TokKept' /\ withheld' >= withheld
  BY <1>1, <1>2, DepositTokensKeeps
<1> QED BY <1>7, <1>8 DEF Conserved, Conserves

LEMMA AddConserves ==
  ASSUME Sound, Conserved, NEW u \in Users, NEW a \in Nat, NEW m, NEW b,
         add_liquidity(u, a, m, b)
  PROVE  Conserves
<1> DEFINE c == sol_required(Net(a))
<1>1. created /\ c > 0 /\ DepositTokens(u, a) /\ DepositSol(u, c)
  BY DEF add_liquidity, HasReserves
<1>2. TypeOK /\ SolKept /\ TokKept
  BY DEF Sound, Conserved
<1>3. sol_reserve \in Nat /\ vault \in Nat \ {0} /\ Net(a) \in Nat
  BY <1>1, AliveFacts, NetRange
<1>4. c \in Nat
  BY <1>1, <1>3, ProportionalCeilBound DEF sol_required, None
<1> HIDE DEF c
<1>5. SolKept'
  BY <1>1, <1>2, <1>4, DepositSolKeeps
<1>6. TokKept' /\ withheld' >= withheld
  BY <1>1, <1>2, DepositTokensKeeps
<1> QED BY <1>5, <1>6 DEF Conserved, Conserves

LEMMA RemoveConserves ==
  ASSUME Sound, Conserved, NEW u \in Users, NEW a \in Nat, NEW b, NEW c,
         remove_liquidity(u, a, b, c)
  PROVE  Conserves
<1> DEFINE x == RedeemedSol(a)
           y == RedeemedTokens(a)
<1>1. /\ created /\ x # None /\ y # None
      /\ sol_reserve - x >= MIN_POOL_RESERVE_SOL
      /\ vault - y >= MIN_POOL_RESERVE_TOKENS
      /\ PayTokens(u, y) /\ PaySol(u, x)
  BY DEF remove_liquidity, RemoveAccepted, HasReserves, AboveRetentionFloor
<1>2. /\ TypeOK /\ SolKept /\ TokKept /\ RENT \in Nat /\ lamports \in Nat
      /\ MIN_POOL_RESERVE_SOL \in Nat /\ MIN_POOL_RESERVE_TOKENS \in Nat
  BY PoolAssumption DEF Sound, Conserved, TypeOK
<1>3. /\ sol_reserve \in Nat /\ sol_reserve = lamports - RENT
      /\ vault \in Nat /\ supply \in Nat \ {0}
  BY <1>1, AliveFacts
<1>4. x \in Nat /\ y \in Nat
  BY <1>1, <1>3, LpRedeemBound DEF RedeemedSol, RedeemedTokens
<1> HIDE DEF x, y
<1>5. x <= lamports /\ y <= vault
  BY <1>1, <1>2, <1>3, <1>4
<1>6. SolKept'
  BY <1>1, <1>2, <1>4, <1>5, PaySolKeeps
<1>7. TokKept' /\ withheld' >= withheld
  BY <1>1, <1>2, <1>4, <1>5, PayTokensKeeps
<1> QED BY <1>6, <1>7 DEF Conserved, Conserves

LEMMA ConservedStep ==
  ASSUME Sound, Conserved, [Next]_vars
  PROVE  Conserves
<1>1. TypeOK /\ SolKept /\ TokKept
  BY DEF Sound, Conserved
<1>2. CASE Tick \/ UNCHANGED vars
  <2>1. UNCHANGED <<tok, vault, withheld>> /\ UNCHANGED <<sol, lamports>>
    BY <1>2 DEF Tick, advance_slot, vars, reserves
  <2> QED BY <1>1, <2>1, KeptIdle DEF Conserved, Conserves
<1>3. ASSUME NEW u \in Users, Create(u) PROVE Conserves
  <2>1. PICK w \in Users, x \in InitialAmounts : create_pool(u, w, x[1], x[2])
    BY <1>3 DEF Create
  <2>2. x[1] \in Nat /\ x[2] \in Nat
    BY PoolAssumption
  <2> QED BY <2>1, <2>2, CreateConserves
<1>4. ASSUME NEW u \in Users, Buy(u) PROVE Conserves
  <2>1. PICK w \in Users, x \in SwapAmounts, b \in Bounds : handle_buy(u, w, x, b)
    BY <1>4 DEF Buy
  <2> QED BY <2>1, BuyConserves, PoolAssumption
<1>5. ASSUME NEW u \in Users, Sell(u) PROVE Conserves
  <2>1. PICK w \in Users, x \in SwapAmounts, b \in Bounds : handle_sell(u, w, x, b)
    BY <1>5 DEF Sell
  <2> QED BY <2>1, SellConserves, PoolAssumption
<1>6. ASSUME NEW u \in Users, Add(u) PROVE Conserves
  <2>1. PICK x \in DepositAmounts, m \in MaxBounds, b \in Bounds : add_liquidity(u, x, m, b)
    BY <1>6 DEF Add
  <2> QED BY <2>1, AddConserves, PoolAssumption
<1>7. ASSUME NEW u \in Users, Remove(u) PROVE Conserves
  <2>1. PICK x \in RedeemAmounts, b \in Bounds, c \in Bounds : remove_liquidity(u, x, b, c)
    BY <1>7 DEF Remove
  <2> QED BY <2>1, RemoveConserves, PoolAssumption
<1>8. ASSUME NEW u \in Users, External(u) PROVE Conserves
  <2>1. PICK a \in GiftAmounts :
          \/ gift_sol(u, a) \/ gift_tokens(u, a) \/ lp_to_pool(u, a) \/ lp_self_burn(u, a)
          \/ \E v \in Users : lp_transfer(u, v, a)
    BY <1>8 DEF External
  <2>2. a \in Nat
    BY PoolAssumption
  <2>3. CASE gift_sol(u, a)
    <3>1. DepositSol(u, a) /\ UNCHANGED <<tok, vault, withheld>>
      BY <2>3 DEF gift_sol
    <3> QED BY <1>1, <2>2, <3>1, DepositSolKeeps, KeptIdle DEF Conserved, Conserves
  <2>4. CASE gift_tokens(u, a)
    <3>1. DepositTokens(u, a) /\ UNCHANGED <<sol, lamports>>
      BY <2>4 DEF gift_tokens
    <3> QED BY <1>1, <2>2, <3>1, DepositTokensKeeps, KeptIdle DEF Conserved, Conserves
  <2>5. CASE lp_to_pool(u, a) \/ lp_self_burn(u, a) \/ \E v \in Users : lp_transfer(u, v, a)
    <3>1. UNCHANGED <<tok, vault, withheld>> /\ UNCHANGED <<sol, lamports>>
      BY <2>5 DEF lp_to_pool, lp_self_burn, lp_transfer, reserves
    <3> QED BY <1>1, <3>1, KeptIdle DEF Conserved, Conserves
  <2> QED BY <2>1, <2>3, <2>4, <2>5
<1> QED BY <1>2, <1>3, <1>4, <1>5, <1>6, <1>7, <1>8 DEF Next, Step

LEMMA ConservedFirst == Init => Conserved
<1>1. ASSUME Init PROVE Conserved
  <2>1. /\ lamports = 0 /\ vault = 0 /\ withheld = 0
        /\ sol = SolEndowment /\ tok = TokEndowment
    BY <1>1 DEF Init
  <2>2. IsFiniteSet(Units(SolEndowment)) /\ IsFiniteSet(Units(TokEndowment))
    BY EndowmentAssumption
  <2>3. InWallets(SolEndowment) \in Nat /\ InWallets(TokEndowment) \in Nat
    BY <2>2, FS_CardinalityType DEF InWallets
  <2> QED BY <2>1, <2>2, <2>3 DEF Conserved, SolKept, TokKept
<1> QED BY <1>1

(* No instruction mints or loses an asset: the lamports of the pool and    *)
(* the wallets, and the tokens of the vault, the wallets and the withheld  *)
(* fees, add up to what there was at the start.                            *)
THEOREM AssetsAreConserved == Spec => []Conserved
<1>1. IInv /\ Conserved /\ [Next]_vars => Conserved'
  BY ConservedStep DEF IInv, Conserves
<1> QED BY <1>1, ConservedFirst, SpecIInv, PTL DEF Spec

(* Hence the reserves are u64 amounts, and the unchecked cast `as u64` of  *)
(* calc_swap_output drops nothing in any reachable state, for any input:   *)
(* both directions of a swap pay the exact quotient.                       *)
SwapsAreExact ==
  created =>
    \A e \in Nat :
      /\ calc_swap_output(e, sol_reserve, vault) = (e * vault) \div (sol_reserve + e)
      /\ calc_swap_output(e, vault, sol_reserve) = (e * sol_reserve) \div (vault + e)

LEMMA ReservesAreU64 ==
  ASSUME Sound, Conserved
  PROVE  lamports \in 0..U64_MAX /\ vault \in 0..U64_MAX
<1>1. /\ lamports \in Nat /\ vault \in Nat /\ withheld \in Nat
      /\ sol \in [Users -> Nat] /\ tok \in [Users -> Nat] /\ last.user \in Users
  BY DEF Sound, TypeOK
<1>2. InWallets(sol) \in Nat /\ InWallets(tok) \in Nat
  BY <1>1, UnitsBound DEF Conserved, SolKept, TokKept
<1>3. /\ lamports + InWallets(sol) = InWallets(SolEndowment)
      /\ vault + withheld + InWallets(tok) = InWallets(TokEndowment)
  BY DEF Conserved, SolKept, TokKept
<1>4. /\ InWallets(SolEndowment) <= U64_MAX /\ InWallets(TokEndowment) <= U64_MAX
      /\ U64_MAX \in Nat
  BY EndowmentAssumption, MathAssumption
<1> QED BY <1>1, <1>2, <1>3, <1>4

THEOREM NoSwapIsTruncated == Spec => []SwapsAreExact
<1>1. ASSUME Sound, Conserved, created, NEW e \in Nat
      PROVE  /\ calc_swap_output(e, sol_reserve, vault) = (e * vault) \div (sol_reserve + e)
             /\ calc_swap_output(e, vault, sol_reserve) = (e * sol_reserve) \div (vault + e)
  <2>1. /\ sol_reserve \in Nat \ {0} /\ vault \in Nat \ {0}
        /\ sol_reserve = lamports - RENT /\ RENT \in Nat /\ U64_MAX \in Nat
    BY <1>1, AliveFacts, PoolAssumption, MathAssumption
  <2>2. lamports \in 0..U64_MAX /\ vault \in 0..U64_MAX
    BY <1>1, ReservesAreU64
  <2>3. sol_reserve \in 0..U64_MAX
    BY <2>1, <2>2
  <2> QED BY <2>1, <2>2, <2>3, SwapOutputNotTruncated
<1>2. IInv /\ Conserved => SwapsAreExact
  BY <1>1 DEF SwapsAreExact, IInv
<1> QED BY <1>2, SpecIInv, AssetsAreConserved, PTL

(* Redemptions: what everybody but the locked share can redeem leaves the  *)
(* locked share's worth, rounded up.                                       *)
LEMMA FloorRemains ==
  ASSUME NEW R \in Nat, NEW S \in Nat \ {0}, NEW L \in Nat, NEW m \in Nat \ {0},
         NEW a \in Nat, NEW r \in Nat,
         a + L <= S, r * S <= a * R, R * L > (m - 1) * S
  PROVE  r <= R /\ R - r >= m
<1>1. a \in 0..S /\ a <= S
  OBVIOUS
<1>2. r <= R
  <2>1. a * R <= S * R
    BY <1>1, MulMono
  <2>2. r * S <= R * S
    BY <2>1
  <2> QED BY <2>2, MulCancel
<1>3. (R - r) * S >= R * (S - a)
  BY <1>1, <1>2, RedemptionKeeps
<1>4. R * (S - a) >= R * L
  <2>1. S - a \in Nat /\ L <= S - a
    OBVIOUS
  <2> QED BY <2>1, MulMono
<1>5. ASSUME R - r <= m - 1 PROVE FALSE
  <2>1. R - r \in Nat /\ m - 1 \in Nat
    BY <1>2
  <2>2. (R - r) * S <= (m - 1) * S
    BY <1>5, <2>1, MulMono
  <2>3. /\ (R - r) * S \in Nat /\ R * (S - a) \in Nat
        /\ R * L \in Nat /\ (m - 1) * S \in Nat
    BY <1>1, <2>1, MulPos
  <2> QED BY <1>3, <1>4, <2>2, <2>3
<1> QED BY <1>2, <1>5

(* No LP is frozen while the locked share is worth the retention floor.    *)
THEOREM HoldersMayLeave == Spec => []HoldersCanExit
<1>1. ASSUME Sound, Conserved, created, LockCoversFloor,
             NEW u \in Users, NEW a \in 1..lp[u]
      PROVE  RemoveAccepted(u, a, 0, 0)
  <2> DEFINE x == RedeemedSol(a)
             y == RedeemedTokens(a)
  <2>1. /\ sol_reserve \in Nat \ {0} /\ vault \in Nat \ {0}
        /\ sol_reserve = lamports - RENT /\ RENT \in Nat
        /\ supply \in Nat \ {0} /\ locked \in Nat /\ locked <= supply
        /\ MIN_POOL_RESERVE_SOL \in Nat \ {0} /\ MIN_POOL_RESERVE_TOKENS \in Nat \ {0}
    BY <1>1, AliveFacts, PoolAssumption
  <2>2. a \in Nat /\ a > 0 /\ a <= lp[u] /\ a + locked <= supply
    <3>1. lp \in [Users -> Nat] /\ IsFiniteSet(Units(lp)) /\ supply = locked + InWallets(lp)
      BY <1>1 DEF Sound, LpInv, LpAccounted
    <3>2. InWallets(lp) \in Nat /\ lp[u] <= InWallets(lp) /\ lp[u] \in Nat
      BY <3>1, UnitsBound
    <3> QED BY <2>1, <3>1, <3>2
  <2>3. sol_reserve \in U64 /\ vault \in U64 /\ a \in 0..supply
    <3>1. lamports \in 0..U64_MAX /\ vault \in 0..U64_MAX /\ U64_MAX \in Nat
      BY <1>1, ReservesAreU64, MathAssumption
    <3> QED BY <2>1, <2>2, <3>1 DEF U64
  <2>4. /\ x = (a * sol_reserve) \div supply /\ y = (a * vault) \div supply
        /\ x \in Nat /\ y \in Nat /\ x # None /\ y # None
    <3>1. /\ calc_lp_redeem(a, sol_reserve, supply) = (a * sol_reserve) \div supply
          /\ (a * sol_reserve) \div supply \in 0..sol_reserve
      BY <2>1, <2>3, RedeemIsQuotient
    <3>2. /\ calc_lp_redeem(a, vault, supply) = (a * vault) \div supply
          /\ (a * vault) \div supply \in 0..vault
      BY <2>1, <2>3, RedeemIsQuotient
    <3>3. None \notin Nat
      BY DEF None
    <3> QED BY <2>1, <3>1, <3>2, <3>3 DEF RedeemedSol, RedeemedTokens
  <2>5. x * supply <= a * sol_reserve /\ y * supply <= a * vault
    <3>1. a * sol_reserve \in Nat /\ a * vault \in Nat
      BY <2>1, <2>2, MulPos
    <3>2. /\ supply * ((a * sol_reserve) \div supply) <= a * sol_reserve
          /\ supply * ((a * vault) \div supply) <= a * vault
      BY <2>1, <3>1, DivFacts
    <3>3. supply * x <= a * sol_reserve /\ supply * y <= a * vault
      BY <2>4, <3>2
    <3> HIDE DEF x, y
    <3> QED BY <2>1, <2>4, <3>3
  <2> HIDE DEF x, y
  <2>6. sol_reserve - x >= MIN_POOL_RESERVE_SOL
    <3>1. sol_reserve * locked > (MIN_POOL_RESERVE_SOL - 1) * supply
      BY <1>1 DEF LockCoversFloor
    <3> QED BY <2>1, <2>2, <2>4, <2>5, <3>1, FloorRemains
  <2>7. vault - y >= MIN_POOL_RESERVE_TOKENS
    <3>1. vault * locked > (MIN_POOL_RESERVE_TOKENS - 1) * supply
      BY <1>1 DEF LockCoversFloor
    <3> QED BY <2>1, <2>2, <2>4, <2>5, <3>1, FloorRemains
  <2>8. lp[u] >= a /\ x >= 0 /\ y >= 0 /\ supply > 0 /\ HasReserves
    BY <1>1, <2>1, <2>2, <2>4 DEF HasReserves
  <2> QED BY <2>2, <2>4, <2>6, <2>7, <2>8 DEF RemoveAccepted, AboveRetentionFloor, x, y
<1>2. IInv /\ Conserved => HoldersCanExit
  BY <1>1 DEF HoldersCanExit, IInv
<1> QED BY <1>2, SpecIInv, AssetsAreConserved, PTL

(* The worth of the locked share per unit of LP carries over.              *)
LEMMA WorthOfLock ==
  ASSUME NEW R \in Nat, NEW S \in Nat \ {0}, NEW L \in Nat,
         NEW R1 \in Nat, NEW S1 \in Nat \ {0}, NEW L1 \in Nat, NEW k \in Nat,
         R1 * S >= R * S1, L1 >= L, R * L > k * S
  PROVE  R1 * L1 > k * S1
<1>1. /\ R1 * L1 \in Nat /\ k * S1 \in Nat /\ R * L \in Nat /\ k * S \in Nat
      /\ R1 * S \in Nat /\ R * S1 \in Nat
  BY MulPos
<1>2. (R * S1) * L <= (R1 * S) * L1
  BY <1>1, MulMono
<1>3. SUFFICES ASSUME R1 * L1 <= k * S1 PROVE FALSE
  BY <1>1
<1>4. (R1 * L1) * S <= (k * S1) * S
  BY <1>1, <1>3, MulMono
<1>5. (k * S) * S1 < (R * L) * S1
  BY <1>1
<1>6. /\ (R * S1) * L = (R * L) * S1
      /\ (R1 * S) * L1 = (R1 * L1) * S
      /\ (k * S1) * S = (k * S) * S1
  OBVIOUS
<1> QED BY <1>1, <1>2, <1>4, <1>5, <1>6

(* Only trades can bring a pool below that condition: no deposit,          *)
(* redemption, gift, transfer or burn of one holder closes the exits of    *)
(* the others.                                                             *)
THEOREM ExitsStayOpen ==
  Spec => [][created /\ LockCoversFloor /\ last'.op \notin {"buy", "sell"}
               => LockCoversFloor']_vars
<1>1. ASSUME Sound, [Next]_vars, created, LockCoversFloor,
             last'.op \notin {"buy", "sell"}
      PROVE  LockCoversFloor'
  <2>1. Sound' /\ created' /\ locked' >= locked /\ Kept
    BY <1>1, NextEffect DEF StepEffect
  <2>2. /\ sol_reserve \in Nat /\ vault \in Nat
        /\ supply \in Nat \ {0} /\ locked \in Nat
    BY <1>1, AliveFacts
  <2>3. /\ sol_reserve' \in Nat /\ vault' \in Nat
        /\ supply' \in Nat \ {0} /\ locked' \in Nat
    BY <2>1, AliveAfter
  <2>4. /\ MIN_POOL_RESERVE_SOL - 1 \in Nat /\ MIN_POOL_RESERVE_TOKENS - 1 \in Nat
    BY PoolAssumption
  <2>5. /\ sol_reserve * locked > (MIN_POOL_RESERVE_SOL - 1) * supply
        /\ vault * locked > (MIN_POOL_RESERVE_TOKENS - 1) * supply
    BY <1>1 DEF LockCoversFloor
  <2>6. sol_reserve' * locked' > (MIN_POOL_RESERVE_SOL - 1) * supply'
    BY <2>1, <2>2, <2>3, <2>4, <2>5, WorthOfLock DEF Kept
  <2>7. vault' * locked' > (MIN_POOL_RESERVE_TOKENS - 1) * supply'
    BY <2>1, <2>2, <2>3, <2>4, <2>5, WorthOfLock DEF Kept
  <2> QED BY <2>6, <2>7 DEF LockCoversFloor
<1>2. IInv /\ [Next]_vars =>
        [created /\ LockCoversFloor /\ last'.op \notin {"buy", "sell"}
           => LockCoversFloor']_vars
  BY <1>1 DEF IInv
<1> QED BY <1>2, SpecIInv, PTL DEF Spec
=============================================================================
