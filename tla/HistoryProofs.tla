--------------------------- MODULE HistoryProofs ---------------------------
(***************************************************************************)
(* Theorems about the oracle of DeepPool and about what the pool remembers *)
(* (DeepPoolHistory), for every ring size, spacing and modulus of the      *)
(* accumulators.                                                           *)
(***************************************************************************)
EXTENDS DeepPoolHistory, DeepPoolProofs

(* How many snapshots were written after entry i, if the head is at h.     *)
AgeFrom(h, i) == (h - 1 - i) % TWAP_RING_SIZE

-----------------------------------------------------------------------------
(* The ring.                                                               *)

LEMMA AgeValue ==
  ASSUME NEW h \in Index, NEW i \in Index
  PROVE  AgeFrom(h, i) = IF i < h THEN h - 1 - i ELSE h - 1 - i + TWAP_RING_SIZE
<1> DEFINE S == TWAP_RING_SIZE
           d == h - 1 - i
           v == IF i < h THEN d ELSE d + S
<1>1. S \in Nat \ {0} /\ h \in 0..(S - 1) /\ i \in 0..(S - 1)
  BY OracleAssumption DEF Index
<1>2. d \in Int /\ v \in 0..(S - 1) /\ \E k \in {0, 1} : v = d + S * k
  <2>1. CASE i < h
    BY <1>1, <2>1
  <2>2. CASE ~(i < h)
    BY <1>1, <2>2
  <2> QED BY <2>1, <2>2
<1> HIDE DEF S, d, v
<1>3. d % S \in 0..(S - 1) /\ d \div S \in Int /\ d = S * (d \div S) + (d % S)
  BY <1>1, <1>2, ModMultiple
<1>4. PICK k \in {0, 1} : v = d + S * k
  BY <1>2
<1>5. v = S * (d \div S + k) + (d % S)
  <2> DEFINE q == d \div S
             r == d % S
  <2>1. q \in Int /\ r \in Int /\ k \in Int /\ d = S * q + r
    BY <1>3
  <2> HIDE DEF q, r
  <2>2. S * (q + k) = S * q + S * k
    BY <1>1, <2>1
  <2>3. S * q \in Int /\ S * k \in Int
    BY <1>1, <2>1
  <2> QED BY <1>4, <2>1, <2>2, <2>3 DEF q, r
<1>6. d \div S + k \in Int
  BY <1>3
<1>7. v = d % S
  BY <1>1, <1>2, <1>3, <1>5, <1>6, ModUnique
<1> QED BY <1>7 DEF AgeFrom, S, d, v

LEMMA NextHead ==
  ASSUME NEW h \in Index
  PROVE  /\ (h + 1) % TWAP_RING_SIZE \in Index
         /\ (h + 1) % TWAP_RING_SIZE = IF h = TWAP_RING_SIZE - 1 THEN 0 ELSE h + 1
<1> DEFINE S == TWAP_RING_SIZE
<1>1. S \in Nat \ {0} /\ h \in 0..(S - 1)
  BY OracleAssumption DEF Index
<1> HIDE DEF S
<1>2. (h + 1) % S \in 0..(S - 1) /\ (h + 1 < S => (h + 1) % S = h + 1)
  <2>1. h + 1 \in Nat
    BY <1>1
  <2> QED BY <1>1, <2>1, ModFacts
<1>3. ASSUME h = S - 1 PROVE (h + 1) % S = 0
  <2>1. S = S * 1 + 0 /\ S % S \in 0..(S - 1) /\ S \div S \in Int
        /\ S = S * (S \div S) + (S % S)
    BY <1>1, ModMultiple
  <2>2. 0 = S * (S \div S - 1) + (S % S)
    <3> DEFINE q == S \div S
               r == S % S
    <3>1. q \in Int /\ r \in Int /\ S = S * q + r
      BY <2>1
    <3> HIDE DEF q, r
    <3>2. S * (q - 1) = S * q - S
      BY <1>1, <3>1
    <3>3. S * q \in Int
      BY <1>1, <3>1
    <3> QED BY <1>1, <3>1, <3>2, <3>3 DEF q, r
  <2>3. 0 \in 0..(S - 1) /\ S \div S - 1 \in Int
    BY <1>1, <2>1
  <2>4. 0 = S % S
    BY <1>1, <2>1, <2>2, <2>3, ModUnique
  <2> QED BY <1>1, <1>3, <2>4
<1> QED BY <1>1, <1>2, <1>3 DEF S, Index

(* Ages tell entries apart.                                                *)
LEMMA Ages ==
  ASSUME NEW h \in Index, NEW i \in Index
  PROVE  /\ AgeFrom(h, i) \in 0..(TWAP_RING_SIZE - 1)
         /\ AgeFrom(h, h) = TWAP_RING_SIZE - 1
         /\ i # h => AgeFrom(h, i) < TWAP_RING_SIZE - 1
         /\ \A j \in Index : AgeFrom(h, i) = AgeFrom(h, j) => i = j
<1>1. TWAP_RING_SIZE \in Nat \ {0} /\ Index = 0..(TWAP_RING_SIZE - 1)
  BY OracleAssumption DEF Index
<1>2. \A j \in Index :
        AgeFrom(h, j) = IF j < h THEN h - 1 - j ELSE h - 1 - j + TWAP_RING_SIZE
  BY AgeValue
<1> QED BY <1>1, <1>2

(* Writing the entry at the head makes it the newest and every other one   *)
(* older by one.                                                           *)
LEMMA AgesShift ==
  ASSUME NEW h \in Index, NEW i \in Index
  PROVE  LET n == (h + 1) % TWAP_RING_SIZE
         IN  AgeFrom(n, i) = IF i = h THEN 0 ELSE AgeFrom(h, i) + 1
<1> DEFINE n == (h + 1) % TWAP_RING_SIZE
<1>1. TWAP_RING_SIZE \in Nat \ {0} /\ Index = 0..(TWAP_RING_SIZE - 1)
  BY OracleAssumption DEF Index
<1>2. n \in Index /\ n = IF h = TWAP_RING_SIZE - 1 THEN 0 ELSE h + 1
  BY NextHead
<1> HIDE DEF n
<1>3. AgeFrom(h, i) = IF i < h THEN h - 1 - i ELSE h - 1 - i + TWAP_RING_SIZE
  BY AgeValue
<1>4. AgeFrom(n, i) = IF i < n THEN n - 1 - i ELSE n - 1 - i + TWAP_RING_SIZE
  BY <1>2, AgeValue
<1>5. AgeFrom(n, i) = IF i = h THEN 0 ELSE AgeFrom(h, i) + 1
  BY <1>1, <1>2, <1>3, <1>4
<1> QED BY <1>5 DEF n

(* newest_obs reads the entry of age 0.                                    *)
Newest(h) == IF h = 0 THEN TWAP_RING_SIZE - 1 ELSE h - 1

LEMMA NewestAge ==
  ASSUME NEW h \in Index
  PROVE  Newest(h) \in Index /\ AgeFrom(h, Newest(h)) = 0
<1>1. TWAP_RING_SIZE \in Nat \ {0} /\ Index = 0..(TWAP_RING_SIZE - 1)
  BY OracleAssumption DEF Index
<1>2. Newest(h) \in Index
  BY <1>1 DEF Newest
<1>3. AgeFrom(h, Newest(h))
        = IF Newest(h) < h THEN h - 1 - Newest(h) ELSE h - 1 - Newest(h) + TWAP_RING_SIZE
  BY <1>2, AgeValue
<1> QED BY <1>1, <1>2, <1>3 DEF Newest

(* Some entry has each age.                                                *)
LEMMA AgeTaken ==
  ASSUME NEW h \in Index, NEW a \in 0..(TWAP_RING_SIZE - 1)
  PROVE  \E i \in Index : AgeFrom(h, i) = a
<1>1. TWAP_RING_SIZE \in Nat \ {0} /\ Index = 0..(TWAP_RING_SIZE - 1)
  BY OracleAssumption DEF Index
<1> DEFINE i == IF a < h THEN h - 1 - a ELSE h - 1 - a + TWAP_RING_SIZE
<1>2. i \in Index
  BY <1>1
<1>3. AgeFrom(h, i) = IF i < h THEN h - 1 - i ELSE h - 1 - i + TWAP_RING_SIZE
  BY <1>2, AgeValue
<1>4. AgeFrom(h, i) = a
  BY <1>1, <1>3
<1> QED BY <1>2, <1>4

-----------------------------------------------------------------------------
(* What record_observation does, field by field.                           *)

Snapshot(o, now) ==
  [slot |-> now, cum_sol_per_tok |-> o.cum_sol_per_tok,
   cum_tok_per_sol |-> o.cum_tok_per_sol]

(* The newest entry is a spacing old, and the one at the head is replaced. *)
Snapped(o, r, now) ==
  /\ SatSub(now, o.observations[Newest(o.obs_head)].slot) >= MIN_OBS_SPACING_SLOTS
  /\ r.observations = [o.observations EXCEPT ![o.obs_head] = Snapshot(r, now)]
  /\ r.obs_head = (o.obs_head + 1) % TWAP_RING_SIZE
SameRing(o, r) == r.observations = o.observations /\ r.obs_head = o.obs_head

LEMMA RecordEffect ==
  ASSUME NEW o \in Oracle, NEW a \in Nat \ {0}, NEW b \in Nat \ {0}, NEW now \in Nat
  PROVE  LET r == record_observation(o, a, b, now)
         IN  /\ now <= o.last_cum_slot => r = o
             /\ now > o.last_cum_slot =>
                  /\ r.last_cum_slot = now
                  /\ a < MIN_SPOT_RESERVE =>
                       SameRing(o, r) /\ r.cum_sol_per_tok = o.cum_sol_per_tok
                  /\ a >= MIN_SPOT_RESERVE =>
                       /\ r.cum_sol_per_tok =
                            accumulate_price(o.cum_sol_per_tok, price_q64(a, b),
                                             now - o.last_cum_slot)
                       /\ SameRing(o, r) \/ Snapped(o, r, now)
<1> DEFINE r == record_observation(o, a, b, now)
           acc == Accumulated(o, a, b, now)
           cum == accumulate_price(o.cum_sol_per_tok, price_q64(a, b), now - o.last_cum_slot)
<1>1. /\ o.last_cum_slot \in Nat /\ o.obs_head \in Index
      /\ o.observations \in [Index -> Observation]
  BY DEF Oracle
<1>2. CASE now <= o.last_cum_slot
  BY <1>1, <1>2 DEF record_observation
<1>3. CASE now > o.last_cum_slot
  <2>1. ~(now <= o.last_cum_slot)
    BY <1>1, <1>3
  <2>2. CASE a < MIN_SPOT_RESERVE
    <3>1. r = [o EXCEPT !.last_cum_slot = now]
      BY <2>1, <2>2 DEF record_observation
    <3>2. /\ r.last_cum_slot = now /\ r.observations = o.observations
          /\ r.obs_head = o.obs_head /\ r.cum_sol_per_tok = o.cum_sol_per_tok
      BY <3>1 DEF Oracle
    <3>3. ~(a >= MIN_SPOT_RESERVE)
      BY <2>2, OracleAssumption
    <3> QED BY <2>1, <3>2, <3>3 DEF SameRing
  <2>3. CASE ~(a < MIN_SPOT_RESERVE)
    <3>1. acc \in Oracle
      BY <1>1, <1>3, AccumulatedType
    <3>2. /\ acc.last_cum_slot = now /\ acc.observations = o.observations
          /\ acc.obs_head = o.obs_head /\ acc.cum_sol_per_tok = cum
      BY DEF Accumulated, Oracle
    <3>3. newest_obs(acc) = o.observations[Newest(o.obs_head)]
      BY <3>2 DEF newest_obs, Newest
    <3>4. r = IF SatSub(now, newest_obs(acc).slot) >= MIN_OBS_SPACING_SLOTS
              THEN write_observation(acc, now) ELSE acc
      BY <2>1, <2>3 DEF record_observation
    <3> HIDE DEF acc, r, cum
    <3>5. CASE r = acc
      BY <2>1, <2>3, <3>2, <3>5 DEF r, SameRing, cum
    <3>6. CASE /\ SatSub(now, newest_obs(acc).slot) >= MIN_OBS_SPACING_SLOTS
               /\ r = write_observation(acc, now)
      <4>1. /\ r.last_cum_slot = now /\ r.cum_sol_per_tok = cum
            /\ r.cum_tok_per_sol = acc.cum_tok_per_sol
            /\ r.obs_head = (o.obs_head + 1) % TWAP_RING_SIZE
            /\ r.observations =
                 [o.observations EXCEPT ![o.obs_head] =
                    [slot |-> now, cum_sol_per_tok |-> acc.cum_sol_per_tok,
                     cum_tok_per_sol |-> acc.cum_tok_per_sol]]
        BY <3>1, <3>2, <3>6 DEF write_observation, Oracle
      <4>2. Snapped(o, r, now)
        BY <3>2, <3>3, <3>6, <4>1 DEF Snapped, Snapshot
      <4> QED BY <2>1, <2>3, <4>1, <4>2 DEF r, cum
    <3> QED BY <3>4, <3>5, <3>6
  <2> QED BY <2>2, <2>3
<1> QED BY <1>1, <1>2, <1>3

-----------------------------------------------------------------------------
(* What a step does to the oracle.                                         *)
Idle == UNCHANGED <<oracle, created>> /\ slot' \in Nat /\ slot' >= slot
Born == ~created /\ created' /\ oracle' = init_oracle(slot) /\ slot' = slot
Traded ==
  /\ created /\ created' /\ slot' = slot
  /\ last'.op \in {"buy", "sell"}
  /\ oracle' = record_observation(oracle, sol_reserve, vault, slot)

LEMMA OracleMoves ==
  ASSUME Sound, [Next]_vars
  PROVE  /\ Idle \/ Born \/ Traded
         /\ slot' = slot /\ last'.op \in {"buy", "sell"} => Traded \/ UNCHANGED vars
<1>1. slot \in Nat /\ SlotSteps \subseteq Nat \ {0}
  BY PoolAssumption DEF Sound, TypeOK
<1>2. CASE UNCHANGED vars
  BY <1>1, <1>2 DEF vars, Idle
<1>3. CASE Tick
  <2>1. PICK d \in SlotSteps : advance_slot(d)
    BY <1>3 DEF Tick
  <2>2. slot' = slot + d /\ UNCHANGED <<oracle, created>>
    BY <2>1 DEF advance_slot, reserves
  <2> QED BY <1>1, <2>2 DEF Idle
<1>4. ASSUME NEW u \in Users, Create(u) PROVE Born /\ last'.op = "create"
  BY <1>4 DEF Create, create_pool, Born, Called
<1>5. ASSUME NEW u \in Users, Buy(u) PROVE Traded
  BY <1>5 DEF Buy, handle_buy, BuyAccepted, AdvanceOracle, HasReserves, Traded, Called
<1>6. ASSUME NEW u \in Users, Sell(u) PROVE Traded
  BY <1>6 DEF Sell, handle_sell, SellAccepted, AdvanceOracle, HasReserves, Traded, Called
<1>7. ASSUME NEW u \in Users, Add(u) PROVE Idle /\ last'.op = "add"
  BY <1>1, <1>7 DEF Add, add_liquidity, Idle, Called
<1>8. ASSUME NEW u \in Users, Remove(u) PROVE Idle /\ last'.op = "remove"
  BY <1>1, <1>8 DEF Remove, remove_liquidity, RemoveAccepted, Idle, Called
<1>9. ASSUME NEW u \in Users, External(u)
      PROVE  Idle /\ last'.op \notin {"buy", "sell"}
  <2>1. PICK x \in GiftAmounts :
          \/ gift_sol(u, x) \/ gift_tokens(u, x) \/ lp_to_pool(u, x)
          \/ lp_self_burn(u, x) \/ \E v \in Users : lp_transfer(u, v, x)
    BY <1>9 DEF External
  <2> QED BY <1>1, <2>1 DEF gift_sol, gift_tokens, lp_to_pool, lp_self_burn, lp_transfer,
                            reserves, Idle, Called
<1> QED BY <1>2, <1>3, <1>4, <1>5, <1>6, <1>7, <1>8, <1>9 DEF Next, Step

-----------------------------------------------------------------------------
(* RingOrdered is inductive, given the types.  It is stated of an oracle   *)
(* here, to speak of the one that a swap leaves.                           *)
Spaced(o, i, j) ==
  AgeFrom(o.obs_head, i) < AgeFrom(o.obs_head, j) /\ o.observations[j].slot # 0 =>
    o.observations[i].slot >=
      o.observations[j].slot
        + MIN_OBS_SPACING_SLOTS * (AgeFrom(o.obs_head, j) - AgeFrom(o.obs_head, i))
RingGood(o) ==
  \A i \in Index :
    /\ o.observations[i].slot <= o.last_cum_slot
    /\ \A j \in Index : Spaced(o, i, j)

LEMMA SnapKeepsRing ==
  ASSUME NEW o \in Oracle, NEW r \in Oracle, NEW now \in Nat, RingGood(o),
         now > o.last_cum_slot, r.last_cum_slot = now, Snapped(o, r, now)
  PROVE  RingGood(r)
<1> DEFINE h == o.obs_head
           SP == MIN_OBS_SPACING_SLOTS
           at(i) == o.observations[i].slot
<1>1. /\ h \in Index /\ SP \in Nat \ {0} /\ o.last_cum_slot \in Nat
      /\ \A i \in Index : at(i) \in Nat /\ at(i) <= o.last_cum_slot
  BY OracleAssumption DEF Oracle, Observation, RingGood
<1>2. now >= at(Newest(h)) + SP
  <2>1. Newest(h) \in Index
    BY <1>1, NewestAge
  <2> QED BY <1>1, <2>1 DEF Snapped, SatSub
<1>3. \A i \in Index : r.observations[i].slot = IF i = h THEN now ELSE at(i)
  BY <1>1 DEF Snapped, Snapshot, Oracle
<1>4. \A i \in Index :
        /\ AgeFrom(h, i) \in Nat
        /\ AgeFrom(r.obs_head, i) = IF i = h THEN 0 ELSE AgeFrom(h, i) + 1
  BY <1>1, Ages, AgesShift, OracleAssumption DEF Snapped
<1>5. ASSUME NEW i \in Index, NEW j \in Index PROVE Spaced(r, i, j)
  <2> DEFINE x == AgeFrom(h, i)
             y == AgeFrom(h, j)
  <2>1. x \in Nat /\ y \in Nat
    BY <1>4
  <2>2. CASE j = h
    <3>1. AgeFrom(r.obs_head, j) = 0 /\ AgeFrom(r.obs_head, i) \in Nat
      BY <1>4, <2>2
    <3> QED BY <3>1 DEF Spaced
  <2>3. CASE j # h /\ i # h
    <3>1. Spaced(o, i, j)
      BY DEF RingGood
    <3>2. (y + 1) - (x + 1) = y - x /\ (x + 1 < y + 1 => x < y)
      BY <2>1
    <3> QED BY <1>3, <1>4, <2>3, <3>1, <3>2 DEF Spaced
  <2>4. CASE j # h /\ i = h
    <3>1. ASSUME at(j) # 0 PROVE now >= at(j) + SP * (y + 1)
      <4>1. Newest(h) \in Index /\ AgeFrom(h, Newest(h)) = 0
        BY <1>1, NewestAge
      <4>2. y > 0 => at(Newest(h)) >= at(j) + SP * y
        <5>1. Spaced(o, Newest(h), j)
          BY <4>1 DEF RingGood
        <5>2. y - 0 = y
          BY <2>1
        <5> QED BY <2>1, <3>1, <4>1, <5>1, <5>2 DEF Spaced
      <4>3. y = 0 => j = Newest(h)
        BY <1>1, <4>1, Ages
      <4>4. at(Newest(h)) \in Nat /\ at(j) \in Nat
        BY <1>1, <4>1
      <4>5. SP * (y + 1) = SP * y + SP /\ SP * y \in Nat /\ (y = 0 => SP * y = 0)
        BY <1>1, <2>1, MulPos
      <4> HIDE DEF at, y, SP
      <4>6. at(Newest(h)) >= at(j) + SP * y
        BY <2>1, <4>2, <4>3, <4>4, <4>5
      <4> QED BY <1>1, <1>2, <4>4, <4>5, <4>6
    <3>2. (y + 1) - 0 = y + 1
      BY <2>1
    <3> QED BY <1>3, <1>4, <2>4, <3>1, <3>2 DEF Spaced
  <2> QED BY <2>2, <2>3, <2>4
<1>6. \A i \in Index : r.observations[i].slot <= r.last_cum_slot
  BY <1>1, <1>3
<1> QED BY <1>5, <1>6 DEF RingGood

LEMMA RecordKeepsRing ==
  ASSUME NEW o \in Oracle, NEW a \in Nat \ {0}, NEW b \in Nat \ {0}, NEW now \in Nat,
         RingGood(o)
  PROVE  RingGood(record_observation(o, a, b, now))
<1> DEFINE r == record_observation(o, a, b, now)
<1>1. /\ now <= o.last_cum_slot => r = o
      /\ now > o.last_cum_slot =>
           r.last_cum_slot = now /\ (SameRing(o, r) \/ Snapped(o, r, now))
  BY RecordEffect, OracleAssumption
<1>2. r \in Oracle
  BY RecordObservationType
<1> HIDE DEF r
<1>3. o.last_cum_slot \in Nat /\ \A i \in Index : o.observations[i].slot \in Nat
  BY DEF Oracle, Observation
<1>4. ASSUME now <= o.last_cum_slot PROVE RingGood(r)
  BY <1>1, <1>4
<1>5. ASSUME now > o.last_cum_slot, SameRing(o, r) PROVE RingGood(r)
  BY <1>1, <1>3, <1>5 DEF SameRing, RingGood, Spaced
<1>6. ASSUME now > o.last_cum_slot, Snapped(o, r, now) PROVE RingGood(r)
  BY <1>1, <1>2, <1>6, SnapKeepsRing
<1>7. RingGood(r)
  BY <1>1, <1>3, <1>4, <1>5, <1>6
<1> QED BY <1>7 DEF r

LEMMA EmptyRing ==
  ASSUME NEW now \in Nat
  PROVE  RingGood(init_oracle(now))
BY DEF RingGood, Spaced, init_oracle, Unwritten

LEMMA RingOrderedIs ==
  RingOrdered <=> oracle.last_cum_slot <= slot /\ RingGood(oracle)
BY DEF RingOrdered, RingGood, Spaced, Age, AgeFrom

RingInv == Sound /\ oracle.last_cum_slot <= slot /\ RingGood(oracle)

LEMMA InitRing ==
  ASSUME Init
  PROVE  RingInv
<1>1. Sound /\ oracle = init_oracle(0) /\ slot \in Nat
  BY InitIInv DEF IInv, Init, Sound, TypeOK
<1>2. oracle.last_cum_slot = 0
  BY <1>1 DEF init_oracle
<1> QED BY <1>1, <1>2, EmptyRing DEF RingInv

LEMMA RingStep ==
  ASSUME RingInv, Sound', Idle \/ Born \/ Traded
  PROVE  RingInv'
<1>1. Sound /\ Sound' /\ (Idle \/ Born \/ Traded)
  BY DEF RingInv
<1>2. /\ slot \in Nat /\ slot' \in Nat /\ oracle \in Oracle
      /\ oracle.last_cum_slot \in Nat /\ oracle.last_cum_slot <= slot
  BY <1>1 DEF Sound, TypeOK, Oracle, RingInv
<1>3. CASE Idle
  <2>1. oracle' = oracle /\ slot' >= slot
    BY <1>3 DEF Idle
  <2> QED BY <1>1, <1>2, <2>1 DEF RingInv
<1>4. CASE Born
  <2>1. oracle' = init_oracle(slot) /\ slot' = slot
    BY <1>4 DEF Born
  <2>2. oracle'.last_cum_slot = slot
    BY <2>1 DEF init_oracle
  <2> QED BY <1>1, <1>2, <2>1, <2>2, EmptyRing DEF RingInv
<1>5. CASE Traded
  <2>1. /\ oracle' = record_observation(oracle, sol_reserve, vault, slot) /\ slot' = slot
        /\ sol_reserve \in Nat \ {0} /\ vault \in Nat \ {0}
    BY <1>1, <1>5, AliveFacts DEF Traded
  <2>2. RingGood(oracle')
    BY <1>2, <2>1, RecordKeepsRing DEF RingInv
  <2>3. oracle'.last_cum_slot \in {slot, oracle.last_cum_slot}
    BY <1>2, <2>1, RecordEffect
  <2> QED BY <1>1, <1>2, <2>1, <2>2, <2>3 DEF RingInv
<1> QED BY <1>1, <1>3, <1>4, <1>5

LEMMA NextRing ==
  ASSUME RingInv, [Next]_vars
  PROVE  RingInv'
BY NextEffect, OracleMoves, RingStep DEF RingInv, StepEffect

LEMMA SpecRing == Spec => []RingInv
BY InitRing, NextRing, PTL DEF Spec

(* The snapshots in the ring are a spacing apart at least, from the newest *)
(* back over the wrap of the head, and none is newer than the head.        *)
THEOREM RingStaysOrdered == Spec => []RingOrdered
<1>1. RingInv => RingOrdered
  BY RingOrderedIs DEF RingInv
<1> QED BY <1>1, SpecRing, PTL

-----------------------------------------------------------------------------
(* Where a window starts.  Snapshots of one ring differ in their slots, so *)
(* that the newest of a set of them is the only one.                       *)
NewestOf(o, old, i) ==
  i \in old /\ \A j \in old : o.observations[j].slot <= o.observations[i].slot

LEMMA SlotsDiffer ==
  ASSUME NEW o \in Oracle, RingGood(o), NEW i \in Index, NEW j \in Index, i # j,
         o.observations[i].slot # 0, o.observations[j].slot # 0
  PROVE  /\ o.observations[i].slot # o.observations[j].slot
         /\ AgeFrom(o.obs_head, i) < AgeFrom(o.obs_head, j) =>
              o.observations[i].slot > o.observations[j].slot
<1> DEFINE x == AgeFrom(o.obs_head, i)
           y == AgeFrom(o.obs_head, j)
           SP == MIN_OBS_SPACING_SLOTS
<1>1. o.obs_head \in Index /\ o.observations \in [Index -> Observation]
  BY DEF Oracle
<1>2. o.observations[i].slot \in Nat /\ o.observations[j].slot \in Nat
  BY <1>1 DEF Observation
<1>3. x \in Nat /\ y \in Nat /\ x # y /\ SP \in Nat \ {0}
  BY <1>1, Ages, OracleAssumption
<1>4. Spaced(o, i, j) /\ Spaced(o, j, i)
  BY DEF RingGood
<1>5. x < y => o.observations[i].slot >= o.observations[j].slot + SP * (y - x)
  BY <1>4 DEF Spaced
<1>6. y < x => o.observations[j].slot >= o.observations[i].slot + SP * (x - y)
  BY <1>4 DEF Spaced
<1> HIDE DEF x, y, SP
<1>7. (x < y => SP * (y - x) \in Nat \ {0}) /\ (y < x => SP * (x - y) \in Nat \ {0})
  <2>1. \A d \in Nat : d > 0 => SP * d \in Nat \ {0}
    BY <1>3, MulPos
  <2> QED BY <1>3, <2>1
<1>8. \/ x < y /\ o.observations[i].slot > o.observations[j].slot
      \/ y < x /\ o.observations[j].slot > o.observations[i].slot
  BY <1>2, <1>3, <1>5, <1>6, <1>7
<1> QED BY <1>2, <1>3, <1>8 DEF x, y

LEMMA StartIs ==
  ASSUME NEW o \in Oracle, RingGood(o), NEW now \in Nat, NEW k \in Nat,
         NEW i \in Index, NewestOf(o, OldEnough(o, now, k), i)
  PROVE  WindowStart(o, now, k) = o.observations[i]
<1> DEFINE old == OldEnough(o, now, k)
           best == CHOOSE m \in old :
                     \A j \in old : o.observations[j].slot <= o.observations[m].slot
<1>1. i \in old /\ \A j \in old : o.observations[j].slot <= o.observations[i].slot
  BY DEF NewestOf
<1>2. old \subseteq Index /\ \A j \in old : o.observations[j].slot # 0
  BY DEF OldEnough
<1>3. \A j \in Index : o.observations[j].slot \in Nat
  BY DEF Oracle, Observation
<1> HIDE DEF old
<1>4. best \in old /\ \A j \in old : o.observations[j].slot <= o.observations[best].slot
  BY <1>1
<1> HIDE DEF best
<1>5. o.observations[i].slot = o.observations[best].slot
  BY <1>1, <1>2, <1>3, <1>4
<1>6. i = best
  BY <1>1, <1>2, <1>4, <1>5, SlotsDiffer
<1> QED BY <1>6 DEF WindowStart, best, old

LEMMA StartExists ==
  ASSUME NEW o \in Oracle, RingGood(o), NEW now \in Nat, NEW k \in Nat,
         OldEnough(o, now, k) # {}
  PROVE  \E i \in Index : NewestOf(o, OldEnough(o, now, k), i)
<1> DEFINE old == OldEnough(o, now, k)
           ages == {AgeFrom(o.obs_head, i) : i \in old}
<1>1. o.obs_head \in Index /\ \A j \in Index : o.observations[j].slot \in Nat
  BY DEF Oracle, Observation
<1>2. old \subseteq Index /\ \A j \in old : o.observations[j].slot # 0
  BY DEF OldEnough
<1>3. ages \subseteq Nat /\ ages # {}
  BY <1>1, <1>2, Ages, OracleAssumption
<1> HIDE DEF old
<1>4. PICK a \in ages : \A c \in ages : ~(<<c, a>> \in OpToRel(<, Nat))
  <2> HIDE DEF ages
  <2> QED BY <1>3, NatLessThanWellFounded, WFMin
<1>5. PICK i \in old : a = AgeFrom(o.obs_head, i)
  BY <1>4
<1>6. ASSUME NEW j \in old
      PROVE  o.observations[j].slot <= o.observations[i].slot
  <2>1. AgeFrom(o.obs_head, j) \in ages /\ a \in Nat /\ AgeFrom(o.obs_head, j) \in Nat
    BY <1>3, <1>4
  <2>2. ~(AgeFrom(o.obs_head, j) < AgeFrom(o.obs_head, i))
    BY <1>4, <1>5, <2>1 DEF OpToRel
  <2>3. CASE j = i
    BY <1>1, <1>2, <2>3
  <2>4. CASE j # i
    <3>1. AgeFrom(o.obs_head, j) # AgeFrom(o.obs_head, i)
      BY <1>1, <1>2, <2>4, Ages
    <3>2. AgeFrom(o.obs_head, i) < AgeFrom(o.obs_head, j)
      BY <1>5, <2>1, <2>2, <3>1
    <3>3. o.observations[i].slot > o.observations[j].slot
      BY <1>2, <2>4, <3>2, SlotsDiffer
    <3> QED BY <1>1, <1>2, <3>3
  <2> QED BY <2>3, <2>4
<1> QED BY <1>2, <1>5, <1>6 DEF NewestOf, old

(* The snapshot that a swap writes replaces the oldest.  For windows that  *)
(* the ring spans, the one after it is old enough too.                     *)
LEMMA NextIsOldEnough ==
  ASSUME NEW o \in Oracle, RingGood(o), NEW r, NEW now \in Nat, NEW k \in Nat \ {0},
         k <= (TWAP_RING_SIZE - 1) * MIN_OBS_SPACING_SLOTS, Snapped(o, r, now),
         o.obs_head \in OldEnough(o, now, k)
  PROVE  \E j \in OldEnough(o, now, k) : j # o.obs_head
<1> DEFINE h == o.obs_head
           S == TWAP_RING_SIZE
           SP == MIN_OBS_SPACING_SLOTS
           at(i) == o.observations[i].slot
           n == Newest(h)
<1>1. /\ h \in Index /\ SP \in Nat \ {0} /\ S \in Nat \ {0}
      /\ \A i \in Index : at(i) \in Nat
  BY OracleAssumption DEF Oracle, Observation
<1>2. at(h) # 0 /\ n \in Index /\ AgeFrom(h, n) = 0 /\ AgeFrom(h, h) = S - 1
  BY <1>1, NewestAge, Ages DEF OldEnough
<1>3. S - 1 \in Nat \ {0}
  <2>1. S - 1 \in Nat /\ (S - 1 = 0 => (S - 1) * SP = 0)
    BY <1>1
  <2> QED BY <2>1
<1>4. PICK j \in Index : AgeFrom(h, j) = S - 2
  <2>1. S - 2 \in 0..(S - 1)
    BY <1>1, <1>3
  <2> QED BY <1>1, <2>1, AgeTaken
<1>5. at(j) >= at(h) + SP
  <2>1. Spaced(o, j, h)
    BY <1>1, <1>4 DEF RingGood
  <2>2. S - 2 < S - 1 /\ (S - 1) - (S - 2) = 1 /\ SP * 1 = SP
    BY <1>1
  <2> QED BY <1>2, <1>4, <2>1, <2>2 DEF Spaced
<1>6. at(j) # 0 /\ at(j) \in Nat /\ at(n) \in Nat
  BY <1>1, <1>2, <1>4, <1>5
<1>7. at(n) >= at(j) + SP * (S - 2)
  <2>1. CASE S - 2 = 0
    <3>1. n = j
      BY <1>1, <1>2, <1>4, <2>1, Ages
    <3>2. SP * (S - 2) = 0
      BY <1>1, <2>1
    <3> QED BY <1>6, <3>1, <3>2
  <2>2. CASE S - 2 # 0
    <3>1. Spaced(o, n, j)
      BY <1>2, <1>4 DEF RingGood
    <3>2. 0 < S - 2 /\ (S - 2) - 0 = S - 2
      BY <1>1, <1>3, <2>2
    <3> QED BY <1>2, <1>4, <1>6, <3>1, <3>2 DEF Spaced
  <2> QED BY <2>1, <2>2
<1>8. now >= at(n) + SP
  BY <1>1, <1>6 DEF Snapped, SatSub
<1>9. now >= at(j) + k
  <2>1. (S - 1) * SP = SP * (S - 2) + SP /\ SP * (S - 2) \in Int
    BY <1>1
  <2> HIDE DEF at, S, SP
  <2>2. k <= SP * (S - 2) + SP
    BY <2>1 DEF S, SP
  <2> QED BY <1>1, <1>6, <1>7, <1>8, <2>1, <2>2
<1>10. j # h
  BY <1>1, <1>5, <1>4
<1>11. at(j) <= SatSub(now, k)
  BY <1>6, <1>9 DEF SatSub
<1> QED BY <1>4, <1>6, <1>10, <1>11 DEF OldEnough

LEMMA WindowSurvives ==
  ASSUME NEW o \in Oracle, NEW r \in Oracle, RingGood(o), RingGood(r),
         NEW now \in Nat, now > o.last_cum_slot, NEW k \in Nat \ {0},
         k <= (TWAP_RING_SIZE - 1) * MIN_OBS_SPACING_SLOTS,
         Snapped(o, r, now)
  PROVE  /\ OldEnough(r, now, k) = {} <=> OldEnough(o, now, k) = {}
         /\ OldEnough(o, now, k) # {} => WindowStart(r, now, k) = WindowStart(o, now, k)
<1> DEFINE h == o.obs_head
           oldo == OldEnough(o, now, k)
           oldr == OldEnough(r, now, k)
<1>1. /\ h \in Index /\ o.last_cum_slot \in Nat
      /\ \A i \in Index : o.observations[i].slot \in Nat
  BY DEF Oracle, Observation
<1>2. /\ r.observations[h].slot = now
      /\ \A i \in Index : i # h => r.observations[i] = o.observations[i]
  BY <1>1 DEF Snapped, Snapshot, Oracle
<1>3. ~(now <= SatSub(now, k))
  BY <1>1 DEF SatSub
<1>4. oldr = oldo \ {h}
  BY <1>1, <1>2, <1>3 DEF OldEnough
<1>5. h \in oldo => \E j \in oldo : j # h
  BY NextIsOldEnough
<1>6. \A i \in oldo : i \in Index /\ o.observations[i].slot # 0
  BY DEF OldEnough
<1> HIDE DEF oldo, oldr
<1>7. oldr = {} <=> oldo = {}
  BY <1>4, <1>5
<1>8. ASSUME oldo # {} PROVE WindowStart(r, now, k) = WindowStart(o, now, k)
  <2>1. PICK i \in Index : NewestOf(r, oldr, i)
    BY <1>7, <1>8, StartExists DEF oldr
  <2>2. i \in oldo /\ i # h /\ r.observations[i] = o.observations[i]
    BY <1>2, <1>4, <2>1 DEF NewestOf
  <2>3. ASSUME NEW j \in oldo PROVE o.observations[j].slot <= o.observations[i].slot
    <3>1. CASE j # h
      <4>1. j \in oldr /\ r.observations[j] = o.observations[j]
        BY <1>2, <1>4, <1>6, <3>1
      <4> QED BY <2>1, <2>2, <4>1 DEF NewestOf
    <3>2. CASE j = h
      <4>1. o.observations[h].slot # 0 /\ o.observations[i].slot # 0
        BY <1>6, <2>2, <3>2
      <4>2. AgeFrom(h, i) < AgeFrom(h, h)
        BY <1>1, <2>2, Ages
      <4>3. o.observations[i].slot > o.observations[h].slot
        BY <1>1, <2>2, <4>1, <4>2, SlotsDiffer
      <4> QED BY <1>1, <3>2, <4>3
    <3> QED BY <3>1, <3>2
  <2>4. NewestOf(o, oldo, i)
    BY <2>2, <2>3 DEF NewestOf
  <2>5. WindowStart(o, now, k) = o.observations[i]
    BY <2>4, StartIs DEF oldo
  <2>6. WindowStart(r, now, k) = r.observations[i]
    BY <2>1, StartIs DEF oldr
  <2> QED BY <2>2, <2>5, <2>6
<1> QED BY <1>7, <1>8 DEF oldo, oldr

(* The mark depends on the reserves only through the extended head.        *)
ExtendedHead(o, s, t, now) ==
  accumulate_price(o.cum_sol_per_tok, price_q64(s, t), SatSub(now, o.last_cum_slot))

LEMMA SameMark ==
  ASSUME NEW o, NEW r, NEW s, NEW t \in Nat \ {0}, NEW s2, NEW t2 \in Nat \ {0},
         NEW now, NEW k,
         ExtendedHead(o, s, t, now) = ExtendedHead(r, s2, t2, now),
         OldEnough(r, now, k) = {} <=> OldEnough(o, now, k) = {},
         OldEnough(o, now, k) # {} => WindowStart(r, now, k) = WindowStart(o, now, k)
  PROVE  read_twap_sol_per_tok(r, s2, t2, now, k) = read_twap_sol_per_tok(o, s, t, now, k)
BY DEF read_twap_sol_per_tok, ExtendedHead

(* An accumulator does not move over no slots.                             *)
LEMMA NoSlots ==
  ASSUME NEW c \in Cum, NEW s \in Nat, NEW t \in Nat \ {0}
  PROVE  accumulate_price(c, price_q64(s, t), 0) = c
<1>1. price_q64(s, t) \in Nat
  BY PriceType
<1>2. c \in Nat /\ c < CUM_MOD /\ CUM_MOD \in Nat \ {0}
  BY OracleAssumption DEF Cum
<1>3. c + price_q64(s, t) * 0 = c
  BY <1>1, <1>2
<1> QED BY <1>2, <1>3, ModFacts DEF accumulate_price

LEMMA SwapKeepsMark ==
  ASSUME NEW o \in Oracle, RingGood(o), NEW now \in Nat, o.last_cum_slot <= now,
         NEW s \in Nat \ {0}, NEW t \in Nat \ {0}, s >= MIN_SPOT_RESERVE,
         NEW s2 \in Nat, NEW t2 \in Nat \ {0},
         NEW k \in Nat \ {0}, k <= (TWAP_RING_SIZE - 1) * MIN_OBS_SPACING_SLOTS
  PROVE  read_twap_sol_per_tok(record_observation(o, s, t, now), s2, t2, now, k)
           = read_twap_sol_per_tok(o, s, t, now, k)
<1> DEFINE r == record_observation(o, s, t, now)
<1>1. o.last_cum_slot \in Nat /\ o.cum_sol_per_tok \in Cum
  BY DEF Oracle
<1>2. r \in Oracle /\ RingGood(r)
  BY RecordObservationType, RecordKeepsRing
<1>3. /\ now <= o.last_cum_slot => r = o
      /\ now > o.last_cum_slot =>
           /\ r.last_cum_slot = now
           /\ r.cum_sol_per_tok =
                accumulate_price(o.cum_sol_per_tok, price_q64(s, t), now - o.last_cum_slot)
           /\ SameRing(o, r) \/ Snapped(o, r, now)
  BY RecordEffect
<1> HIDE DEF r
<1>4. r.cum_sol_per_tok \in Cum /\ r.last_cum_slot = now
  BY <1>1, <1>2, <1>3 DEF Oracle
<1>5. ExtendedHead(r, s2, t2, now) = r.cum_sol_per_tok
  BY <1>4, NoSlots DEF ExtendedHead, SatSub
<1>6. ExtendedHead(o, s, t, now) = r.cum_sol_per_tok
  <2>1. CASE now <= o.last_cum_slot
    <3>1. r = o /\ SatSub(now, o.last_cum_slot) = 0
      BY <1>1, <1>3, <2>1 DEF SatSub
    <3> QED BY <1>1, <3>1, NoSlots DEF ExtendedHead
  <2>2. CASE now > o.last_cum_slot
    <3>1. SatSub(now, o.last_cum_slot) = now - o.last_cum_slot
      BY <1>1, <2>2 DEF SatSub
    <3> QED BY <1>3, <2>2, <3>1 DEF ExtendedHead
  <2> QED BY <1>1, <2>1, <2>2
<1>7. /\ OldEnough(r, now, k) = {} <=> OldEnough(o, now, k) = {}
      /\ OldEnough(o, now, k) # {} => WindowStart(r, now, k) = WindowStart(o, now, k)
  <2>1. CASE r.observations = o.observations
    BY <2>1 DEF OldEnough, WindowStart
  <2>2. CASE now > o.last_cum_slot /\ Snapped(o, r, now)
    BY <1>2, <2>2, WindowSurvives
  <2> QED BY <1>1, <1>3, <2>1, <2>2 DEF SameRing
<1>8. read_twap_sol_per_tok(r, s2, t2, now, k) = read_twap_sol_per_tok(o, s, t, now, k)
  BY <1>5, <1>6, <1>7, SameMark
<1> QED BY <1>8 DEF r

(* Moving the mark takes time: no swap, of any size, moves the mark of its *)
(* own slot, for windows within the span of the ring.                      *)
THEOREM MarkIsNotMovedBySwaps == Spec => MarkTakesTime
<1>1. ASSUME RingInv, [Next]_vars, last'.op \in {"buy", "sell"}, slot' = slot,
             sol_reserve >= MIN_SPOT_RESERVE, ~UNCHANGED vars,
             NEW k \in Lookbacks, k <= (TWAP_RING_SIZE - 1) * MIN_OBS_SPACING_SLOTS
      PROVE  Mark(k)' = Mark(k)
  <2>1. Sound /\ Sound' /\ Traded
    BY <1>1, NextEffect, OracleMoves DEF RingInv, StepEffect
  <2>2. /\ created /\ created' /\ slot' = slot
        /\ oracle' = record_observation(oracle, sol_reserve, vault, slot)
    BY <2>1 DEF Traded
  <2>3. /\ sol_reserve \in Nat \ {0} /\ vault \in Nat \ {0}
        /\ slot \in Nat /\ oracle \in Oracle /\ k \in Nat \ {0}
    BY <2>1, <2>2, AliveFacts, PoolAssumption DEF Sound, TypeOK
  <2>4. sol_reserve' \in Nat /\ vault' \in Nat \ {0}
    BY <2>1, <2>2, AliveAfter
  <2>5. RingGood(oracle) /\ oracle.last_cum_slot <= slot
    BY <1>1 DEF RingInv
  <2>6. read_twap_sol_per_tok(oracle', sol_reserve', vault', slot, k)
          = read_twap_sol_per_tok(oracle, sol_reserve, vault, slot, k)
    BY <1>1, <2>2, <2>3, <2>4, <2>5, SwapKeepsMark
  <2> QED BY <2>2, <2>6 DEF Mark
<1>2. RingInv /\ [Next]_vars =>
        [last'.op \in {"buy", "sell"} /\ slot' = slot /\ sol_reserve >= MIN_SPOT_RESERVE =>
           \A k \in Lookbacks :
             k <= (TWAP_RING_SIZE - 1) * MIN_OBS_SPACING_SLOTS => Mark(k)' = Mark(k)]_vars
  BY <1>1
<1> QED BY <1>2, SpecRing, PTL DEF Spec, MarkTakesTime

-----------------------------------------------------------------------------
(* Every behaviour of DeepPoolHistory is one of DeepPool, by its form, and *)
(* inherits what is proved of it.                                          *)

LEMMA HistoryStep ==
  ASSUME [HNext]_hvars
  PROVE  [Next]_vars
BY DEF HNext, hvars, HTick, HStep, Next

LEMMA HistoryInherits == HSpec => Spec
<1>1. HInit => Init
  BY DEF HInit
<1> QED BY <1>1, HistoryStep, PTL DEF HSpec, Spec

LEMMA HSpecRing == HSpec => []RingInv
BY HistoryInherits, SpecRing, PTL

-----------------------------------------------------------------------------
(* The reserve floor.  Redemptions keep the reserves per unit of LP, and   *)
(* never touch what is locked; any other step begins a new base.           *)
Worth(r, t, p, l, b) ==
  /\ b.sol \in Nat /\ b.tok \in Nat /\ b.supply \in Nat /\ b.locked \in Nat
  /\ r * b.supply >= p * b.sol
  /\ t * b.supply >= p * b.tok
  /\ l >= b.locked
BaseInv == created => Worth(sol_reserve, vault, supply, locked, base)

(* Two exchanges that do not lose do not lose together.                    *)
LEMMA RatioChain ==
  ASSUME NEW r \in Nat, NEW p \in Nat \ {0}, NEW r2 \in Nat, NEW p2 \in Nat,
         NEW b \in Nat, NEW q \in Nat,
         r * q >= p * b, r2 * p >= r * p2
  PROVE  r2 * q >= p2 * b
<1>1. /\ r * q \in Nat /\ p * b \in Nat /\ r2 * p \in Nat /\ r * p2 \in Nat
      /\ r2 * q \in Nat /\ p2 * b \in Nat
  BY MulPos
<1>2. (r * p2) * q <= (r2 * p) * q /\ (p * b) * p2 <= (r * q) * p2
  BY <1>1, MulMono
<1>3. /\ (r * p2) * q = (r * q) * p2 /\ (p * b) * p2 = (p2 * b) * p
      /\ (r2 * p) * q = (r2 * q) * p
  OBVIOUS
<1>4. /\ (p2 * b) * p \in Nat /\ (r * q) * p2 \in Nat /\ (r2 * q) * p \in Nat
  BY <1>1, MulPos
<1>5. (p2 * b) * p <= (r2 * q) * p
  BY <1>2, <1>3, <1>4
<1> QED BY <1>1, <1>5, MulCancel

LEMMA WorthFresh ==
  ASSUME NEW r \in Nat, NEW t \in Nat, NEW p \in Nat, NEW l \in Nat
  PROVE  Worth(r, t, p, l, [sol |-> r, tok |-> t, supply |-> p, locked |-> l])
<1>1. r * p >= p * r /\ t * p >= p * t
  OBVIOUS
<1> QED BY <1>1 DEF Worth

LEMMA WorthKept ==
  ASSUME NEW r \in Nat, NEW t \in Nat, NEW p \in Nat \ {0}, NEW l \in Nat,
         NEW r2 \in Nat, NEW t2 \in Nat, NEW p2 \in Nat, NEW l2 \in Nat, NEW b,
         Worth(r, t, p, l, b), r2 * p >= r * p2, t2 * p >= t * p2, l2 >= l
  PROVE  Worth(r2, t2, p2, l2, b)
<1>1. /\ b.sol \in Nat /\ b.tok \in Nat /\ b.supply \in Nat /\ b.locked \in Nat
      /\ r * b.supply >= p * b.sol /\ t * b.supply >= p * b.tok /\ l >= b.locked
  BY DEF Worth
<1>2. r2 * b.supply >= p2 * b.sol
  BY <1>1, RatioChain
<1>3. t2 * b.supply >= p2 * b.tok
  BY <1>1, RatioChain
<1>4. l2 >= b.locked
  BY <1>1
<1> QED BY <1>1, <1>2, <1>3, <1>4 DEF Worth

LEMMA WorthFloor ==
  ASSUME NEW r \in Nat, NEW t \in Nat, NEW p \in Nat, NEW l \in Nat, NEW b,
         Worth(r, t, p, l, b), l <= p
  PROVE  r * b.supply >= b.locked * b.sol /\ t * b.supply >= b.locked * b.tok
<1>1. /\ b.sol \in Nat /\ b.tok \in Nat /\ b.supply \in Nat /\ b.locked \in Nat
      /\ r * b.supply >= p * b.sol /\ t * b.supply >= p * b.tok /\ l >= b.locked
  BY DEF Worth
<1>2. b.locked * b.sol <= p * b.sol /\ b.locked * b.tok <= p * b.tok
  BY <1>1, MulMono
<1>3. /\ r * b.supply \in Nat /\ t * b.supply \in Nat
      /\ p * b.sol \in Nat /\ p * b.tok \in Nat
      /\ b.locked * b.sol \in Nat /\ b.locked * b.tok \in Nat
  BY <1>1, MulPos
<1> QED BY <1>1, <1>2, <1>3

LEMMA RemoveIsRemove ==
  ASSUME NEW u \in Users, Step(u), last'.op = "remove"
  PROVE  Remove(u)
<1>1. Create(u) => last'.op = "create"
  BY DEF Create, create_pool, Called
<1>2. Buy(u) => last'.op = "buy"
  BY DEF Buy, handle_buy, BuyAccepted, BuyOutput, Called
<1>3. Sell(u) => last'.op = "sell"
  BY DEF Sell, handle_sell, SellAccepted, SellOutput, Called
<1>4. Add(u) => last'.op = "add"
  BY DEF Add, add_liquidity, Called
<1>5. External(u) => last'.op # "remove"
  BY DEF External, gift_sol, gift_tokens, lp_to_pool, lp_self_burn, lp_transfer, Called
<1> QED BY <1>1, <1>2, <1>3, <1>4, <1>5 DEF Step

LEMMA NextBase ==
  ASSUME Sound, BaseInv, [HNext]_hvars
  PROVE  BaseInv'
<1>1. StepEffect
  BY HistoryStep, NextEffect
<1>2. SUFFICES ASSUME created' PROVE BaseInv'
  BY DEF BaseInv
<1>3. /\ sol_reserve' \in Nat /\ vault' \in Nat /\ supply' \in Nat /\ locked' \in Nat
  BY <1>1, <1>2, AliveAfter DEF StepEffect
<1>4. CASE base' = Holdings'
  <2>1. base' = [sol |-> sol_reserve', tok |-> vault', supply |-> supply', locked |-> locked']
    BY <1>4 DEF Holdings
  <2>2. Worth(sol_reserve', vault', supply', locked', base')
    BY <1>3, <2>1, WorthFresh
  <2> QED BY <2>2 DEF BaseInv
<1>5. CASE created /\ base' = base /\ Kept
  <2>1. /\ sol_reserve \in Nat /\ vault \in Nat /\ supply \in Nat \ {0} /\ locked \in Nat
    BY <1>5, AliveFacts
  <2>2. Worth(sol_reserve, vault, supply, locked, base)
    BY <1>5 DEF BaseInv
  <2>3. /\ sol_reserve' * supply >= sol_reserve * supply'
        /\ vault' * supply >= vault * supply' /\ locked' >= locked
    BY <1>1, <1>5 DEF Kept, StepEffect
  <2>4. Worth(sol_reserve', vault', supply', locked', base)
    BY <1>3, <2>1, <2>2, <2>3, WorthKept
  <2> QED BY <1>5, <2>4 DEF BaseInv
<1>6. CASE UNCHANGED <<created, lamports, vault, supply, locked, base>>
  BY <1>2, <1>6 DEF BaseInv, sol_reserve
<1>7. CASE HTick
  <2>1. UNCHANGED <<created, lamports, vault, supply, locked, base>>
    BY <1>7 DEF HTick, Tick, advance_slot, reserves, shares
  <2> QED BY <1>6, <2>1
<1>8. ASSUME NEW u \in Users, HStep(u) PROVE BaseInv'
  <2>1. CASE last'.op = "remove"
    <3>1. Remove(u) /\ base' = base
      BY <1>8, <2>1, RemoveIsRemove DEF HStep, Recorded
    <3>2. created
      BY <3>1 DEF Remove, remove_liquidity, RemoveAccepted, HasReserves
    <3>3. Kept
      BY <1>1, <2>1, <3>2 DEF StepEffect
    <3> QED BY <1>5, <3>1, <3>2, <3>3
  <2>2. CASE last'.op # "remove"
    <3>1. base' = Holdings'
      BY <1>8, <2>2 DEF HStep, Recorded
    <3> QED BY <1>4, <3>1
  <2> QED BY <2>1, <2>2
<1>9. CASE UNCHANGED hvars
  BY <1>6, <1>9 DEF hvars, vars, history
<1> QED BY <1>7, <1>8, <1>9 DEF HNext

(* After any sequence of redemptions the pool still holds, of both         *)
(* reserves, the share that was locked when the sequence began.            *)
THEOREM LockedShareRemains == HSpec => []LockedFloor
<1>1. HInit => BaseInv
  BY DEF HInit, Init, BaseInv
<1>2. RingInv /\ BaseInv /\ [HNext]_hvars => BaseInv'
  BY NextBase DEF RingInv
<1>3. RingInv /\ BaseInv => LockedFloor
  <2>1. SUFFICES ASSUME Sound, BaseInv, created
                 PROVE  /\ sol_reserve * base.supply >= base.locked * base.sol
                        /\ vault * base.supply >= base.locked * base.tok
    BY DEF RingInv, LockedFloor
  <2>2. /\ sol_reserve \in Nat /\ vault \in Nat /\ supply \in Nat
        /\ locked \in Nat /\ locked <= supply
    BY <2>1, AliveFacts
  <2>3. Worth(sol_reserve, vault, supply, locked, base)
    BY <2>1 DEF BaseInv
  <2> QED BY <2>2, <2>3, WorthFloor
<1> QED BY <1>1, <1>2, <1>3, HSpecRing, PTL DEF HSpec

-----------------------------------------------------------------------------
(* No free lunch.  The pool was born with S lamports above rent, v tokens, *)
(* p LP of which it locked l, and h tokens had been withheld by then.      *)
(* Since then the lock and the withheld fees have only grown, and so has   *)
(* the product of the reserves per square of the supply.                   *)
Bequest(b, S, v, h, p, l) ==
  /\ S > 0 /\ v > 0 /\ p > 0
  /\ b.sol \in Nat /\ b.tok \in Nat /\ b.lp \in Nat
  /\ b.sol + RENT + S = InWallets(SolEndowment)
  /\ b.tok + v + h = InWallets(TokEndowment)
  /\ b.lp + l = p
Grown(x, y, w, k, S, v, h, p, l) ==
  /\ w >= h /\ k >= l
  /\ x * (p * p) >= y * (S * v)
BirthInv ==
  created =>
    \E S, v, h, p, l \in Nat :
      /\ Bequest(birth, S, v, h, p, l)
      /\ Grown(sol_reserve * vault, supply * supply, withheld, locked, S, v, h, p, l)

LEMMA BirthRecorded ==
  ASSUME [HNext]_hvars
  PROVE  /\ created => birth' = birth
         /\ ~created /\ created' => birth' = Purse'
<1>1. CASE HTick
  BY <1>1 DEF HTick, Tick, advance_slot, reserves
<1>2. CASE UNCHANGED hvars
  BY <1>2 DEF hvars, vars, history
<1>3. ASSUME NEW u \in Users, HStep(u)
      PROVE  /\ created => birth' = birth
             /\ ~created /\ created' => birth' = Purse'
  BY <1>3 DEF HStep, Recorded
<1> QED BY <1>1, <1>2, <1>3 DEF HNext

LEMMA PurseAfter ==
  ASSUME Sound', Conserved', created'
  PROVE  /\ lamports' \in Nat /\ withheld' \in Nat /\ RENT \in Nat /\ lamports' > RENT
         /\ InWallets(sol') \in Nat /\ InWallets(tok') \in Nat /\ InWallets(lp') \in Nat
         /\ InWallets(sol') + RENT + sol_reserve' = InWallets(SolEndowment)
         /\ InWallets(tok') + vault' + withheld' = InWallets(TokEndowment)
         /\ InWallets(lp') + locked' = supply'
<1>1. /\ lamports' \in Nat /\ withheld' \in Nat /\ vault' \in Nat /\ locked' \in Nat
      /\ RENT \in Nat /\ lamports' > RENT
      /\ sol' \in [Users -> Nat] /\ tok' \in [Users -> Nat] /\ lp' \in [Users -> Nat]
      /\ last'.user \in Users
  BY PoolAssumption DEF Sound, TypeOK, Alive
<1>2. IsFiniteSet(Units(sol')) /\ IsFiniteSet(Units(tok')) /\ IsFiniteSet(Units(lp'))
  BY DEF Conserved, SolKept, TokKept, Sound, LpInv
<1>3. InWallets(sol') \in Nat /\ InWallets(tok') \in Nat /\ InWallets(lp') \in Nat
  BY <1>1, <1>2, UnitsBound
<1>4. /\ lamports' + InWallets(sol') = InWallets(SolEndowment)
      /\ vault' + withheld' + InWallets(tok') = InWallets(TokEndowment)
      /\ supply' = locked' + InWallets(lp')
  BY DEF Conserved, SolKept, TokKept, Sound, LpInv, LpAccounted
<1>5. sol_reserve' = lamports' - RENT
  BY <1>1, ReserveAfter
<1>6. ASSUME NEW a \in Nat, NEW b \in Nat, NEW c \in Nat
      PROVE  /\ b + c + (a - c) = a + b
             /\ a + b = b + a
  OBVIOUS
<1>7. InWallets(sol') + RENT + (lamports' - RENT) = lamports' + InWallets(sol')
  BY <1>1, <1>3, <1>6
<1>8. ASSUME NEW a \in Nat, NEW b \in Nat, NEW c \in Nat
      PROVE  c + a + b = a + b + c
  OBVIOUS
<1>9. InWallets(tok') + vault' + withheld' = vault' + withheld' + InWallets(tok')
  BY <1>1, <1>3, <1>8
<1>10. InWallets(lp') + locked' = locked' + InWallets(lp')
  BY <1>1, <1>3, <1>6
<1> QED BY <1>1, <1>3, <1>4, <1>5, <1>7, <1>9, <1>10

LEMMA GrownMore ==
  ASSUME NEW x \in Nat, NEW y \in Nat \ {0}, NEW w \in Nat, NEW k \in Nat,
         NEW x2 \in Nat, NEW y2 \in Nat, NEW w2 \in Nat, NEW k2 \in Nat,
         NEW S \in Nat, NEW v \in Nat, NEW h \in Nat, NEW p \in Nat, NEW l \in Nat,
         Grown(x, y, w, k, S, v, h, p, l), w2 >= w, k2 >= k, x2 * y >= x * y2
  PROVE  Grown(x2, y2, w2, k2, S, v, h, p, l)
<1>1. w >= h /\ k >= l /\ x * (p * p) >= y * (S * v)
  BY DEF Grown
<1>2. p * p \in Nat /\ S * v \in Nat
  BY MulPos
<1>3. x2 * (p * p) >= y2 * (S * v)
  BY <1>1, <1>2, RatioChain
<1>4. w2 >= h /\ k2 >= l
  BY <1>1
<1> QED BY <1>3, <1>4 DEF Grown

LEMMA NextBirth ==
  ASSUME Sound, Conserved, BirthInv, [HNext]_hvars
  PROVE  BirthInv'
<1>1. StepEffect /\ Conserves
  BY HistoryStep, NextEffect, ConservedStep
<1>2. Sound' /\ Conserved' /\ locked' >= locked /\ withheld' >= withheld
      /\ (created => created')
  BY <1>1 DEF StepEffect, Conserves
<1>3. SUFFICES ASSUME created' PROVE BirthInv'
  BY DEF BirthInv
<1>4. PICK x2 \in Nat, p2 \in Nat \ {0}, w2 \in Nat, k2 \in Nat :
        /\ x2 = sol_reserve' * vault' /\ p2 = supply' /\ w2 = withheld' /\ k2 = locked'
  <2>1. /\ sol_reserve' \in Nat /\ vault' \in Nat /\ supply' \in Nat \ {0}
        /\ locked' \in Nat /\ withheld' \in Nat
    BY <1>2, <1>3, AliveAfter, PurseAfter
  <2>2. sol_reserve' * vault' \in Nat
    BY <2>1, MulPos
  <2> QED BY <2>1, <2>2
<1>5. p2 * p2 \in Nat
  BY MulPos
<1>6. CASE created
  <2>1. PICK S \in Nat, v \in Nat, h \in Nat, p \in Nat, l \in Nat :
          /\ Bequest(birth, S, v, h, p, l)
          /\ Grown(sol_reserve * vault, supply * supply, withheld, locked, S, v, h, p, l)
    BY <1>6 DEF BirthInv
  <2>2. /\ sol_reserve \in Nat /\ vault \in Nat /\ supply \in Nat \ {0} /\ locked \in Nat
        /\ withheld \in Nat
    BY <1>6, AliveFacts DEF Sound, TypeOK
  <2>3. sol_reserve * vault \in Nat /\ supply * supply \in Nat \ {0}
    BY <2>2, MulPos
  <2>4. x2 * (supply * supply) >= (sol_reserve * vault) * (p2 * p2)
    BY <1>4, <1>6, HistoryStep, StepGrows
  <2>5. w2 >= withheld /\ k2 >= locked
    BY <1>2, <1>4
  <2>6. Grown(x2, p2 * p2, w2, k2, S, v, h, p, l)
    BY <1>5, <2>1, <2>2, <2>3, <2>4, <2>5, GrownMore
  <2>7. birth' = birth
    BY <1>6, BirthRecorded
  <2>8. /\ Bequest(birth', S, v, h, p, l)
        /\ Grown(sol_reserve' * vault', supply' * supply', withheld', locked', S, v, h, p, l)
    BY <1>4, <2>1, <2>6, <2>7
  <2> QED BY <2>8 DEF BirthInv
<1>7. CASE ~created
  <2>1. birth' = [sol |-> InWallets(sol'), tok |-> InWallets(tok'), lp |-> InWallets(lp')]
    BY <1>3, <1>7, BirthRecorded DEF Purse
  <2>2. PICK S \in Nat \ {0}, v \in Nat \ {0} : S = sol_reserve' /\ v = vault'
    BY <1>2, <1>3, AliveAfter
  <2>3. Bequest(birth', S, v, w2, p2, k2)
    BY <1>2, <1>3, <1>4, <2>1, <2>2, PurseAfter DEF Bequest
  <2>4. Grown(x2, p2 * p2, w2, k2, S, v, w2, p2, k2)
    <3>1. x2 = S * v
      BY <1>4, <2>2
    <3>2. S * v \in Nat /\ x2 * (p2 * p2) = (p2 * p2) * (S * v)
      BY <1>5, <3>1, MulPos
    <3>3. x2 * (p2 * p2) >= (p2 * p2) * (S * v)
      BY <1>4, <1>5, <3>2, MulPos
    <3> QED BY <1>4, <3>3 DEF Grown
  <2>5. /\ Bequest(birth', S, v, w2, p2, k2)
        /\ Grown(sol_reserve' * vault', supply' * supply', withheld', locked', S, v, w2, p2, k2)
    BY <1>4, <2>3, <2>4
  <2> QED BY <1>4, <2>2, <2>5 DEF BirthInv
<1> QED BY <1>6, <1>7

(* Reserves with no more tokens and no less LP than at birth hold no less  *)
(* SOL.                                                                    *)
LEMMA SolRemains ==
  ASSUME NEW r \in Nat, NEW t \in Nat \ {0}, NEW P \in Nat,
         NEW S \in Nat, NEW v \in Nat, NEW p \in Nat \ {0},
         t <= v, p <= P, (r * t) * (p * p) >= (P * P) * (S * v)
  PROVE  S <= r
<1>1. /\ p * p \in Nat \ {0} /\ P * P \in Nat /\ S * v \in Nat /\ r * t \in Nat /\ S * t \in Nat
  BY MulPos
<1>2. p * p <= P * P /\ S * t <= S * v
  BY MulMono
<1>3. (p * p) * (S * v) <= (P * P) * (S * v)
  BY <1>1, <1>2, MulMono
<1>4. /\ (p * p) * (S * v) \in Nat /\ (P * P) * (S * v) \in Nat /\ (r * t) * (p * p) \in Nat
      /\ (p * p) * (S * v) = (S * v) * (p * p)
  BY <1>1, MulPos
<1>5. (S * v) * (p * p) <= (r * t) * (p * p)
  BY <1>3, <1>4
<1>6. S * v <= r * t
  BY <1>1, <1>5, MulCancel
<1>7. S * t <= r * t
  BY <1>1, <1>2, <1>6
<1> QED BY <1>7, MulCancel

(* No sequence of calls takes value out of the pool: whoever the users     *)
(* are and whatever they call, once they hold the tokens and the LP again  *)
(* that they held when the pool was born, they hold no more SOL.           *)
THEOREM NobodyGains == HSpec => []NoFreeLunch
<1>1. HInit => BirthInv
  BY DEF HInit, Init, BirthInv
<1>2. RingInv /\ Conserved /\ BirthInv /\ [HNext]_hvars => BirthInv'
  BY NextBirth DEF RingInv
<1>3. RingInv /\ Conserved /\ BirthInv => NoFreeLunch
  <2>1. SUFFICES ASSUME Sound, Conserved, BirthInv, created,
                        InWallets(tok) >= birth.tok, InWallets(lp) >= birth.lp
                 PROVE  InWallets(sol) <= birth.sol
    BY DEF RingInv, NoFreeLunch, Purse
  <2>2. PICK S \in Nat, v \in Nat, h \in Nat, p \in Nat, l \in Nat :
          /\ Bequest(birth, S, v, h, p, l)
          /\ Grown(sol_reserve * vault, supply * supply, withheld, locked, S, v, h, p, l)
    BY <2>1 DEF BirthInv
  <2>3. /\ sol_reserve \in Nat /\ vault \in Nat \ {0} /\ supply \in Nat \ {0}
        /\ locked \in Nat /\ sol_reserve = lamports - RENT
        /\ withheld \in Nat /\ lamports \in Nat /\ RENT \in Nat
        /\ sol \in [Users -> Nat] /\ tok \in [Users -> Nat] /\ lp \in [Users -> Nat]
        /\ last.user \in Users
    BY <2>1, AliveFacts, PoolAssumption DEF Sound, TypeOK
  <2>4. InWallets(sol) \in Nat /\ InWallets(tok) \in Nat /\ InWallets(lp) \in Nat
    BY <2>1, <2>3, UnitsBound DEF Conserved, SolKept, TokKept, Sound, LpInv
  <2>5. /\ lamports + InWallets(sol) = InWallets(SolEndowment)
        /\ vault + withheld + InWallets(tok) = InWallets(TokEndowment)
        /\ supply = locked + InWallets(lp)
    BY <2>1 DEF Conserved, SolKept, TokKept, Sound, LpInv, LpAccounted
  <2>6. /\ birth.sol \in Nat /\ birth.tok \in Nat /\ birth.lp \in Nat
        /\ birth.sol + RENT + S = InWallets(SolEndowment)
        /\ birth.tok + v + h = InWallets(TokEndowment)
        /\ birth.lp + l = p /\ p > 0
        /\ withheld >= h /\ locked >= l
        /\ (sol_reserve * vault) * (p * p) >= (supply * supply) * (S * v)
    BY <2>2 DEF Bequest, Grown
  <2>7. vault <= v /\ p <= supply
    BY <2>1, <2>3, <2>4, <2>5, <2>6
  <2>8. S <= sol_reserve
    BY <2>3, <2>6, <2>7, SolRemains
  <2> QED BY <2>3, <2>4, <2>5, <2>6, <2>8
<1> QED BY <1>1, <1>2, <1>3, HSpecRing, HistoryInherits, AssetsAreConserved, PTL DEF HSpec

-----------------------------------------------------------------------------
(* The accumulators.  What the head has gained on a snapshot is, up to     *)
(* multiples of the modulus, an integral over the slots between, each slot *)
(* weighing as much as some price shown in it or beyond, unless one was    *)
(* skipped.                                                                *)
Congruent(x, d) == \E q \in Int : x = d + CUM_MOD * q
Shows(prices, low, high) == \A p \in prices : low <= p /\ p <= high
ShowsOver(sn, first, last_, low, high) ==
  \A s \in first..last_ : Shows(sn[s], low, high)
Integral(o, i, low, high) ==
  LET dt == o.last_cum_slot - o.observations[i].slot
  IN  \E d \in Nat : /\ low * dt <= d /\ d <= high * dt
                     /\ Congruent(o.cum_sol_per_tok - o.observations[i].cum_sol_per_tok, d)
Integrates(o, sn, sk) ==
  \A i \in Index : o.observations[i].slot # 0 =>
    \A low, high \in Nat :
      /\ ShowsOver(sn, o.observations[i].slot, o.last_cum_slot, low, high)
      /\ sk \cap (o.observations[i].slot + 1)..o.last_cum_slot = {}
      => Integral(o, i, low, high)

LEMMA CongruentAdds ==
  ASSUME NEW c \in Int, NEW c0 \in Int, NEW d \in Nat, NEW x \in Nat, Congruent(c - c0, d)
  PROVE  Congruent(((c + x) % CUM_MOD) - c0, d + x)
<1> DEFINE M == CUM_MOD
           r == (c + x) % M
           j == (c + x) \div M
<1>1. M \in Nat \ {0}
  BY OracleAssumption
<1>2. r \in 0..(M - 1) /\ j \in Int /\ c + x = M * j + r
  <2>1. c + x \in Int
    OBVIOUS
  <2> QED BY <1>1, <2>1, ModMultiple
<1>3. PICK q \in Int : c - c0 = d + M * q
  BY DEF Congruent
<1> HIDE DEF M, r, j
<1>4. M * (q - j) = M * q - M * j /\ M * q \in Int /\ M * j \in Int /\ q - j \in Int
  BY <1>1, <1>2, <1>3
<1>5. r - c0 = (d + x) + M * (q - j)
  <2> DEFINE mq == M * q
             mj == M * j
  <2>1. mq \in Int /\ mj \in Int /\ r \in Int
    BY <1>1, <1>2, <1>4
  <2>2. c + x = mj + r /\ c - c0 = d + mq
    BY <1>2, <1>3
  <2> HIDE DEF mq, mj
  <2>3. r - c0 = (d + x) + (mq - mj)
    BY <2>1, <2>2
  <2> QED BY <1>4, <2>3 DEF mq, mj
<1> QED BY <1>4, <1>5 DEF Congruent, M, r

LEMMA CongruentIs ==
  ASSUME NEW x \in Int, NEW d \in Nat, d < CUM_MOD, Congruent(x, d)
  PROVE  x % CUM_MOD = d
<1> DEFINE M == CUM_MOD
<1>1. M \in Nat \ {0}
  BY OracleAssumption
<1>2. x % M \in 0..(M - 1) /\ x \div M \in Int /\ x = M * (x \div M) + (x % M)
  BY <1>1, ModMultiple
<1>3. PICK q \in Int : x = d + M * q
  BY DEF Congruent
<1> HIDE DEF M
<1>4. d = M * (x \div M - q) + (x % M)
  <2> DEFINE j == x \div M
             r == x % M
  <2>1. j \in Int /\ r \in Int /\ x = M * j + r
    BY <1>2
  <2> HIDE DEF j, r
  <2>2. M * (j - q) = M * j - M * q /\ M * j \in Int /\ M * q \in Int
    BY <1>1, <2>1, <1>3
  <2> QED BY <1>3, <2>1, <2>2 DEF j, r
<1>5. d \in 0..(M - 1) /\ x \div M - q \in Int
  BY <1>1, <1>2, <1>3 DEF M
<1>6. d = x % M
  BY <1>1, <1>2, <1>4, <1>5, ModUnique
<1> QED BY <1>6 DEF M

(* One more stretch of slots at one price.                                 *)
LEMMA Stretch ==
  ASSUME NEW low \in Nat, NEW high \in Nat, NEW p \in Nat, low <= p, p <= high,
         NEW a \in Nat, NEW b \in Nat, NEW c \in Nat, a <= b, b <= c,
         NEW d \in Nat, low * (b - a) <= d, d <= high * (b - a)
  PROVE  /\ p * (c - b) \in Nat
         /\ low * (c - a) <= d + p * (c - b) /\ d + p * (c - b) <= high * (c - a)
<1>1. PICK x \in Nat, y \in Nat : x = b - a /\ y = c - b /\ x + y = c - a
  OBVIOUS
<1>2. low * y <= p * y /\ p * y <= high * y
  BY MulMono
<1>3. low * (x + y) = low * x + low * y /\ high * (x + y) = high * x + high * y
  OBVIOUS
<1>4. /\ low * y \in Nat /\ p * y \in Nat /\ high * y \in Nat
      /\ low * x \in Nat /\ high * x \in Nat
  BY MulPos
<1>5. /\ p * y \in Nat
      /\ low * (x + y) <= d + p * y /\ d + p * y <= high * (x + y)
  BY <1>1, <1>2, <1>3, <1>4
<1> QED BY <1>1, <1>5

LEMMA HeadExtended ==
  ASSUME NEW o \in Oracle, NEW i \in Index, o.observations[i].slot <= o.last_cum_slot,
         NEW now \in Nat, o.last_cum_slot <= now,
         NEW low \in Nat, NEW high \in Nat, NEW p \in Nat, low <= p, p <= high,
         Integral(o, i, low, high)
  PROVE  \E d \in Nat :
           /\ low * (now - o.observations[i].slot) <= d
           /\ d <= high * (now - o.observations[i].slot)
           /\ Congruent(accumulate_price(o.cum_sol_per_tok, p, now - o.last_cum_slot)
                          - o.observations[i].cum_sol_per_tok, d)
<1> DEFINE a == o.observations[i].slot
           b == o.last_cum_slot
           c == o.cum_sol_per_tok
           c0 == o.observations[i].cum_sol_per_tok
<1>1. a \in Nat /\ b \in Nat /\ c \in Int /\ c0 \in Int
  BY OracleAssumption DEF Oracle, Observation, Cum
<1>2. PICK d \in Nat : /\ low * (b - a) <= d /\ d <= high * (b - a)
                        /\ Congruent(c - c0, d)
  BY DEF Integral
<1>3. /\ p * (now - b) \in Nat
      /\ low * (now - a) <= d + p * (now - b) /\ d + p * (now - b) <= high * (now - a)
  BY <1>1, <1>2, Stretch
<1>4. Congruent(((c + p * (now - b)) % CUM_MOD) - c0, d + p * (now - b))
  BY <1>1, <1>2, <1>3, CongruentAdds
<1>5. d + p * (now - b) \in Nat
  BY <1>3
<1> HIDE DEF a, b, c, c0
<1> QED BY <1>3, <1>4, <1>5 DEF accumulate_price, a, b, c, c0

LEMMA WeakerShows ==
  ASSUME NEW sn, NEW sn2, NEW first \in Nat, NEW b \in Nat, NEW now \in Nat, b <= now,
         NEW low, NEW high, \A s \in first..b : sn[s] \subseteq sn2[s],
         ShowsOver(sn2, first, now, low, high)
  PROVE  ShowsOver(sn, first, b, low, high)
<1>1. \A s \in first..b : s \in first..now
  OBVIOUS
<1> QED BY <1>1 DEF ShowsOver, Shows

LEMMA RecordIntegrates ==
  ASSUME NEW o \in Oracle, RingGood(o), NEW a \in Nat \ {0}, NEW b \in Nat \ {0},
         NEW now \in Nat, o.last_cum_slot <= now, NEW sn, NEW sn2, NEW sk, NEW sk2,
         Integrates(o, sn, sk), sk \subseteq sk2, price_q64(a, b) \in sn2[now],
         \A i \in Index : o.observations[i].slot # 0 =>
           \A s \in (o.observations[i].slot)..(o.last_cum_slot) : sn[s] \subseteq sn2[s],
         a < MIN_SPOT_RESERVE /\ o.last_cum_slot < now => now \in sk2
  PROVE  Integrates(record_observation(o, a, b, now), sn2, sk2)
<1> DEFINE r == record_observation(o, a, b, now)
           p == price_q64(a, b)
<1>1. /\ now <= o.last_cum_slot => r = o
      /\ now > o.last_cum_slot =>
           /\ r.last_cum_slot = now
           /\ a < MIN_SPOT_RESERVE =>
                SameRing(o, r) /\ r.cum_sol_per_tok = o.cum_sol_per_tok
           /\ a >= MIN_SPOT_RESERVE =>
                /\ r.cum_sol_per_tok =
                     accumulate_price(o.cum_sol_per_tok, p, now - o.last_cum_slot)
                /\ SameRing(o, r) \/ Snapped(o, r, now)
  BY RecordEffect
<1>2. /\ o.last_cum_slot \in Nat /\ o.obs_head \in Index /\ MIN_SPOT_RESERVE \in Nat
      /\ o.observations \in [Index -> Observation]
      /\ \A i \in Index : /\ o.observations[i].slot \in Nat
                          /\ o.observations[i].slot <= o.last_cum_slot
  BY OracleAssumption DEF Oracle, Observation, RingGood
<1>3. r \in Oracle /\ p \in Nat
  BY RecordObservationType, PriceType
<1> HIDE DEF r, p
<1>4. SUFFICES ASSUME NEW i \in Index, r.observations[i].slot # 0,
                      NEW low \in Nat, NEW high \in Nat,
                      ShowsOver(sn2, r.observations[i].slot, r.last_cum_slot, low, high),
                      sk2 \cap (r.observations[i].slot + 1)..r.last_cum_slot = {}
               PROVE  Integral(r, i, low, high)
  BY DEF Integrates, r
<1> DEFINE first == o.observations[i].slot
<1>5. ASSUME r.observations[i] = o.observations[i], r.last_cum_slot >= o.last_cum_slot,
             r.last_cum_slot \in Nat
      PROVE  Integral(o, i, low, high)
  <2>1. first # 0 /\ first \in Nat /\ \A s \in first..(o.last_cum_slot) : sn[s] \subseteq sn2[s]
    BY <1>2, <1>4, <1>5
  <2>2. ShowsOver(sn, first, o.last_cum_slot, low, high)
    BY <1>2, <1>4, <1>5, <2>1, WeakerShows
  <2>3. (first + 1)..(o.last_cum_slot) \subseteq (first + 1)..(r.last_cum_slot)
    BY <1>2, <1>5, <2>1
  <2>4. sk \cap (first + 1)..(o.last_cum_slot) = {}
    BY <1>4, <1>5, <2>3
  <2> QED BY <2>1, <2>2, <2>4 DEF Integrates
<1>6. CASE now <= o.last_cum_slot
  <2>1. r = o
    BY <1>1, <1>6
  <2> QED BY <1>2, <1>5, <2>1
<1>7. CASE now > o.last_cum_slot /\ a < MIN_SPOT_RESERVE
  <2>1. /\ r.last_cum_slot = now /\ r.observations[i] = o.observations[i]
        /\ now \in sk2
    BY <1>1, <1>2, <1>7 DEF SameRing
  <2>2. now \in (r.observations[i].slot + 1)..(r.last_cum_slot)
    BY <1>2, <1>7, <2>1
  <2> QED BY <1>4, <2>1, <2>2
<1>8. CASE now > o.last_cum_slot /\ ~(a < MIN_SPOT_RESERVE) /\ r.observations[i] = o.observations[i]
  <2>1. /\ r.last_cum_slot = now
        /\ r.cum_sol_per_tok = accumulate_price(o.cum_sol_per_tok, p, now - o.last_cum_slot)
    BY <1>1, <1>2, <1>8
  <2>2. Integral(o, i, low, high)
    BY <1>2, <1>5, <1>8, <2>1
  <2>3. low <= p /\ p <= high
    <3>1. now \in (r.observations[i].slot)..(r.last_cum_slot)
      BY <1>2, <1>8, <2>1
    <3>2. Shows(sn2[now], low, high)
      BY <1>4, <3>1 DEF ShowsOver
    <3> QED BY <3>2 DEF Shows, p
  <2>4. \E d \in Nat :
           /\ low * (now - o.observations[i].slot) <= d
           /\ d <= high * (now - o.observations[i].slot)
           /\ Congruent(accumulate_price(o.cum_sol_per_tok, p, now - o.last_cum_slot)
                          - o.observations[i].cum_sol_per_tok, d)
    BY <1>2, <1>3, <1>8, <2>2, <2>3, HeadExtended
  <2> QED BY <1>8, <2>1, <2>4 DEF Integral
<1>9. CASE now > o.last_cum_slot /\ ~(a < MIN_SPOT_RESERVE) /\ r.observations[i] # o.observations[i]
  <2>1. r.last_cum_slot = now /\ Snapped(o, r, now)
    BY <1>1, <1>2, <1>9 DEF SameRing
  <2>2. i = o.obs_head /\ r.observations[i] = Snapshot(r, now)
    BY <1>2, <1>9, <2>1 DEF Snapped
  <2>3. r.observations[i].slot = now /\ r.observations[i].cum_sol_per_tok = r.cum_sol_per_tok
    BY <2>2 DEF Snapshot
  <2>4. r.cum_sol_per_tok \in Int
    BY <1>3, OracleAssumption DEF Oracle, Cum
  <2>5. r.cum_sol_per_tok - r.cum_sol_per_tok = 0 + CUM_MOD * 0 /\ now - now = 0
        /\ low * 0 = 0 /\ high * 0 = 0
    BY <2>4, OracleAssumption
  <2>6. Congruent(r.cum_sol_per_tok - r.cum_sol_per_tok, 0)
    BY <2>5 DEF Congruent
  <2> QED BY <2>1, <2>3, <2>5, <2>6 DEF Integral
<1> QED BY <1>2, <1>6, <1>7, <1>8, <1>9

-----------------------------------------------------------------------------
(* What was shown.  Every slot since the head, and since every snapshot,   *)
(* has its prices, the present one among those of the present slot.        *)
Known(i) ==
  oracle.observations[i].slot # 0 =>
    /\ created
    /\ (oracle.observations[i].slot)..slot \subseteq DOMAIN seen
SeenInv ==
  /\ \A i \in Index : Known(i)
  /\ created => slot \in DOMAIN seen /\ Spot \in seen[slot]
  /\ \A s \in DOMAIN seen : s \in Nat /\ s <= slot /\ seen[s] \subseteq Nat
MarkInv == SeenInv /\ Integrates(oracle, seen, skipped)

LEMMA StepSlot ==
  ASSUME NEW u \in Users, Step(u)
  PROVE  slot' = slot
BY DEF Step, Create, create_pool, Buy, handle_buy, Sell, handle_sell, Add, add_liquidity,
       Remove, remove_liquidity, External, gift_sol, gift_tokens, lp_to_pool,
       lp_self_burn, lp_transfer

(* What a step adds.                                                       *)
SeenGrows ==
  /\ \A s \in DOMAIN seen : s \in DOMAIN seen' /\ seen[s] \subseteq seen'[s]
  /\ created' => slot' \in DOMAIN seen' /\ Spot' \in seen'[slot']
  /\ created => (slot + 1)..slot' \subseteq DOMAIN seen'
  /\ \A s \in DOMAIN seen' : s \in Nat /\ s <= slot' /\ seen'[s] \subseteq Nat

LEMMA SpotType ==
  ASSUME Sound
  PROVE  created => Spot \in Nat
BY AliveFacts, PriceType DEF Spot

LEMMA SpotTypeAfter ==
  ASSUME Sound'
  PROVE  created' => Spot' \in Nat
<1>1. ASSUME created' PROVE Spot' \in Nat
  <2>1. sol_reserve' \in Nat /\ vault' \in Nat \ {0}
    BY <1>1, AliveAfter
  <2>2. price_q64(sol_reserve', vault') \in Nat
    BY <2>1, PriceType
  <2> QED BY <2>2 DEF Spot
<1> QED BY <1>1

LEMMA CallSees ==
  ASSUME Sound, Sound', SeenInv, Recorded, slot' = slot, created => created'
  PROVE  SeenGrows
<1>1. slot' = slot /\ slot \in Nat
  BY DEF Sound, TypeOK
<1>2. seen' = IF created' THEN ShownAlso({slot}, Spot') ELSE seen
  BY DEF Recorded
<1>3. \A s \in DOMAIN seen : s \in Nat /\ s <= slot /\ seen[s] \subseteq Nat
  BY DEF SeenInv
<1>4. created => created'
  OBVIOUS
<1>5. CASE ~created'
  BY <1>1, <1>2, <1>3, <1>4, <1>5 DEF SeenGrows
<1>6. CASE created'
  <2> DEFINE new == Shown(slot) \cup {Spot'}
  <2>1. Spot' \in Nat
    BY <1>6, SpotTypeAfter
  <2>2. Shown(slot) \subseteq Nat /\ (slot \in DOMAIN seen => Shown(slot) = seen[slot])
    BY <1>3 DEF Shown
  <2>3. new \subseteq Nat /\ Spot' \in new /\ (slot \in DOMAIN seen => seen[slot] \subseteq new)
    BY <2>1, <2>2
  <2> HIDE DEF new
  <2>4. seen' = [s \in DOMAIN seen \cup {slot} |->
                   IF s \in {slot} THEN Shown(s) \cup {Spot'} ELSE seen[s]]
    BY <1>2, <1>6 DEF ShownAlso
  <2>5. /\ DOMAIN seen' = {slot} \cup DOMAIN seen
        /\ seen'[slot] = new
        /\ \A s \in DOMAIN seen : s # slot => seen'[s] = seen[s]
    BY <2>4 DEF new
  <2>6. (slot + 1)..slot = {}
    BY <1>1
  <2>7. \A s \in DOMAIN seen : s \in DOMAIN seen' /\ seen[s] \subseteq seen'[s]
    BY <2>3, <2>5
  <2>8. ASSUME NEW s \in DOMAIN seen'
        PROVE  s \in Nat /\ s <= slot' /\ seen'[s] \subseteq Nat
    <3>1. CASE s = slot
      <4>1. seen'[s] = new /\ slot <= slot' /\ slot \in Nat
        BY <1>1, <2>5, <3>1
      <4> QED BY <2>3, <3>1, <4>1
    <3>2. CASE s # slot
      <4>1. s \in DOMAIN seen /\ seen'[s] = seen[s]
        BY <2>5, <3>2
      <4> QED BY <1>1, <1>3, <4>1
    <3> QED BY <3>1, <3>2
  <2> QED BY <1>1, <2>3, <2>5, <2>6, <2>7, <2>8 DEF SeenGrows
<1> QED BY <1>1, <1>5, <1>6

LEMMA TickSees ==
  ASSUME Sound, SeenInv, HTick
  PROVE  SeenGrows /\ UNCHANGED <<oracle, created, skipped>> /\ slot' \in Nat /\ slot' > slot
<1>1. PICK d \in SlotSteps : advance_slot(d)
  BY DEF HTick, Tick
<1>2. /\ slot' = slot + d /\ d \in Nat \ {0} /\ slot \in Nat
      /\ UNCHANGED <<oracle, created, lamports, vault, skipped>>
  BY <1>1, PoolAssumption DEF advance_slot, reserves, HTick, Sound, TypeOK
<1>3. slot' \in Nat /\ slot' > slot
  BY <1>2
<1>4. Spot' = Spot
  BY <1>2 DEF Spot, sol_reserve
<1>5. seen' = IF created THEN ShownAlso((slot + 1)..slot', Spot) ELSE seen
  BY DEF HTick
<1>6. \A s \in DOMAIN seen : s \in Nat /\ s <= slot /\ seen[s] \subseteq Nat
  BY DEF SeenInv
<1>7. CASE ~created
  <2>1. seen' = seen /\ ~created'
    BY <1>2, <1>5, <1>7
  <2>2. \A s \in DOMAIN seen : s <= slot'
    BY <1>2, <1>3, <1>6
  <2>3. SeenGrows
    BY <1>6, <1>7, <2>1, <2>2 DEF SeenGrows
  <2> QED BY <1>2, <1>3, <2>3
<1>8. CASE created
  <2>1. Spot \in Nat
    BY <1>8, SpotType
  <2> DEFINE added == (slot + 1)..slot'
  <2>2. /\ slot' \in added /\ \A s \in added : s \in Nat /\ s <= slot' /\ s > slot
        /\ \A s \in DOMAIN seen : s \notin added
    BY <1>2, <1>3, <1>6
  <2>3. seen' = [s \in DOMAIN seen \cup added |->
                   IF s \in added THEN Shown(s) \cup {Spot} ELSE seen[s]]
    BY <1>5, <1>8 DEF ShownAlso
  <2> HIDE DEF added
  <2>4. /\ DOMAIN seen' = added \cup DOMAIN seen
        /\ \A s \in added : seen'[s] = {Spot}
        /\ \A s \in DOMAIN seen : seen'[s] = seen[s]
    BY <2>2, <2>3 DEF Shown
  <2>5. \A s \in DOMAIN seen : s <= slot'
    BY <1>2, <1>3, <1>6
  <2>6. {Spot} \subseteq Nat /\ Spot' \in {Spot}
    BY <1>4, <2>1
  <2>7. SeenGrows
    BY <1>6, <2>2, <2>4, <2>5, <2>6 DEF SeenGrows, added
  <2> QED BY <1>2, <1>3, <2>7
<1> QED BY <1>7, <1>8

(* Whatever keeps the oracle keeps what its head has gained, as prices are *)
(* only ever added to what was shown.                                      *)
LEMMA IntegratesMore ==
  ASSUME NEW o, NEW sn, NEW sn2, NEW sk, NEW sk2, Integrates(o, sn, sk), sk \subseteq sk2,
         \A i \in Index : o.observations[i].slot # 0 =>
           \A s \in (o.observations[i].slot)..(o.last_cum_slot) : sn[s] \subseteq sn2[s]
  PROVE  Integrates(o, sn2, sk2)
<1> SUFFICES ASSUME NEW i \in Index, o.observations[i].slot # 0,
                    NEW low \in Nat, NEW high \in Nat,
                    ShowsOver(sn2, o.observations[i].slot, o.last_cum_slot, low, high),
                    sk2 \cap (o.observations[i].slot + 1)..o.last_cum_slot = {}
             PROVE  Integral(o, i, low, high)
  BY DEF Integrates
<1>1. ShowsOver(sn, o.observations[i].slot, o.last_cum_slot, low, high)
  BY DEF ShowsOver, Shows
<1>2. sk \cap (o.observations[i].slot + 1)..o.last_cum_slot = {}
  OBVIOUS
<1> QED BY <1>1, <1>2 DEF Integrates

LEMMA NoneWritten ==
  ASSUME NEW o, \A i \in Index : o.observations[i].slot = 0
  PROVE  \A sn, sk : Integrates(o, sn, sk)
BY DEF Integrates

LEMMA BornUnwritten ==
  ASSUME NEW now
  PROVE  \A i \in Index : init_oracle(now).observations[i].slot = 0
BY DEF init_oracle, Unwritten

(* The snapshots of the next state that were written are of slots whose    *)
(* prices are known.                                                       *)
LEMMA KnownAfter ==
  ASSUME RingInv, RingInv', SeenInv, SeenGrows, slot' >= slot,
         Idle \/ Born \/ Traded
  PROVE  \A i \in Index : Known(i)'
<1>1. /\ slot \in Nat /\ slot' \in Nat /\ oracle \in Oracle /\ oracle' \in Oracle
      /\ \A i \in Index : oracle.observations[i].slot \in Nat
  BY DEF RingInv, Sound, TypeOK, Oracle, Observation
<1>2. /\ \A s \in DOMAIN seen : s \in DOMAIN seen'
      /\ created' => slot' \in DOMAIN seen'
      /\ created => (slot + 1)..slot' \subseteq DOMAIN seen'
  BY DEF SeenGrows
<1>3. ASSUME NEW i \in Index, oracle'.observations[i] = oracle.observations[i],
             created => created'
      PROVE  Known(i)'
  <2>1. SUFFICES ASSUME oracle'.observations[i].slot # 0
                 PROVE  created' /\ (oracle'.observations[i].slot)..slot' \subseteq DOMAIN seen'
    BY DEF Known
  <2>2. created /\ (oracle.observations[i].slot)..slot \subseteq DOMAIN seen
    BY <1>3, <2>1 DEF SeenInv, Known
  <2>3. ASSUME NEW s \in (oracle.observations[i].slot)..slot' PROVE s \in DOMAIN seen'
    <3>1. \/ s \in (oracle.observations[i].slot)..slot
          \/ s \in (slot + 1)..slot'
      BY <1>1
    <3> QED BY <1>2, <2>2, <3>1
  <2> QED BY <1>3, <2>2, <2>3
<1>4. CASE Idle
  <2>1. oracle' = oracle /\ created' = created
    BY <1>4 DEF Idle
  <2> QED BY <1>3, <2>1
<1>5. CASE Born
  <2>1. \A i \in Index : oracle'.observations[i].slot = 0
    BY <1>5, BornUnwritten DEF Born
  <2> QED BY <2>1 DEF Known
<1>6. CASE Traded
  <2>1. /\ created /\ created' /\ slot' = slot
        /\ oracle' = record_observation(oracle, sol_reserve, vault, slot)
        /\ sol_reserve \in Nat \ {0} /\ vault \in Nat \ {0}
    BY <1>6, AliveFacts DEF Traded, RingInv
  <2>2. ASSUME NEW i \in Index, oracle'.observations[i] # oracle.observations[i]
        PROVE  oracle'.observations[i].slot = slot'
    <3>1. /\ slot <= oracle.last_cum_slot => oracle' = oracle
          /\ slot > oracle.last_cum_slot =>
               SameRing(oracle, oracle') \/ Snapped(oracle, oracle', slot)
      BY <1>1, <2>1, RecordEffect, OracleAssumption
    <3>2. oracle.last_cum_slot \in Nat /\ oracle.observations \in [Index -> Observation]
      BY <1>1 DEF Oracle
    <3>3. Snapped(oracle, oracle', slot)
      BY <1>1, <2>2, <3>1, <3>2 DEF SameRing
    <3>4. oracle'.observations[i] = Snapshot(oracle', slot)
      BY <2>2, <3>2, <3>3 DEF Snapped
    <3> QED BY <2>1, <3>4 DEF Snapshot
  <2>3. ASSUME NEW i \in Index PROVE Known(i)'
    <3>1. CASE oracle'.observations[i] = oracle.observations[i]
      BY <1>3, <2>1, <3>1
    <3>2. CASE oracle'.observations[i] # oracle.observations[i]
      <4>1. (oracle'.observations[i].slot)..slot' = {slot'}
        BY <1>1, <2>2, <3>2
      <4> QED BY <1>2, <2>1, <4>1 DEF Known
    <3> QED BY <3>1, <3>2
  <2> QED BY <2>3
<1> QED BY <1>4, <1>5, <1>6

(* What a call and the clock do to what the head has gained.               *)
LEMMA IntegratesAfter ==
  ASSUME RingInv, MarkInv, SeenGrows, skipped \subseteq skipped',
         Idle \/ Born \/ Traded,
         Traded /\ sol_reserve < MIN_SPOT_RESERVE =>
           (oracle.last_cum_slot + 1)..slot \subseteq skipped'
  PROVE  Integrates(oracle, seen, skipped)'
<1>1. /\ slot \in Nat /\ oracle \in Oracle /\ oracle.last_cum_slot \in Nat
      /\ oracle.last_cum_slot <= slot /\ RingGood(oracle)
      /\ \A i \in Index : oracle.observations[i].slot \in Nat
  BY DEF RingInv, Sound, TypeOK, Oracle, Observation
<1>2. \A s \in DOMAIN seen : seen[s] \subseteq seen'[s]
  BY DEF SeenGrows
<1>3. ASSUME NEW i \in Index, oracle.observations[i].slot # 0,
             NEW s \in (oracle.observations[i].slot)..(oracle.last_cum_slot)
      PROVE  seen[s] \subseteq seen'[s]
  <2>1. s \in (oracle.observations[i].slot)..slot
    BY <1>1
  <2>2. s \in DOMAIN seen
    BY <1>3, <2>1 DEF MarkInv, SeenInv, Known
  <2> QED BY <1>2, <2>2
<1>4. CASE Idle
  <2>1. oracle' = oracle
    BY <1>4 DEF Idle
  <2>2. Integrates(oracle, seen', skipped')
    BY <1>3, IntegratesMore DEF MarkInv
  <2> QED BY <2>1, <2>2
<1>5. CASE Born
  <2>1. \A i \in Index : oracle'.observations[i].slot = 0
    BY <1>5, BornUnwritten DEF Born
  <2>2. Integrates(oracle', seen', skipped')
    BY <2>1, NoneWritten
  <2> QED BY <2>2
<1>6. CASE Traded
  <2>1. /\ created /\ created' /\ slot' = slot
        /\ oracle' = record_observation(oracle, sol_reserve, vault, slot)
        /\ sol_reserve \in Nat \ {0} /\ vault \in Nat \ {0}
    BY <1>6, AliveFacts DEF Traded, RingInv
  <2>2. slot \in DOMAIN seen /\ Spot \in seen[slot]
    BY <2>1 DEF MarkInv, SeenInv
  <2>3. price_q64(sol_reserve, vault) \in seen'[slot]
    BY <1>2, <2>2 DEF Spot
  <2>4. sol_reserve < MIN_SPOT_RESERVE /\ oracle.last_cum_slot < slot => slot \in skipped'
    <3>1. oracle.last_cum_slot < slot => slot \in (oracle.last_cum_slot + 1)..slot
      BY <1>1
    <3> QED BY <1>6, <3>1
  <2>5. Integrates(record_observation(oracle, sol_reserve, vault, slot), seen', skipped')
    BY <1>1, <1>3, <2>1, <2>3, <2>4, RecordIntegrates DEF MarkInv
  <2> QED BY <2>1, <2>5
<1> QED BY <1>4, <1>5, <1>6

(* Prices and skipped slots are only added, and a swap in a pool below     *)
(* the floor says which slots it skips.                                    *)
Remembers ==
  /\ SeenGrows
  /\ slot' >= slot
  /\ skipped \subseteq skipped'
  /\ Traded /\ sol_reserve < MIN_SPOT_RESERVE =>
       (oracle.last_cum_slot + 1)..slot \subseteq skipped'

LEMMA MarkStep ==
  ASSUME RingInv, RingInv', MarkInv, Idle \/ Born \/ Traded, Remembers
  PROVE  MarkInv'
<1>1. Integrates(oracle, seen, skipped)'
  BY IntegratesAfter DEF Remembers
<1>2. \A i \in Index : Known(i)'
  BY KnownAfter DEF MarkInv, Remembers
<1>3. SeenInv'
  BY <1>2 DEF SeenInv, SeenGrows, Remembers
<1> QED BY <1>1, <1>3 DEF MarkInv

LEMMA TickRemembers ==
  ASSUME Sound, SeenInv, HTick
  PROVE  Remembers
<1>1. SeenGrows /\ UNCHANGED <<oracle, created, skipped>> /\ slot' \in Nat /\ slot' > slot
  BY TickSees
<1>2. ~Traded /\ slot' >= slot
  BY <1>1 DEF Traded, Sound, TypeOK
<1> QED BY <1>1, <1>2 DEF Remembers

LEMMA CallRemembers ==
  ASSUME Sound, Sound', SeenInv, Recorded, slot' = slot, created => created'
  PROVE  Remembers
<1>1. SeenGrows /\ slot' >= slot
  BY CallSees DEF Sound, TypeOK
<1>2. skipped' = IF Skips THEN skipped \cup (oracle.last_cum_slot + 1)..slot ELSE skipped
  BY DEF Recorded
<1>3. Traded /\ sol_reserve < MIN_SPOT_RESERVE => Skips
  BY DEF Traded, Skips
<1> QED BY <1>1, <1>2, <1>3 DEF Remembers

LEMMA StepRemembers ==
  ASSUME Sound, Sound', SeenInv, NEW u \in Users, HStep(u)
  PROVE  Remembers
<1>1. slot' = slot /\ Recorded
  BY StepSlot DEF HStep
<1>2. created => created'
  BY NextEffect, HistoryStep DEF StepEffect, HNext
<1> QED BY <1>1, <1>2, CallRemembers

LEMMA NextMark ==
  ASSUME RingInv, RingInv', MarkInv, [HNext]_hvars
  PROVE  MarkInv'
<1>1. Sound /\ Sound' /\ (Idle \/ Born \/ Traded)
  BY HistoryStep, OracleMoves DEF RingInv
<1>2. CASE Remembers
  BY <1>1, <1>2, MarkStep
<1>3. HTick => Remembers
  BY <1>1, TickRemembers DEF MarkInv
<1>4. ASSUME NEW u \in Users, HStep(u) PROVE Remembers
  BY <1>1, <1>4, StepRemembers DEF MarkInv
<1>5. CASE UNCHANGED hvars
  <2>1. UNCHANGED <<oracle, created, slot, sol_reserve, vault, seen, skipped>>
    BY <1>5 DEF hvars, vars, history, sol_reserve
  <2> QED BY <2>1 DEF MarkInv, SeenInv, Known, Spot, sol_reserve
<1> QED BY <1>2, <1>3, <1>4, <1>5 DEF HNext

LEMMA InitMark ==
  ASSUME HInit
  PROVE  MarkInv
<1>1. /\ created = FALSE /\ oracle = init_oracle(0) /\ seen = <<>>
  BY DEF HInit, Init
<1>2. \A i \in Index : oracle.observations[i].slot = 0
  BY <1>1, BornUnwritten
<1>3. DOMAIN seen = {}
  BY <1>1
<1>4. Integrates(oracle, seen, skipped)
  BY <1>2, NoneWritten
<1> QED BY <1>1, <1>2, <1>3, <1>4 DEF MarkInv, SeenInv, Known

(* A bounded set of prices has a lowest and a highest.                     *)
LEMMA Extremes ==
  ASSUME NEW P \in SUBSET Nat, P # {}, NEW B \in Nat, \A p \in P : p <= B
  PROVE  \E low, high \in P : Shows(P, low, high)
<1> DEFINE Q == {B - p : p \in P}
<1>1. PICK low \in P : \A p \in P : ~(<<p, low>> \in OpToRel(<, Nat))
  BY NatLessThanWellFounded, WFMin
<1>2. Q \subseteq Nat /\ Q # {}
  OBVIOUS
<1>3. PICK g \in Q : \A q \in Q : ~(<<q, g>> \in OpToRel(<, Nat))
  <2> HIDE DEF Q
  <2> QED BY <1>2, NatLessThanWellFounded, WFMin
<1>4. PICK high \in P : g = B - high
  BY <1>3
<1>5. ASSUME NEW p \in P PROVE low <= p /\ p <= high
  <2>1. ~(p < low)
    BY <1>1 DEF OpToRel
  <2>2. B - p \in Q /\ B - p \in Nat /\ g \in Nat
    BY <1>2, <1>3
  <2>3. ~(B - p < g)
    BY <1>3, <2>2 DEF OpToRel
  <2>4. p \in Nat /\ low \in Nat /\ high \in Nat
    OBVIOUS
  <2> HIDE DEF Q
  <2> QED BY <1>4, <2>1, <2>3, <2>4
<1> QED BY <1>5 DEF Shows

(* A number between two multiples of dt has its quotient between them.     *)
LEMMA QuotientBetween ==
  ASSUME NEW low \in Nat, NEW high \in Nat, NEW d \in Nat, NEW dt \in Nat \ {0},
         low * dt <= d, d <= high * dt
  PROVE  low <= d \div dt /\ d \div dt <= high
<1> DEFINE q == d \div dt
<1>1. q \in Nat /\ dt * q <= d /\ d < dt * q + dt
  BY DivFacts
<1> HIDE DEF q
<1>2. q <= high
  <2>1. q * dt = dt * q /\ q * dt \in Nat /\ high * dt \in Nat
    BY <1>1, MulPos
  <2>2. q * dt <= high * dt
    BY <1>1, <2>1
  <2> QED BY <1>1, <2>2, MulCancel
<1>3. low <= q
  <2> SUFFICES ASSUME q + 1 <= low PROVE FALSE
    BY <1>1
  <2>1. (q + 1) * dt <= low * dt
    BY <1>1, MulMono
  <2>2. (q + 1) * dt = dt * q + dt /\ dt * q \in Nat /\ low * dt \in Nat
    BY <1>1, MulPos
  <2> QED BY <1>1, <2>1, <2>2
<1> QED BY <1>2, <1>3 DEF q

(* A reading of the mark at reserves whose price is among those shown in   *)
(* its window, when the integral of the window fits and no slot of it was  *)
(* skipped.                                                                *)
TrueReading(o, s, t, now, k, sn, sk, prices) ==
  LET start == WindowStart(o, now, k).slot
  IN  /\ o \in Oracle /\ RingGood(o) /\ o.last_cum_slot <= now /\ Integrates(o, sn, sk)
      /\ now \in Nat /\ k \in Nat /\ s \in Nat /\ t \in Nat
      /\ prices \subseteq Nat /\ prices = UNION {sn[x] : x \in start..now}
      /\ \A p \in prices : p * (now - start) < CUM_MOD
      /\ sk \cap (start + 1)..now = {}
      /\ price_q64(s, t) \in prices
Averages(mark, prices) == \E low, high \in prices : low <= mark /\ mark <= high

LEMMA AverageOf ==
  ASSUME NEW o, NEW s, NEW t, NEW now, NEW k, NEW sn, NEW sk, NEW prices,
         TrueReading(o, s, t, now, k, sn, sk, prices),
         read_twap_sol_per_tok(o, s, t, now, k) # NoMark
  PROVE  Averages(read_twap_sol_per_tok(o, s, t, now, k), prices)
<1> DEFINE mark == read_twap_sol_per_tok(o, s, t, now, k)
<1>0. /\ o \in Oracle /\ RingGood(o) /\ o.last_cum_slot <= now /\ Integrates(o, sn, sk)
      /\ now \in Nat /\ k \in Nat /\ s \in Nat /\ t \in Nat
      /\ prices \in SUBSET Nat /\ price_q64(s, t) \in prices
  BY DEF TrueReading
<1> USE <1>0
<1>1. PICK start : /\ start = WindowStart(o, now, k).slot
                   /\ prices = UNION {sn[x] : x \in start..now}
                   /\ \A p \in prices : p * (now - start) < CUM_MOD
                   /\ sk \cap (start + 1)..now = {}
  BY DEF TrueReading
<1>2. o.last_cum_slot \in Nat /\ CUM_MOD \in Nat \ {0}
  BY OracleAssumption DEF Oracle
<1>3. OldEnough(o, now, k) # {} /\ SatSub(now, start) # 0 /\ t # 0
  BY <1>1 DEF read_twap_sol_per_tok
<1>4. PICK i \in Index : NewestOf(o, OldEnough(o, now, k), i)
  BY <1>3, StartExists
<1>5. WindowStart(o, now, k) = o.observations[i]
  BY <1>4, StartIs
<1>6. start = o.observations[i].slot /\ start # 0 /\ start \in Nat
  BY <1>1, <1>4, <1>5 DEF NewestOf, OldEnough, Oracle, Observation
<1> DEFINE dt == now - start
           c0 == o.observations[i].cum_sol_per_tok
           spot == price_q64(s, t)
           head == accumulate_price(o.cum_sol_per_tok, spot, now - o.last_cum_slot)
<1>7. dt \in Nat \ {0} /\ SatSub(now, start) = dt /\ start <= now
  BY <1>3, <1>6 DEF SatSub
<1>8. spot \in Nat /\ spot \in prices
  OBVIOUS
<1>9. ASSUME NEW p \in prices PROVE p <= CUM_MOD
  <2>1. p \in Nat /\ p * dt < CUM_MOD
    BY <1>1
  <2> HIDE DEF dt
  <2>2. p * 1 <= p * dt /\ p * dt \in Nat
    BY <1>7, <2>1, MulMono, MulPos
  <2> QED BY <1>2, <2>1, <2>2
<1>10. PICK low \in prices, high \in prices : Shows(prices, low, high)
  <2>1. prices # {} /\ CUM_MOD \in Nat
    BY <1>2, <1>8
  <2> QED BY <1>9, <2>1, Extremes
<1>11. low \in Nat /\ high \in Nat /\ low <= spot /\ spot <= high
  BY <1>8, <1>10 DEF Shows
<1>12. Integral(o, i, low, high)
  <2>1. ShowsOver(sn, start, o.last_cum_slot, low, high)
    <3>1. \A x \in start..(o.last_cum_slot) : x \in start..now
      BY <1>2, <1>6
    <3> QED BY <1>1, <1>10, <3>1 DEF ShowsOver, Shows
  <2>2. (start + 1)..(o.last_cum_slot) \subseteq (start + 1)..now
    BY <1>2, <1>6
  <2>3. sk \cap (start + 1)..(o.last_cum_slot) = {}
    BY <1>1, <2>2
  <2> QED BY <1>6, <1>11, <2>1, <2>3 DEF Integrates
<1>13. PICK d \in Nat : /\ low * dt <= d /\ d <= high * dt
                        /\ Congruent(head - c0, d)
  <2>1. o.observations[i].slot <= o.last_cum_slot
    BY DEF RingGood
  <2> QED BY <1>2, <1>6, <1>8, <1>11, <1>12, <2>1, HeadExtended
<1>14. head - c0 \in Int
  <2>1. head \in Cum /\ c0 \in Cum
    <3>1. /\ o.cum_sol_per_tok \in Nat /\ c0 \in Cum
          /\ now - o.last_cum_slot \in Nat
      BY <1>2 DEF Oracle, Observation, Cum
    <3> QED BY <1>8, <3>1, AccumulateType
  <2> HIDE DEF head, c0
  <2> QED BY <2>1, <1>2 DEF Cum
<1>15. mark = ((head - c0) % CUM_MOD) \div dt
  <2>1. SatSub(now, o.last_cum_slot) = now - o.last_cum_slot
    BY <1>2 DEF SatSub
  <2> QED BY <1>3, <1>5, <1>6, <1>7, <2>1 DEF read_twap_sol_per_tok
<1> HIDE DEF head, c0
<1>16. d < CUM_MOD
  <2>1. high * dt < CUM_MOD
    BY <1>1, <1>10
  <2> HIDE DEF dt
  <2>2. high * dt \in Nat
    BY <1>7, <1>11, MulPos
  <2> QED BY <1>2, <1>13, <2>1, <2>2
<1>17. mark = d \div dt
  BY <1>13, <1>14, <1>15, <1>16, CongruentIs
<1> HIDE DEF dt
<1>18. low <= d \div dt /\ d \div dt <= high
  BY <1>7, <1>11, <1>13, QuotientBetween
<1> QED BY <1>10, <1>17, <1>18 DEF Averages

(* The prices of a window whose start is a snapshot have been seen.        *)
LEMMA WindowSeen ==
  ASSUME NEW o \in Oracle, RingGood(o), NEW now \in Nat, NEW k \in Nat,
         OldEnough(o, now, k) # {}
  PROVE  LET start == WindowStart(o, now, k).slot
         IN  /\ start \in Nat /\ start <= now
             /\ \E i \in Index : o.observations[i].slot = start /\ start # 0
<1>1. PICK i \in Index : NewestOf(o, OldEnough(o, now, k), i)
  BY StartExists
<1>2. WindowStart(o, now, k) = o.observations[i]
  BY <1>1, StartIs
<1>3. /\ o.observations[i].slot \in Nat /\ o.observations[i].slot # 0
      /\ o.observations[i].slot <= SatSub(now, k)
  BY <1>1 DEF NewestOf, OldEnough, Oracle, Observation
<1>4. o.observations[i].slot <= now
  BY <1>3 DEF SatSub
<1> QED BY <1>2, <1>3, <1>4

LEMMA MarkBetween ==
  ASSUME RingInv, MarkInv, NEW k \in Lookbacks,
         NEW start, start = WindowStart(oracle, slot, k).slot,
         NEW prices, prices = UNION {seen[s] : s \in start..slot},
         Mark(k) # NoMark, \A p \in prices : p * (slot - start) < CUM_MOD,
         skipped \cap (start + 1)..slot = {}
  PROVE  \E low, high \in prices : low <= Mark(k) /\ Mark(k) <= high
<1>1. /\ slot \in Nat /\ oracle \in Oracle /\ RingGood(oracle) /\ k \in Nat
      /\ oracle.last_cum_slot <= slot /\ Sound
  BY PoolAssumption DEF RingInv, Sound, TypeOK
<1>2. OldEnough(oracle, slot, k) # {} /\ vault # 0
  BY DEF Mark, read_twap_sol_per_tok
<1>3. PICK i \in Index : oracle.observations[i].slot = start /\ start # 0
  BY <1>1, <1>2, WindowSeen
<1>4. start \in Nat /\ start <= slot
  BY <1>1, <1>2, WindowSeen
<1>5. created /\ start..slot \subseteq DOMAIN seen
  BY <1>3 DEF MarkInv, SeenInv, Known
<1>6. Spot \in prices /\ prices \in SUBSET Nat
  <2>1. slot \in start..slot /\ Spot \in seen[slot]
    BY <1>1, <1>4, <1>5 DEF MarkInv, SeenInv
  <2>2. \A s \in start..slot : seen[s] \subseteq Nat
    BY <1>5 DEF MarkInv, SeenInv
  <2> QED BY <2>1, <2>2
<1>7. sol_reserve \in Nat /\ vault \in Nat
  BY <1>1, <1>5, AliveFacts
<1>8. Mark(k) = read_twap_sol_per_tok(oracle, sol_reserve, vault, slot, k)
  BY DEF Mark
<1>9. TrueReading(oracle, sol_reserve, vault, slot, k, seen, skipped, prices)
  BY <1>1, <1>6, <1>7 DEF MarkInv, Spot, TrueReading
<1>10. Averages(Mark(k), prices)
  BY <1>8, <1>9, AverageOf
<1> QED BY <1>10 DEF Averages

(* A mark lies between two prices that the pool showed in its window: for  *)
(* any ring, spacing and modulus, however the accumulators have wrapped,   *)
(* as long as the integral of the window fits and no slot was skipped.     *)
THEOREM MarkIsAnAverage == HSpec => []MarkWithinSeen
<1>1. HInit => MarkInv
  BY InitMark
<1>2. RingInv /\ RingInv' /\ MarkInv /\ [HNext]_hvars => MarkInv'
  BY NextMark
<1>3. RingInv /\ MarkInv => MarkWithinSeen
  BY MarkBetween DEF MarkWithinSeen
<1> QED BY <1>1, <1>2, <1>3, HSpecRing, PTL DEF HSpec
=============================================================================
