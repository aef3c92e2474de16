--------------------------- MODULE EventBusProofs ---------------------------
(***************************************************************************)
(* Theorems about the client's event bus, for every log of rows, every     *)
(* capacity and limit, and any number of faults.                           *)
(***************************************************************************)
EXTENDS EventBus, SequenceTheorems, WellFoundedInduction, TLAPS

-----------------------------------------------------------------------------
(* The invariant.                                                          *)

Latest == IF Log = <<>> THEN 0 ELSE Log[Len(Log)].at
Stages == {"swap", "swap read", "liquidity", "liquidity read", "pool", "pool read", "done"}
Fill == [since : 0..Latest, stage : Stages, rows : SUBSET Frames]

BusType ==
  /\ committed \in 0..Blocks /\ sent \in 0..Last(committed)
  /\ session \in {"none", "upgraded", "subscribed"}
  /\ pos \in Nat
  /\ wire \in Seq(Frames)
  /\ conn \in {"connecting", "open", "waiting", "gone"}
  /\ closed \in BOOLEAN /\ hasEverConnected \in BOOLEAN
  /\ lastSeenAt \in 0..Latest /\ seenPoolIds \subseteq Frames
  /\ fills \in Seq(Fill)
  /\ delivered \subseteq Frames /\ first \in 0..Len(Log)
  /\ excused \subseteq Frames /\ early \in [Kinds -> 0..Blocks]

Connection ==
  /\ conn = "open" => hasEverConnected
  /\ Connected => session # "none"
  /\ session = "subscribed" => pos \in 1..(sent + 1)
  /\ first < Len(Log) => hasEverConnected

SeenDelivered == ~closed => seenPoolIds \subseteq delivered

(* The lists that a gap fill of this stage has still to ask for.           *)
ToRead(stage) ==
  {k \in Kinds : \/ stage = "swap"
                 \/ stage \in {"swap read", "liquidity"} /\ k # "swap"
                 \/ stage \in {"liquidity read", "pool"} /\ k = "pool"}

(* A row is accounted for when it was delivered, when the bus could not    *)
(* know of it, or when a gap fill has yet to ask for its list or holds it  *)
(* in an answer.                                                           *)
Awaited(f) ==
  \E i \in DOMAIN fills :
    \/ Log[f].kind \in ToRead(fills[i].stage)
    \/ fills[i].stage = Reading(Log[f].kind) /\ f \in fills[i].rows
Covered(f) == f \in delivered \/ f \in excused \/ Awaited(f)
OnWire(f) == \E j \in 1..Len(wire) : wire[j] = f
Wanted == {f \in Frames : Log[f].kind \in Kinds}

(* While the session is subscribed, what was published is accounted for,   *)
(* on the wire, or still in the channel.                                   *)
Streamed ==
  ~closed /\ conn = "open" /\ session = "subscribed" =>
    \A f \in Wanted : first < f /\ f <= sent => Covered(f) \/ OnWire(f) \/ pos <= f

(* While it is not yet, each kind has still to be read by the latest gap   *)
(* fill, or what was committed when it was read is accounted for.          *)
ReadInTime ==
  ~closed /\ conn = "open" /\ session = "upgraded" /\ first < Len(Log) =>
    \A k \in Kinds :
      \/ fills # <<>> /\ k \in ToRead(fills[Len(fills)].stage)
      \/ early[k] <= committed /\ \A f \in Rows(k, early[k]) : Covered(f)

BusInv == BusType /\ Connection /\ SeenDelivered /\ Streamed /\ ReadInTime

-----------------------------------------------------------------------------
(* The log.                                                                *)

LEMMA LogTypes ==
  /\ Len(Log) \in Nat /\ Blocks \in Nat /\ Latest \in Nat
  /\ \A f \in Frames : /\ Log[f].at \in 1..Latest /\ Log[f].block \in 1..Blocks
                       /\ f \in Nat \ {0} /\ f <= Len(Log)
  /\ \A f, g \in Frames : f < g => Log[f].block <= Log[g].block
<1> DEFINE Row == [kind : {KindOrder[i] : i \in 1..4}, at : Nat \ {0}, block : Nat \ {0}]
<1>1. Log \in Seq(Row)
  BY BusAssumption
<1>2. \A r \in Row : r.at \in Nat \ {0} /\ r.block \in Nat \ {0}
  OBVIOUS
<1> HIDE DEF Row
<1>3. Len(Log) \in Nat /\ \A f \in 1..Len(Log) : Log[f] \in Row
  BY <1>1, LenProperties, ElementOfSeq
<1>4. \A f \in Frames : /\ Log[f].at \in Nat \ {0} /\ Log[f].block \in Nat \ {0}
                        /\ f \in Nat \ {0} /\ f <= Len(Log)
  BY <1>2, <1>3 DEF Frames
<1>5. \A f, g \in Frames : f < g => Log[f].at <= Log[g].at /\ Log[f].block <= Log[g].block
  <2>1. \A f, g \in Frames : f < g =>
          Log[f].at <= Log[g].at /\ (Log[f].block < Log[g].block \/ Log[f].block = Log[g].block)
    BY BusAssumption, Zenon
  <2> QED BY <1>4, <2>1
<1>6. CASE Log = <<>>
  <2>1. Len(Log) = 0
    BY <1>6
  <2>2. Frames = {}
    BY <2>1 DEF Frames
  <2> QED BY <1>3, <1>6, <2>2 DEF Latest, Blocks
<1>7. CASE Log # <<>>
  <2>1. Len(Log) \in Frames
    BY <1>1, <1>3, <1>7, EmptySeq DEF Frames
  <2>2. Latest = Log[Len(Log)].at /\ Blocks = Log[Len(Log)].block
    BY <1>7 DEF Latest, Blocks
  <2>3. Latest \in Nat /\ Blocks \in Nat
    BY <1>4, <2>1, <2>2
  <2>4. \A f \in Frames : Log[f].at <= Latest /\ Log[f].block <= Blocks
    <3>1. TAKE f \in Frames
    <3>2. f = Len(Log) \/ f < Len(Log)
      BY <1>3, <1>4
    <3> QED BY <1>4, <1>5, <2>1, <2>2, <3>2
  <2> QED BY <1>3, <1>4, <1>5, <2>3, <2>4
<1> QED BY <1>6, <1>7

(* A set of numbers up to n has a greatest.                                *)
LEMMA Greatest ==
  ASSUME NEW n \in Nat, NEW S \in SUBSET (0..n), S # {}
  PROVE  \E t \in S : \A u \in S : u <= t
<1> DEFINE T == {n - s : s \in S}
<1>1. T \subseteq Nat /\ T # {}
  <2>1. \A s \in S : s \in 0..n
    OBVIOUS
  <2>2. \A s \in S : n - s \in Nat
    BY <2>1
  <2> QED BY <2>2
<1>2. \E r \in T : \A s \in T : ~(<<s, r>> \in OpToRel(<, Nat))
  <2> HIDE DEF T
  <2> QED BY <1>1, NatLessThanWellFounded, WFMin
<1>3. PICK r \in T : \A s \in T : ~(<<s, r>> \in OpToRel(<, Nat))
  BY <1>2
<1>4. \A s \in T : ~(s < r)
  BY <1>1, <1>3 DEF OpToRel
<1>5. PICK t \in S : r = n - t
  BY <1>3
<1>6. ASSUME NEW u \in S PROVE u <= t
  <2>1. ~(n - u < n - t)
    BY <1>4, <1>5
  <2>2. u \in Nat /\ t \in Nat
    OBVIOUS
  <2> QED BY <2>1, <2>2
<1> QED BY <1>6

(* Last is what it is chosen to be: the rows up to it are those of the     *)
(* first blocks.                                                           *)
LEMMA LastFacts ==
  ASSUME NEW b \in Nat
  PROVE  /\ Last(b) \in 0..Len(Log)
         /\ \A f \in Frames : f <= Last(b) <=> Log[f].block <= b
<1> DEFINE S == {0} \cup {f \in Frames : Log[f].block <= b}
<1>1. Len(Log) \in Nat /\ S \in SUBSET (0..Len(Log)) /\ S # {}
  BY LogTypes
<1>2. PICK n \in S : \A u \in S : u <= n
  <2> HIDE DEF S
  <2> QED BY <1>1, Greatest
<1>3. n \in 0..Len(Log)
  BY <1>1
<1>4. ASSUME NEW f \in Frames PROVE f <= n <=> Log[f].block <= b
  <2>1. Log[f].block <= b => f <= n
    BY <1>2
  <2>2. ASSUME f <= n PROVE Log[f].block <= b
    <3>1. n # 0
      BY <1>3, <2>2, LogTypes
    <3>2. n \in Frames /\ Log[n].block <= b
      BY <3>1
    <3>3. f = n \/ f < n
      BY <1>3, <2>2, LogTypes
    <3>4. Log[f].block <= Log[n].block /\ Log[f].block \in Nat /\ Log[n].block \in Nat
      BY <3>2, <3>3, LogTypes
    <3> QED BY <3>2, <3>4
  <2> QED BY <2>1, <2>2
<1> HIDE DEF S
<1>5. \E m \in 0..Len(Log) : \A f \in Frames : f <= m <=> Log[f].block <= b
  BY <1>3, <1>4
<1> QED BY <1>5 DEF Last

LEMMA LastMono ==
  ASSUME NEW b \in Nat
  PROVE  Last(b) <= Last(b + 1)
<1>1. /\ Last(b) \in 0..Len(Log) /\ Last(b + 1) \in 0..Len(Log)
      /\ \A f \in Frames : f <= Last(b) <=> Log[f].block <= b
      /\ \A f \in Frames : f <= Last(b + 1) <=> Log[f].block <= b + 1
  <2>1. b + 1 \in Nat
    OBVIOUS
  <2> QED BY <2>1, LastFacts
<1>2. CASE Last(b) = 0
  BY <1>1, <1>2, LogTypes
<1>3. CASE Last(b) # 0
  <2>1. Last(b) \in Frames
    BY <1>1, <1>3, LogTypes DEF Frames
  <2>2. Log[Last(b)].block \in Nat /\ Log[Last(b)].block <= b
    <3>1. Last(b) <= Last(b)
      BY <1>1, LogTypes
    <3> QED BY <1>1, <2>1, <3>1, LogTypes
  <2> QED BY <1>1, <2>1, <2>2
<1> QED BY <1>2, <1>3

(* What is published was committed.                                        *)
LEMMA SentIsCommitted ==
  ASSUME BusType
  PROVE  /\ committed \in Nat /\ sent \in Nat /\ sent <= Len(Log)
         /\ sent <= Last(committed) /\ Last(committed) \in 0..Len(Log)
         /\ \A f \in Frames : f <= sent => f <= Last(committed)
         /\ \A f \in Frames : f <= Last(committed) <=> Log[f].block <= committed
<1>1. committed \in Nat
  BY LogTypes DEF BusType
<1>2. /\ Last(committed) \in 0..Len(Log)
      /\ \A f \in Frames : f <= Last(committed) <=> Log[f].block <= committed
  BY <1>1, LastFacts
<1>3. sent \in 0..Last(committed)
  BY DEF BusType
<1> QED BY <1>1, <1>2, <1>3, LogTypes

-----------------------------------------------------------------------------
(* The stages of a gap fill.                                               *)

LEMMA StageFacts ==
  /\ \A k \in Kinds :
       /\ Reading(k) \in Stages /\ Reading(k) \notin Kinds /\ k \in Stages
       /\ Reading(k) # "done"
       /\ k \in ToRead(k) /\ ToRead(Reading(k)) = ToRead(k) \ {k}
  /\ \A j, k \in Kinds : Reading(j) = Reading(k) => j = k
  /\ ToRead("done") = {} /\ ToRead("swap") = Kinds
  /\ \A s \in Stages : ToRead(s) \subseteq Kinds
BY DEF Kinds, Reading, Stages, ToRead

(* After a failed request and after an answer comes the next list.         *)
LEMMA NextListFacts ==
  ASSUME NEW fill \in Fill
  PROVE  /\ NextList(fill) \in Fill
         /\ NextList(fill).stage \notin {Reading(k) : k \in Kinds}
         /\ fill.stage \in Kinds => ToRead(NextList(fill).stage) = ToRead(fill.stage) \ {fill.stage}
         /\ \A k \in Kinds : fill.stage = Reading(k) =>
              ToRead(NextList(fill).stage) = ToRead(fill.stage)
<1> DEFINE stage == CASE fill.stage \in {"swap", Reading("swap")} -> "liquidity"
                      [] fill.stage \in {"liquidity", Reading("liquidity")} -> "pool"
                      [] OTHER -> "done"
<1>1. NextList(fill) = [since |-> IF stage = "done" THEN 0 ELSE fill.since,
                        stage |-> stage, rows |-> {}]
  BY DEF NextList
<1>2. Reading("swap") = "swap read" /\ Reading("liquidity") = "liquidity read"
      /\ Reading("pool") = "pool read"
  BY DEF Reading
<1>3. fill.since \in 0..Latest /\ fill.stage \in Stages
  BY DEF Fill
<1>4. \/ fill.stage \in {"swap", "swap read"} /\ stage = "liquidity"
      \/ fill.stage \in {"liquidity", "liquidity read"} /\ stage = "pool"
      \/ fill.stage \notin {"swap", "swap read", "liquidity", "liquidity read"} /\ stage = "done"
  BY <1>2
<1> HIDE DEF stage
<1>5. NextList(fill).stage = stage /\ NextList(fill) \in Fill
  <2>1. 0 \in 0..Latest
    BY LogTypes
  <2>2. stage \in Stages
    BY <1>4 DEF Stages
  <2> QED BY <1>1, <1>3, <2>1, <2>2 DEF Fill
<1>6. stage \notin {Reading(k) : k \in Kinds}
  BY <1>2, <1>4 DEF Kinds
<1>7. fill.stage \in Kinds => ToRead(stage) = ToRead(fill.stage) \ {fill.stage}
  BY <1>4 DEF Kinds, ToRead
<1>8. ASSUME NEW k \in Kinds, fill.stage = Reading(k) PROVE ToRead(stage) = ToRead(fill.stage)
  BY <1>2, <1>4, <1>8 DEF Kinds, ToRead
<1> QED BY <1>5, <1>6, <1>7, <1>8

-----------------------------------------------------------------------------
(* What becomes of the rows that are accounted for.                        *)

LEMMA FillsFacts ==
  ASSUME BusType
  PROVE  /\ fills \in Seq(Fill) /\ Len(fills) \in Nat /\ DOMAIN fills = 1..Len(fills)
         /\ \A i \in DOMAIN fills : /\ fills[i] \in Fill /\ fills[i].stage \in Stages
                                   /\ fills[i].since \in 0..Latest
                                   /\ fills[i].rows \subseteq Frames
         /\ fills # <<>> => Len(fills) \in DOMAIN fills
<1>1. fills \in Seq(Fill)
  BY DEF BusType
<1>2. Len(fills) \in Nat /\ DOMAIN fills = 1..Len(fills)
  BY <1>1, LenProperties
<1>3. \A i \in DOMAIN fills : fills[i] \in Fill
  BY <1>1, <1>2, ElementOfSeq
<1>4. \A x \in Fill : x.stage \in Stages /\ x.since \in 0..Latest /\ x.rows \subseteq Frames
  BY DEF Fill
<1>5. fills # <<>> => Len(fills) \in DOMAIN fills
  BY <1>1, <1>2, EmptySeq
<1> QED BY <1>1, <1>2, <1>3, <1>4, <1>5

(* One gap fill moves, the others do not.                                  *)
Moved(i, fill) ==
  /\ fills' \in Seq(Fill) /\ Len(fills') = Len(fills) /\ DOMAIN fills' = DOMAIN fills
  /\ fills'[i] = fill
  /\ \A j \in DOMAIN fills : j # i => fills'[j] = fills[j]

LEMMA FillMoved ==
  ASSUME BusType, NEW i \in DOMAIN fills, NEW fill \in Fill,
         fills' = [fills EXCEPT ![i] = fill]
  PROVE  Moved(i, fill)
<1>1. fills \in Seq(Fill) /\ DOMAIN fills = 1..Len(fills) /\ Len(fills) \in Nat
  BY FillsFacts
<1>2. fills' \in Seq(Fill) /\ Len(fills') = Len(fills)
  BY <1>1, ExceptSeq
<1>3. DOMAIN fills' = DOMAIN fills
  BY <1>1
<1>4. fills'[i] = fill /\ \A j \in DOMAIN fills : j # i => fills'[j] = fills[j]
  BY <1>1
<1> QED BY <1>2, <1>3, <1>4 DEF Moved

Holds(i, s, rows) == fills' = [fills EXCEPT ![i].stage = s, ![i].rows = rows]

LEMMA FillRead ==
  ASSUME BusType, NEW i \in DOMAIN fills, NEW s \in Stages, NEW rows \in SUBSET Frames,
         Holds(i, s, rows)
  PROVE  \E fill \in Fill : Moved(i, fill) /\ fill.stage = s /\ fill.rows = rows
<1> DEFINE fill == [fills[i] EXCEPT !.stage = s, !.rows = rows]
<1>1. fills[i] \in Fill
  BY FillsFacts
<1>2. fill \in Fill /\ fill.stage = s /\ fill.rows = rows
  BY <1>1 DEF Fill
<1>3. fills' = [fills EXCEPT ![i] = fill]
  BY DEF Holds
<1> HIDE DEF fill
<1> QED BY <1>2, <1>3, FillMoved

(* Nothing is lost as long as gap fills stay, and what is delivered or     *)
(* excused stays so.                                                       *)
LEMMA StillCovered ==
  ASSUME NEW f, Covered(f), fills' = fills, delivered \subseteq delivered',
         excused \subseteq excused'
  PROVE  Covered(f)'
BY DEF Covered, Awaited

(* A request answered, well or badly: the rows of its list that were       *)
(* committed are in the answer or excused.                                 *)
LEMMA ReadCovers ==
  ASSUME BusType, NEW i \in DOMAIN fills, fills[i].stage \in Kinds,
         NEW fill \in Fill, Moved(i, fill),
         ToRead(fill.stage) = ToRead(fills[i].stage) \ {fills[i].stage},
         delivered' = delivered, excused \subseteq excused',
         NEW f \in Wanted,
         \/ Log[f].kind = fills[i].stage /\ (f \in delivered \/ f \in excused')
         \/ /\ Log[f].kind = fills[i].stage
            /\ fill.stage = Reading(fills[i].stage) /\ f \in fill.rows
         \/ Log[f].kind # fills[i].stage /\ Covered(f)
  PROVE  Covered(f)'
<1>1. /\ DOMAIN fills' = DOMAIN fills /\ fills'[i] = fill
      /\ \A j \in DOMAIN fills : j # i => fills'[j] = fills[j]
  BY DEF Moved
<1>2. CASE Log[f].kind = fills[i].stage /\ (f \in delivered \/ f \in excused')
  BY <1>2 DEF Covered
<1>3. CASE /\ Log[f].kind = fills[i].stage
           /\ fill.stage = Reading(fills[i].stage) /\ f \in fill.rows
  BY <1>1, <1>3 DEF Covered, Awaited
<1>4. CASE Log[f].kind # fills[i].stage /\ Covered(f)
  <2>1. CASE f \in delivered \/ f \in excused
    BY <2>1 DEF Covered
  <2>2. CASE Awaited(f)
    <3>1. PICK j \in DOMAIN fills :
            \/ Log[f].kind \in ToRead(fills[j].stage)
            \/ fills[j].stage = Reading(Log[f].kind) /\ f \in fills[j].rows
      BY <2>2 DEF Awaited
    <3>2. CASE j # i
      BY <1>1, <3>1, <3>2 DEF Covered, Awaited
    <3>3. CASE j = i
      <4>1. Log[f].kind \in Kinds /\ Reading(Log[f].kind) \notin Kinds
        BY StageFacts DEF Wanted
      <4>2. Log[f].kind \in ToRead(fill.stage)
        BY <1>4, <3>1, <3>3, <4>1
      <4> QED BY <1>1, <4>2 DEF Covered, Awaited
    <3> QED BY <3>2, <3>3
  <2> QED BY <1>4, <2>1, <2>2 DEF Covered
<1> QED BY <1>2, <1>3, <1>4

(* An answer dispatched: its rows are delivered.                           *)
LEMMA DispatchCovers ==
  ASSUME BusType, SeenDelivered, ~closed, NEW i, dispatch(i), NEW f \in Wanted, Covered(f)
  PROVE  Covered(f)'
<1>1. /\ i \in DOMAIN fills /\ fills[i].stage \in {Reading(k) : k \in Kinds}
      /\ delivered' = delivered \cup (fills[i].rows \ seenPoolIds)
      /\ fills' = [fills EXCEPT ![i] = NextList(fills[i])]
      /\ excused' = excused \ {g \in fills[i].rows : Log[g].kind = "pool"}
  BY DEF dispatch, handleFrames
<1>2. PICK k \in Kinds : fills[i].stage = Reading(k)
  BY <1>1
<1>3. fills[i] \in Fill
  BY <1>1, FillsFacts
<1>4. /\ NextList(fills[i]) \in Fill
      /\ ToRead(NextList(fills[i]).stage) = ToRead(fills[i].stage)
  BY <1>2, <1>3, NextListFacts
<1>5. Moved(i, NextList(fills[i]))
  BY <1>1, <1>4, FillMoved
<1>6. f \in fills[i].rows => f \in delivered'
  BY <1>1 DEF SeenDelivered
<1>7. CASE f \in delivered
  BY <1>1, <1>7 DEF Covered
<1>8. CASE f \in excused
  BY <1>1, <1>6, <1>8 DEF Covered
<1>9. CASE Awaited(f)
  <2>1. PICK j \in DOMAIN fills :
          \/ Log[f].kind \in ToRead(fills[j].stage)
          \/ fills[j].stage = Reading(Log[f].kind) /\ f \in fills[j].rows
    BY <1>9 DEF Awaited
  <2>2. CASE j # i
    BY <1>5, <2>1, <2>2 DEF Covered, Awaited, Moved
  <2>3. CASE j = i /\ Log[f].kind \in ToRead(fills[j].stage)
    BY <1>1, <1>4, <1>5, <2>3 DEF Covered, Awaited, Moved
  <2>4. CASE j = i /\ f \in fills[j].rows
    BY <1>6, <2>4 DEF Covered
  <2> QED BY <2>1, <2>2, <2>3, <2>4
<1> QED BY <1>7, <1>8, <1>9 DEF Covered

(* What a list leaves out is excused.                                      *)
LEMMA AnswerCovers ==
  ASSUME BusType, NEW k \in Kinds, NEW since \in Nat, NEW rows \in Answers(k, since),
         NEW f \in Rows(k, committed), f \notin rows
  PROVE  Log[f].at <= since \/ Cardinality(rows) = GAP_FILL_LIMIT
<1>1. f \in Frames /\ Log[f].at \in Nat
  BY LogTypes DEF Rows
<1>2. CASE k = "pool"
  BY <1>2 DEF Answers, list_pools
<1>3. CASE k # "pool"
  <2> DEFINE S == {g \in Rows(k, committed) : Log[g].at > since}
  <2>1. rows = S \/ Cardinality(rows) = GAP_FILL_LIMIT
    BY <1>3 DEF Answers, list_swaps_or_liquidity, Limited
  <2>2. ~(Log[f].at <= since) => f \in S
    BY <1>1
  <2> QED BY <2>1, <2>2
<1> QED BY <1>2, <1>3

LEMMA AnswerIsRows ==
  ASSUME NEW k, NEW since, NEW rows \in Answers(k, since)
  PROVE  rows \subseteq Frames
BY DEF Answers, list_pools, list_swaps_or_liquidity, Limited, Rows

-----------------------------------------------------------------------------
(* Requests.                                                               *)

LEMMA ExcuseFacts ==
  ASSUME BusType, NEW frames \in SUBSET Frames, Excuse(frames)
  PROVE  /\ excused \subseteq excused' /\ excused' \subseteq Frames
         /\ \A f \in frames : f \in Wanted => f \in delivered \/ f \in excused'
BY DEF Excuse, BusType, Wanted

(* What fetch and FetchFails have in common.                               *)
Asked(i) ==
  /\ i \in DOMAIN fills /\ fills[i].stage \in Kinds
  /\ \E fill \in Fill : /\ Moved(i, fill)
                        /\ ToRead(fill.stage) = ToRead(fills[i].stage) \ {fills[i].stage}
  /\ excused' \subseteq Frames
  /\ \A f \in Wanted : Log[f].block <= committed /\ (Covered(f) \/ Log[f].kind = fills[i].stage)
                       => Covered(f)'
  /\ ReadEarly(i, fills[i].stage)
  /\ UNCHANGED <<server, wire, conn, closed, hasEverConnected, lastSeenAt, seenPoolIds,
                 delivered, first>>

LEMMA FetchAsks ==
  ASSUME BusType, NEW i, fetch(i)
  PROVE  Asked(i)
<1> DEFINE k == fills[i].stage
<1>1. /\ i \in DOMAIN fills /\ k \in Kinds /\ ReadEarly(i, k)
      /\ UNCHANGED <<server, wire, conn, closed, hasEverConnected, lastSeenAt, seenPoolIds,
                     delivered, first>>
  BY DEF fetch, Pending
<1>2. PICK rows \in Answers(k, fills[i].since) :
        /\ fills' = [fills EXCEPT ![i].stage = Reading(k), ![i].rows = rows]
        /\ Excuse({f \in Rows(k, committed) \ rows :
             Log[f].at <= fills[i].since \/ Cardinality(rows) = GAP_FILL_LIMIT})
  BY DEF fetch, Since
<1>3. rows \subseteq Frames
  BY AnswerIsRows
<1>4. PICK fill \in Fill : Moved(i, fill) /\ fill.stage = Reading(k) /\ fill.rows = rows
  <2>1. PICK s \in Stages : s = Reading(k)
    BY <1>1, StageFacts
  <2>2. Holds(i, s, rows) /\ rows \in SUBSET Frames
    BY <1>2, <1>3, <2>1 DEF Holds
  <2> HIDE DEF k
  <2>3. \E fill \in Fill : Moved(i, fill) /\ fill.stage = s /\ fill.rows = rows
    BY <1>1, <2>2, FillRead
  <2> QED BY <2>1, <2>3
<1>5. ToRead(fill.stage) = ToRead(k) \ {k}
  BY <1>1, <1>4, StageFacts
<1> DEFINE left == {f \in Rows(k, committed) \ rows :
             Log[f].at <= fills[i].since \/ Cardinality(rows) = GAP_FILL_LIMIT}
<1>6. left \in SUBSET Frames
  BY DEF Rows
<1>7. /\ excused \subseteq excused' /\ excused' \subseteq Frames
      /\ \A f \in left : f \in Wanted => f \in delivered \/ f \in excused'
  <2> HIDE DEF left
  <2> QED BY <1>2, <1>6, ExcuseFacts DEF left
<1>8. fills[i].since \in Nat
  BY <1>1, FillsFacts, LogTypes
<1>9. ASSUME NEW f \in Wanted, Log[f].block <= committed, Covered(f) \/ Log[f].kind = k
      PROVE  Covered(f)'
  <2>1. CASE Log[f].kind = k /\ f \in rows
    BY <1>1, <1>4, <1>5, <1>7, <2>1, ReadCovers
  <2>2. CASE Log[f].kind = k /\ f \notin rows
    <3>1. f \in Rows(k, committed)
      BY <1>9, <2>2 DEF Rows, Wanted
    <3>2. Log[f].at <= fills[i].since \/ Cardinality(rows) = GAP_FILL_LIMIT
      BY <1>1, <1>8, <2>2, <3>1, AnswerCovers
    <3>3. f \in left
      BY <2>2, <3>1, <3>2
    <3>4. f \in delivered \/ f \in excused'
      BY <1>7, <3>3
    <3> QED BY <1>1, <1>4, <1>5, <1>7, <2>2, <3>4, ReadCovers
  <2>3. CASE Log[f].kind # k
    BY <1>1, <1>4, <1>5, <1>7, <1>9, <2>3, ReadCovers
  <2> QED BY <2>1, <2>2, <2>3
<1> QED BY <1>1, <1>4, <1>5, <1>7, <1>9 DEF Asked

LEMMA FailureAsks ==
  ASSUME BusType, NEW i, FetchFails(i)
  PROVE  Asked(i)
<1> DEFINE k == fills[i].stage
<1>1. /\ i \in DOMAIN fills /\ k \in Kinds /\ ReadEarly(i, k)
      /\ fills' = [fills EXCEPT ![i] = NextList(fills[i])]
      /\ Excuse(Rows(k, committed))
      /\ UNCHANGED <<server, wire, conn, closed, hasEverConnected, lastSeenAt, seenPoolIds,
                     delivered, first>>
  BY DEF FetchFails, Pending
<1>2. fills[i] \in Fill
  BY <1>1, FillsFacts
<1>3. /\ NextList(fills[i]) \in Fill
      /\ ToRead(NextList(fills[i]).stage) = ToRead(k) \ {k}
  BY <1>1, <1>2, NextListFacts
<1>4. Moved(i, NextList(fills[i]))
  BY <1>1, <1>3, FillMoved
<1>5. /\ excused \subseteq excused' /\ excused' \subseteq Frames
      /\ \A f \in Rows(k, committed) : f \in Wanted => f \in delivered \/ f \in excused'
  <2>1. Rows(k, committed) \in SUBSET Frames
    BY DEF Rows
  <2> QED BY <1>1, <2>1, ExcuseFacts
<1>6. ASSUME NEW f \in Wanted, Log[f].block <= committed, Covered(f) \/ Log[f].kind = k
      PROVE  Covered(f)'
  <2>1. CASE Log[f].kind = k
    <3>1. f \in Rows(k, committed)
      BY <1>6, <2>1 DEF Rows, Wanted
    <3> QED BY <1>1, <1>3, <1>4, <1>5, <2>1, <3>1, ReadCovers
  <2>2. CASE Log[f].kind # k
    BY <1>1, <1>3, <1>4, <1>5, <1>6, <2>2, ReadCovers
  <2> QED BY <2>1, <2>2
<1> QED BY <1>1, <1>3, <1>4, <1>5, <1>6 DEF Asked

LEMMA AskedStep ==
  ASSUME BusInv, NEW i, Asked(i)
  PROVE  BusInv'
<1> DEFINE k0 == fills[i].stage
<1>1. /\ committed' = committed /\ sent' = sent /\ session' = session /\ pos' = pos
      /\ wire' = wire /\ conn' = conn /\ closed' = closed /\ first' = first
      /\ hasEverConnected' = hasEverConnected /\ lastSeenAt' = lastSeenAt
      /\ seenPoolIds' = seenPoolIds /\ delivered' = delivered
      /\ i \in DOMAIN fills /\ k0 \in Kinds /\ excused' \subseteq Frames
  BY DEF Asked, server
<1>2. PICK fill \in Fill : Moved(i, fill) /\ ToRead(fill.stage) = ToRead(k0) \ {k0}
  BY DEF Asked
<1>3. \A f \in Wanted : Log[f].block <= committed /\ (Covered(f) \/ Log[f].kind = k0)
                       => Covered(f)'
  BY DEF Asked
<1>4. early' = IF session = "upgraded" /\ conn = "open" /\ i = Len(fills)
               THEN [early EXCEPT ![k0] = committed] ELSE early
  BY DEF Asked, ReadEarly
<1> HIDE DEF k0
<1>5. BusType
  BY DEF BusInv
<1>6. BusType'
  <2>1. early' \in [Kinds -> 0..Blocks]
    BY <1>4, <1>5 DEF BusType
  <2>2. Last(committed)' = Last(committed)
    BY <1>1 DEF Last
  <2> QED BY <1>1, <1>2, <1>5, <2>1, <2>2 DEF BusType, Moved
<1>7. Connection' /\ SeenDelivered'
  BY <1>1 DEF BusInv, Connection, SeenDelivered, Connected
<1>8. Streamed'
  <2>1. SUFFICES ASSUME ~closed, conn = "open", session = "subscribed", NEW f \in Wanted,
                        first < f, f <= sent
                 PROVE  Covered(f)' \/ OnWire(f)' \/ pos <= f
    BY <1>1 DEF Streamed
  <2>2. Log[f].block <= committed
    BY <1>5, <2>1, SentIsCommitted DEF Wanted
  <2>3. Covered(f) \/ OnWire(f) \/ pos <= f
    BY <2>1 DEF BusInv, Streamed
  <2>4. OnWire(f)' <=> OnWire(f)
    BY <1>1 DEF OnWire
  <2> QED BY <1>3, <2>2, <2>3, <2>4
<1>9. ReadInTime'
  <2>1. SUFFICES ASSUME ~closed, conn = "open", session = "upgraded", first < Len(Log),
                        NEW k \in Kinds
                 PROVE  \/ fills' # <<>> /\ k \in ToRead(fills'[Len(fills')].stage)
                        \/ early'[k] <= committed /\ \A f \in Rows(k, early'[k]) : Covered(f)'
    BY <1>1 DEF ReadInTime, Rows
  <2>2. \/ fills # <<>> /\ k \in ToRead(fills[Len(fills)].stage)
        \/ early[k] <= committed /\ \A f \in Rows(k, early[k]) : Covered(f)
    BY <2>1 DEF BusInv, ReadInTime
  <2>3. /\ fills \in Seq(Fill) /\ fills' \in Seq(Fill) /\ Len(fills') = Len(fills)
        /\ fills'[i] = fill /\ \A j \in DOMAIN fills : j # i => fills'[j] = fills[j]
        /\ fills # <<>> => Len(fills) \in DOMAIN fills /\ fills' # <<>>
    <3>1. fills # <<>> => Len(fills) \in DOMAIN fills
      BY <1>5, FillsFacts
    <3>2. fills' # <<>>
      <4>1. DOMAIN fills' = DOMAIN fills
        BY <1>2 DEF Moved
      <4>2. DOMAIN <<>> = {}
        OBVIOUS
      <4> QED BY <1>1, <4>1, <4>2
    <3> QED BY <1>2, <1>5, <3>1, <3>2 DEF Moved, BusType
  <2>4. committed \in Nat /\ early \in [Kinds -> Nat]
    BY <1>5, LogTypes DEF BusType
  <2>5. CASE i = Len(fills) /\ k = k0
    <3>1. early'[k] = committed
      BY <1>4, <2>1, <2>4, <2>5
    <3>2. \A f \in Rows(k, committed) : f \in Wanted /\ Log[f].block <= committed /\ Log[f].kind = k0
      BY <2>5 DEF Rows, Wanted
    <3> QED BY <1>3, <2>4, <3>1, <3>2
  <2>6. CASE ~(i = Len(fills) /\ k = k0)
    <3>1. early'[k] = early[k]
      BY <1>4, <2>4, <2>6
    <3>2. CASE fills # <<>> /\ k \in ToRead(fills[Len(fills)].stage)
      <4>1. CASE i = Len(fills)
        <5>1. fills'[Len(fills')] = fill /\ k # k0
          BY <2>3, <2>6, <4>1
        <5>2. ToRead(fills[Len(fills)].stage) = ToRead(k0)
          BY <4>1 DEF k0
        <5> QED BY <1>2, <2>3, <3>2, <5>1, <5>2
      <4>2. CASE i # Len(fills)
        BY <2>3, <3>2, <4>2
      <4> QED BY <4>1, <4>2
    <3>3. CASE early[k] <= committed /\ \A f \in Rows(k, early[k]) : Covered(f)
      <4>1. \A f \in Rows(k, early[k]) : f \in Wanted /\ Log[f].block <= committed
        <5>1. TAKE f \in Rows(k, early[k])
        <5>2. f \in Frames /\ f \in Wanted /\ Log[f].block <= early[k]
          BY DEF Rows, Wanted
        <5>3. Log[f].block \in Nat /\ early[k] \in Nat
          BY <2>4, <5>2, LogTypes
        <5> QED BY <2>4, <3>3, <5>2, <5>3
      <4> QED BY <1>3, <3>1, <3>3, <4>1
    <3> QED BY <2>2, <3>2, <3>3
  <2> QED BY <2>5, <2>6
<1> QED BY <1>6, <1>7, <1>8, <1>9 DEF BusInv

-----------------------------------------------------------------------------
(* The steps of the server.                                                *)

LEMMA CommitStep ==
  ASSUME BusInv, Commit
  PROVE  BusInv'
<1>1. /\ committed < Blocks /\ committed' = committed + 1
      /\ UNCHANGED <<sent, session, pos, wire, client, delivered, history, faults>>
  BY DEF Commit
<1>2. BusType /\ committed \in Nat /\ committed' \in 0..Blocks
  BY <1>1, LogTypes DEF BusInv, BusType
<1>3. sent' \in 0..Last(committed)'
  <2>1. sent \in 0..Last(committed) /\ Last(committed) \in Nat
    BY <1>2, LastFacts, LogTypes DEF BusType
  <2>2. Last(committed) <= Last(committed + 1) /\ Last(committed + 1) \in Nat
    <3>1. committed + 1 \in Nat
      BY <1>2
    <3>2. Last(committed + 1) \in 0..Len(Log) /\ Last(committed) <= Last(committed + 1)
      BY <1>2, <3>1, LastMono, LastFacts
    <3> QED BY <3>2, LogTypes
  <2>3. Last(committed)' = Last(committed + 1)
    BY <1>1 DEF Last
  <2> QED BY <1>1, <2>1, <2>2, <2>3
<1>4. BusType'
  BY <1>1, <1>2, <1>3 DEF BusType, client, history
<1>5. Connection' /\ SeenDelivered'
  BY <1>1 DEF BusInv, Connection, SeenDelivered, Connected, client, history
<1>6. \A f : Covered(f)' <=> Covered(f)
  BY <1>1 DEF Covered, Awaited, client, history
<1>7. Streamed'
  BY <1>1, <1>6 DEF BusInv, Streamed, OnWire, client, history
<1>8. ReadInTime'
  <2>1. SUFFICES ASSUME ~closed, conn = "open", session = "upgraded", first < Len(Log),
                        NEW k \in Kinds
                 PROVE  \/ fills # <<>> /\ k \in ToRead(fills[Len(fills)].stage)
                        \/ early[k] <= committed' /\ \A f \in Rows(k, early[k]) : Covered(f)
    BY <1>1, <1>6 DEF ReadInTime, Rows, client, history
  <2>2. early[k] \in Nat
    BY <1>2, LogTypes DEF BusType
  <2> QED BY <1>1, <1>2, <2>1, <2>2 DEF BusInv, ReadInTime
<1> QED BY <1>4, <1>5, <1>7, <1>8 DEF BusInv

LEMMA PublishStep ==
  ASSUME BusInv, publish
  PROVE  BusInv'
<1>1. /\ sent < Last(committed) /\ sent' = sent + 1
      /\ UNCHANGED <<committed, session, pos, wire, client, delivered, history, faults>>
  BY DEF publish
<1>2. BusType /\ sent \in Nat /\ Last(committed) \in Nat
  <2>1. BusType
    BY DEF BusInv
  <2> QED BY <2>1, SentIsCommitted, LogTypes
<1>3. BusType'
  <2>1. sent' \in 0..Last(committed)'
    <3>1. Last(committed)' = Last(committed)
      BY <1>1 DEF Last
    <3> QED BY <1>1, <1>2, <3>1
  <2> QED BY <1>1, <1>2, <2>1 DEF BusType, client, history
<1>4. Connection' /\ SeenDelivered'
  BY <1>1, <1>2 DEF BusInv, Connection, SeenDelivered, Connected, client, history
<1>5. \A f : Covered(f)' <=> Covered(f)
  BY <1>1 DEF Covered, Awaited, client, history
<1>6. Streamed'
  <2>1. SUFFICES ASSUME ~closed, conn = "open", session = "subscribed", NEW f \in Wanted,
                        first < f, f <= sent + 1
                 PROVE  Covered(f) \/ OnWire(f) \/ pos <= f
    BY <1>1, <1>5 DEF Streamed, OnWire, client, history
  <2>2. f \in Nat /\ pos \in 1..(sent + 1)
    BY <2>1, LogTypes DEF Wanted, BusInv, Connection
  <2>3. CASE f <= sent
    BY <2>1, <2>3 DEF BusInv, Streamed
  <2>4. CASE f = sent + 1
    BY <1>2, <2>2, <2>4
  <2> QED BY <1>2, <2>1, <2>2, <2>3, <2>4
<1>7. ReadInTime'
  BY <1>1, <1>5 DEF BusInv, ReadInTime, Rows, client, history
<1> QED BY <1>3, <1>4, <1>6, <1>7 DEF BusInv

(* The first subscription makes nothing expected; a later one excuses what *)
(* was published since the lists were read.                                *)
LEMMA FirstFacts ==
  ASSUME BusType
  PROVE  /\ FirstNow \in 0..Len(Log)
         /\ FirstNow < sent => FirstNow = first
         /\ FirstNow < Len(Log) => first < Len(Log) \/ FirstNow = sent
<1>1. sent \in Nat /\ sent <= Len(Log) /\ first \in 0..Len(Log) /\ Len(Log) \in Nat
  BY SentIsCommitted, LogTypes DEF BusType
<1> QED BY <1>1 DEF FirstNow

LEMMA SubscribeStep ==
  ASSUME BusInv, subscribe
  PROVE  BusInv'
<1> DEFINE late == {f \in 1..sent : Log[f].kind \in Kinds /\ Log[f].block > early[Log[f].kind]}
<1>1. /\ session = "upgraded" /\ session' = "subscribed" /\ pos' = sent + 1
      /\ first' = IF conn = "open" THEN FirstNow ELSE first
      /\ Excuse(late) /\ early' = Never
      /\ UNCHANGED <<committed, sent, wire, client, delivered, faults>>
  BY DEF subscribe
<1>2. BusType /\ sent \in Nat /\ sent <= Len(Log) /\ Len(Log) \in Nat
  <2>1. BusType
    BY DEF BusInv
  <2> QED BY <2>1, SentIsCommitted, LogTypes
<1>3. /\ excused \subseteq excused' /\ excused' \subseteq Frames
      /\ \A f \in late : f \in Wanted => f \in delivered \/ f \in excused'
  <2>1. late \in SUBSET Frames
    BY <1>2 DEF Frames
  <2> HIDE DEF late
  <2> QED BY <1>1, <1>2, <2>1, ExcuseFacts
<1>4. BusType'
  <2>1. Never \in [Kinds -> 0..Blocks]
    BY LogTypes DEF Never
  <2>2. first' \in 0..Len(Log)
    BY <1>1, <1>2, FirstFacts DEF BusType
  <2>3. Last(committed)' = Last(committed)
    BY <1>1 DEF Last
  <2> QED BY <1>1, <1>2, <1>3, <2>1, <2>2, <2>3 DEF BusType, client
<1>5. Connection' /\ SeenDelivered'
  <2>1. /\ conn' = conn /\ hasEverConnected' = hasEverConnected /\ seenPoolIds' = seenPoolIds
        /\ closed' = closed /\ sent' = sent /\ delivered' = delivered
    BY <1>1 DEF client
  <2>2. pos' \in 1..(sent' + 1)
    BY <1>1, <1>2, <2>1
  <2>3. first' < Len(Log) => hasEverConnected
    BY <1>1 DEF BusInv, Connection
  <2>4. conn = "open" => hasEverConnected
    BY DEF BusInv, Connection
  <2> QED BY <1>1, <2>1, <2>2, <2>3, <2>4 DEF BusInv, Connection, SeenDelivered, Connected
<1>6. \A f : Covered(f) => Covered(f)'
  <2>1. TAKE f
  <2> QED BY <1>1, <1>3, StillCovered DEF client
<1>7. Streamed'
  <2>1. SUFFICES ASSUME ~closed, conn = "open", NEW f \in Wanted, first' < f, f <= sent
                 PROVE  Covered(f)'
    BY <1>1 DEF Streamed, client
  <2>2. f \in Nat \ {0} /\ f \in Frames /\ f <= Len(Log) /\ Log[f].kind \in Kinds
        /\ Log[f].block \in Nat
    BY LogTypes DEF Wanted
  <2>3. first < Len(Log)
    <3>1. FirstNow < sent /\ FirstNow \in 0..Len(Log)
      BY <1>1, <1>2, <2>1, <2>2, FirstFacts
    <3>2. FirstNow = first
      BY <1>2, <3>1, FirstFacts
    <3> QED BY <1>2, <3>1, <3>2
  <2>4. \/ fills # <<>> /\ Log[f].kind \in ToRead(fills[Len(fills)].stage)
        \/ /\ early[Log[f].kind] <= committed
           /\ \A g \in Rows(Log[f].kind, early[Log[f].kind]) : Covered(g)
    BY <1>1, <2>1, <2>2, <2>3 DEF BusInv, ReadInTime
  <2>5. CASE fills # <<>> /\ Log[f].kind \in ToRead(fills[Len(fills)].stage)
    <3>1. Len(fills) \in DOMAIN fills
      BY <1>2, <2>5, FillsFacts
    <3>2. Covered(f)
      BY <2>5, <3>1 DEF Covered, Awaited
    <3> QED BY <1>6, <3>2
  <2>6. CASE \A g \in Rows(Log[f].kind, early[Log[f].kind]) : Covered(g)
    <3>1. early[Log[f].kind] \in Nat
      BY <1>2, <2>2, LogTypes DEF BusType
    <3>2. CASE Log[f].block <= early[Log[f].kind]
      <4>1. f \in Rows(Log[f].kind, early[Log[f].kind])
        BY <2>2, <3>2 DEF Rows
      <4> QED BY <1>6, <2>6, <4>1
    <3>3. CASE Log[f].block > early[Log[f].kind]
      <4>1. f \in late
        BY <1>2, <2>1, <2>2, <3>3
      <4>2. f \in delivered \/ f \in excused'
        BY <1>3, <4>1
      <4> QED BY <1>1, <4>2 DEF Covered
    <3> QED BY <2>2, <3>1, <3>2, <3>3
  <2> QED BY <2>4, <2>5, <2>6
<1>8. ReadInTime'
  BY <1>1 DEF ReadInTime
<1> QED BY <1>4, <1>5, <1>7, <1>8 DEF BusInv

LEMMA ForwardStep ==
  ASSUME BusInv, forward
  PROVE  BusInv'
<1>1. /\ session = "subscribed" /\ pos <= sent
      /\ wire' = Append(wire, pos) /\ pos' = pos + 1
      /\ UNCHANGED <<committed, sent, session, client, delivered, history, faults>>
  BY DEF forward
<1>2. BusType /\ sent \in Nat /\ sent <= Len(Log) /\ Len(Log) \in Nat /\ pos \in 1..(sent + 1)
  <2>1. BusType
    BY DEF BusInv
  <2> QED BY <1>1, <2>1, SentIsCommitted, LogTypes DEF BusInv, Connection
<1>3. pos \in Frames
  BY <1>1, <1>2 DEF Frames
<1>4. /\ wire \in Seq(Frames) /\ Len(wire) \in Nat
      /\ wire' \in Seq(Frames) /\ Len(wire') = Len(wire) + 1
      /\ (\A j \in 1..Len(wire) : wire'[j] = wire[j]) /\ wire'[Len(wire) + 1] = pos
  <2>1. wire \in Seq(Frames)
    BY <1>2 DEF BusType
  <2> QED BY <1>1, <1>3, <2>1, AppendProperties, LenProperties
<1>5. BusType'
  <2>1. Last(committed)' = Last(committed)
    BY <1>1 DEF Last
  <2> QED BY <1>1, <1>2, <1>4, <2>1 DEF BusType, client, history
<1>6. Connection' /\ SeenDelivered'
  BY <1>1, <1>2 DEF BusInv, Connection, SeenDelivered, Connected, client, history
<1>7. \A f : Covered(f)' <=> Covered(f)
  BY <1>1 DEF Covered, Awaited, client, history
<1>8. Streamed'
  <2>1. SUFFICES ASSUME ~closed, conn = "open", NEW f \in Wanted, first < f, f <= sent
                 PROVE  Covered(f) \/ OnWire(f)' \/ pos + 1 <= f
    BY <1>1, <1>7 DEF Streamed, client, history
  <2>2. Covered(f) \/ OnWire(f) \/ pos <= f
    BY <1>1, <2>1 DEF BusInv, Streamed
  <2>3. OnWire(f) => OnWire(f)'
    BY <1>4 DEF OnWire
  <2>4. f = pos => OnWire(f)'
    BY <1>4 DEF OnWire
  <2>5. f \in Nat
    BY LogTypes DEF Wanted
  <2> QED BY <1>2, <2>2, <2>3, <2>4, <2>5
<1>9. ReadInTime'
  BY <1>1 DEF ReadInTime
<1> QED BY <1>5, <1>6, <1>8, <1>9 DEF BusInv

LEMMA LaggedStep ==
  ASSUME BusInv, lagged
  PROVE  BusInv'
<1>1. /\ session = "subscribed" /\ sent - pos >= BROADCAST_CAPACITY
      /\ pos' = sent - BROADCAST_CAPACITY + 1
      /\ Excuse(pos..(pos' - 1))
      /\ UNCHANGED <<committed, sent, session, wire, client, delivered, first, early, faults>>
  BY DEF lagged, Behind
<1>2. /\ BusType /\ sent \in Nat /\ sent <= Len(Log) /\ Len(Log) \in Nat
      /\ pos \in 1..(sent + 1) /\ BROADCAST_CAPACITY \in Nat \ {0}
  <2>1. BusType
    BY DEF BusInv
  <2> QED BY <1>1, <2>1, SentIsCommitted, LogTypes, BusAssumption DEF BusInv, Connection
<1>3. pos' \in 1..(sent + 1)
  BY <1>1, <1>2
<1>4. /\ excused \subseteq excused' /\ excused' \subseteq Frames
      /\ \A f \in pos..(pos' - 1) : f \in Wanted => f \in delivered \/ f \in excused'
  <2>1. pos..(pos' - 1) \in SUBSET Frames
    <3>1. \A p, q, n, m \in Nat : q <= n + 1 /\ n <= m /\ p >= 1 => p..(q - 1) \subseteq 1..m
      OBVIOUS
    <3>2. pos \in Nat /\ pos >= 1 /\ pos' \in Nat /\ pos' <= sent + 1
      BY <1>2, <1>3
    <3> QED BY <1>2, <3>1, <3>2 DEF Frames
  <2> QED BY <1>1, <1>2, <2>1, ExcuseFacts
<1>5. BusType'
  <2>1. Last(committed)' = Last(committed)
    BY <1>1 DEF Last
  <2> QED BY <1>1, <1>2, <1>3, <1>4, <2>1 DEF BusType, client
<1>6. Connection' /\ SeenDelivered'
  BY <1>1, <1>3 DEF BusInv, Connection, SeenDelivered, Connected, client
<1>7. \A f : Covered(f) => Covered(f)'
  <2>1. TAKE f
  <2> QED BY <1>1, <1>4, StillCovered DEF client
<1>8. Streamed'
  <2>1. SUFFICES ASSUME ~closed, conn = "open", NEW f \in Wanted, first < f, f <= sent
                 PROVE  Covered(f)' \/ OnWire(f) \/ pos' <= f
    BY <1>1 DEF Streamed, client, OnWire
  <2>2. Covered(f) \/ OnWire(f) \/ pos <= f
    BY <1>1, <2>1 DEF BusInv, Streamed
  <2>3. ASSUME pos <= f, ~(pos' <= f) PROVE Covered(f)'
    <3>1. f \in pos..(pos' - 1)
      <4>1. f \in Nat
        BY LogTypes DEF Wanted
      <4>2. pos \in Nat /\ pos' \in Nat
        BY <1>2, <1>3
      <4>3. \A p, q, g \in Nat : p <= g /\ ~(q <= g) => g \in p..(q - 1)
        OBVIOUS
      <4> QED BY <2>3, <4>1, <4>2, <4>3
    <3> QED BY <1>1, <1>4, <3>1 DEF Covered
  <2> QED BY <1>7, <2>2, <2>3
<1>9. ReadInTime'
  BY <1>1 DEF ReadInTime
<1> QED BY <1>5, <1>6, <1>8, <1>9 DEF BusInv

-----------------------------------------------------------------------------
(* The steps of the client's socket.                                       *)

(* Without an open socket there is nothing to account for.                 *)
LEMMA DownStep ==
  ASSUME BusType', SeenDelivered', first' = first, hasEverConnected' = hasEverConnected,
         BusInv, conn' # "open", session' # "subscribed",
         conn' = "connecting" => session' # "none"
  PROVE  BusInv'
<1>1. Connection'
  BY DEF BusInv, Connection, Connected
<1> QED BY <1>1 DEF BusInv, Streamed, ReadInTime

LEMMA LostType ==
  ASSUME BusType, UNCHANGED committed, sent' \in 0..Last(committed), SocketLost,
         conn' \in {"connecting", "open", "waiting", "gone"}, closed' \in BOOLEAN,
         UNCHANGED <<hasEverConnected, lastSeenAt, seenPoolIds, fills, delivered, first, excused>>
  PROVE  BusType'
<1>1. Never \in [Kinds -> 0..Blocks] /\ <<>> \in Seq(Frames)
  BY LogTypes DEF Never
<1>2. Last(committed)' = Last(committed)
  BY DEF Last
<1> QED BY <1>1, <1>2 DEF BusType, SocketLost

LEMMA CutStep ==
  ASSUME BusInv, Cut
  PROVE  BusInv'
<1>1. /\ SocketLost /\ conn' \in {"waiting", "gone"}
      /\ UNCHANGED <<committed, sent, closed, hasEverConnected, lastSeenAt, seenPoolIds,
                     fills, delivered, first, excused>>
  BY DEF Cut, on_close
<1>2. BusType'
  BY <1>1, LostType DEF BusInv, BusType
<1>3. SeenDelivered'
  BY <1>1 DEF BusInv, SeenDelivered
<1> QED BY <1>1, <1>2, <1>3, DownStep DEF SocketLost

LEMMA ServerCrashStep ==
  ASSUME BusInv, ServerCrash
  PROVE  BusInv'
<1>1. /\ SocketLost /\ sent' = Last(committed)
      /\ conn' \in {"waiting", "gone"}
      /\ UNCHANGED <<committed, closed, hasEverConnected, lastSeenAt, seenPoolIds,
                     fills, delivered, first, excused>>
  BY DEF ServerCrash, on_close, Connected, BusInv, BusType
<1>2. BusType'
  <2>1. BusType
    BY DEF BusInv
  <2>2. Last(committed) \in 0..Last(committed)
    BY <2>1, SentIsCommitted, LogTypes
  <2> QED BY <1>1, <2>1, <2>2, LostType DEF BusType
<1>3. SeenDelivered'
  BY <1>1 DEF BusInv, SeenDelivered
<1> QED BY <1>1, <1>2, <1>3, DownStep DEF SocketLost

LEMMA CloseStep ==
  ASSUME BusInv, close
  PROVE  BusInv'
<1>1. /\ closed' = TRUE
      /\ UNCHANGED <<committed, sent, hasEverConnected, lastSeenAt, seenPoolIds, fills,
                     delivered, first, excused>>
      /\ \/ Connected /\ SocketLost /\ conn' = "gone"
         \/ ~Connected /\ UNCHANGED <<session, wire, pos, early, conn>>
  BY DEF close
<1>2. BusType'
  <2>1. CASE SocketLost /\ conn' = "gone"
    BY <1>1, <2>1, LostType DEF BusInv, BusType
  <2>2. CASE UNCHANGED <<session, wire, pos, early, conn>>
    <3>1. Last(committed)' = Last(committed)
      BY <1>1 DEF Last
    <3> QED BY <1>1, <2>2, <3>1 DEF BusInv, BusType
  <2> QED BY <1>1, <2>1, <2>2
<1>3. SeenDelivered'
  BY <1>1 DEF SeenDelivered
<1>4. Connection'
  BY <1>1 DEF BusInv, Connection, Connected, SocketLost
<1> QED BY <1>1, <1>2, <1>3, <1>4 DEF BusInv, Streamed, ReadInTime

LEMMA ConnectStep ==
  ASSUME BusInv, connect
  PROVE  BusInv'
<1>1. /\ conn = "waiting"
      /\ \/ conn' = "gone" /\ UNCHANGED session
         \/ conn' = "connecting" /\ session' = "upgraded"
      /\ UNCHANGED <<committed, sent, pos, wire, closed, hasEverConnected, lastSeenAt,
                     seenPoolIds, fills, delivered, history, faults>>
  BY DEF connect
<1>2. BusType'
  <2>1. Last(committed)' = Last(committed)
    BY <1>1 DEF Last
  <2> QED BY <1>1, <2>1 DEF BusInv, BusType, history
<1>3. SeenDelivered'
  BY <1>1 DEF BusInv, SeenDelivered
<1>4. Connection'
  BY <1>1 DEF BusInv, Connection, Connected, history
<1> QED BY <1>1, <1>2, <1>3, <1>4 DEF BusInv, Streamed, ReadInTime

-----------------------------------------------------------------------------
(* The frames.                                                             *)

LEMMA HandledFacts ==
  ASSUME BusType, NEW frames \in SUBSET Frames, handleFrames(frames)
  PROVE  /\ lastSeenAt' \in 0..Latest /\ seenPoolIds' \subseteq Frames
         /\ delivered \subseteq delivered' /\ delivered' \subseteq Frames
         /\ closed => delivered' = delivered
         /\ ~closed => delivered' = delivered \cup frames
         /\ ~closed /\ SeenDelivered => seenPoolIds' \subseteq delivered'
<1> DEFINE times == {Log[f].at : f \in frames} \cup {lastSeenAt}
<1>1. times \in SUBSET (0..Latest) /\ times # {} /\ Latest \in Nat
  <2>1. \A f \in frames : Log[f].at \in 0..Latest
    <3>1. \A f \in Frames : Log[f].at \in 1..Latest
      BY LogTypes
    <3> QED BY <3>1, LogTypes
  <2>2. lastSeenAt \in 0..Latest
    BY DEF BusType
  <2> QED BY <2>1, <2>2, LogTypes
<1>2. lastSeenAt' = CHOOSE t \in times : \A u \in times : u <= t
  BY DEF handleFrames
<1> HIDE DEF times
<1>3. \E t \in times : \A u \in times : u <= t
  BY <1>1, Greatest
<1>4. lastSeenAt' \in times
  BY <1>2, <1>3
<1>5. lastSeenAt' \in 0..Latest
  BY <1>1, <1>4
<1> QED BY <1>5 DEF handleFrames, BusType, SeenDelivered

LEMMA ReceiveStep ==
  ASSUME BusInv, receive
  PROVE  BusInv'
<1>1. /\ conn = "open" /\ wire # <<>>
      /\ handleFrames({Head(wire)}) /\ wire' = Tail(wire)
      /\ UNCHANGED <<server, conn, closed, hasEverConnected, fills, history, faults>>
  BY DEF receive
<1>2. BusType
  BY DEF BusInv
<1>3. /\ wire \in Seq(Frames) /\ Len(wire) \in Nat /\ Head(wire) \in Frames
      /\ wire' \in Seq(Frames) /\ Len(wire') = Len(wire) - 1
      /\ \A j \in 1..Len(wire') : wire'[j] = wire[j + 1]
      /\ Head(wire) = wire[1]
  <2>1. wire \in Seq(Frames)
    BY <1>2 DEF BusType
  <2> QED BY <1>1, <2>1, HeadTailProperties, LenProperties
<1>4. /\ lastSeenAt' \in 0..Latest /\ seenPoolIds' \subseteq Frames
      /\ delivered \subseteq delivered' /\ delivered' \subseteq Frames
      /\ ~closed => Head(wire) \in delivered'
      /\ SeenDelivered'
  <2>1. {Head(wire)} \in SUBSET Frames
    BY <1>3
  <2> QED BY <1>1, <1>2, <2>1, HandledFacts DEF SeenDelivered, BusInv
<1>5. BusType'
  <2>1. Last(committed)' = Last(committed)
    BY <1>1 DEF Last, server
  <2> QED BY <1>1, <1>2, <1>3, <1>4, <2>1 DEF BusType, server, history
<1>6. Connection'
  BY <1>1 DEF BusInv, Connection, Connected, server, history
<1>7. \A f : Covered(f) => Covered(f)'
  <2>1. TAKE f
  <2> QED BY <1>1, <1>4, StillCovered DEF history
<1>8. Streamed'
  <2>1. SUFFICES ASSUME ~closed, session = "subscribed", NEW f \in Wanted, first < f, f <= sent
                 PROVE  Covered(f)' \/ OnWire(f)' \/ pos <= f
    BY <1>1 DEF Streamed, server, history
  <2>2. Covered(f) \/ OnWire(f) \/ pos <= f
    BY <1>1, <2>1 DEF BusInv, Streamed
  <2>3. ASSUME OnWire(f) PROVE OnWire(f)' \/ Covered(f)'
    <3>1. PICK j \in 1..Len(wire) : wire[j] = f
      BY <2>3 DEF OnWire
    <3>2. CASE j = 1
      BY <1>3, <1>4, <2>1, <3>1, <3>2 DEF Covered
    <3>3. CASE j # 1
      <4>1. j - 1 \in 1..Len(wire') /\ (j - 1) + 1 = j
        BY <1>3, <3>3
      <4>2. wire'[j - 1] = f
        BY <1>3, <3>1, <4>1
      <4> QED BY <4>1, <4>2 DEF OnWire
    <3> QED BY <3>2, <3>3
  <2> QED BY <1>7, <2>2, <2>3
<1>9. ReadInTime'
  <2>1. SUFFICES ASSUME ~closed, session = "upgraded", first < Len(Log), NEW k \in Kinds
                 PROVE  \/ fills # <<>> /\ k \in ToRead(fills[Len(fills)].stage)
                        \/ early[k] <= committed /\ \A f \in Rows(k, early[k]) : Covered(f)'
    BY <1>1 DEF ReadInTime, Rows, server, history
  <2> QED BY <1>1, <1>7, <2>1 DEF BusInv, ReadInTime
<1> QED BY <1>4, <1>5, <1>6, <1>8, <1>9 DEF BusInv

LEMMA DispatchStep ==
  ASSUME BusInv, NEW i, dispatch(i)
  PROVE  BusInv'
<1>1. /\ i \in DOMAIN fills /\ fills[i].stage \in {Reading(k) : k \in Kinds}
      /\ handleFrames(fills[i].rows \ seenPoolIds)
      /\ fills' = [fills EXCEPT ![i] = NextList(fills[i])]
      /\ excused' = excused \ {f \in fills[i].rows : Log[f].kind = "pool"}
      /\ UNCHANGED <<server, wire, conn, closed, hasEverConnected, first, early, faults>>
  BY DEF dispatch
<1>2. BusType
  BY DEF BusInv
<1>3. fills[i] \in Fill /\ fills[i].rows \subseteq Frames
  BY <1>1, <1>2, FillsFacts
<1>4. PICK k0 \in Kinds : fills[i].stage = Reading(k0)
  BY <1>1
<1>5. /\ NextList(fills[i]) \in Fill
      /\ ToRead(NextList(fills[i]).stage) = ToRead(fills[i].stage)
  BY <1>3, <1>4, NextListFacts
<1>6. Moved(i, NextList(fills[i]))
  BY <1>1, <1>2, <1>5, FillMoved
<1>7. /\ lastSeenAt' \in 0..Latest /\ seenPoolIds' \subseteq Frames
      /\ delivered' \subseteq Frames /\ SeenDelivered'
  <2>1. fills[i].rows \ seenPoolIds \in SUBSET Frames
    BY <1>3
  <2> QED BY <1>1, <1>2, <2>1, HandledFacts DEF SeenDelivered, BusInv
<1>8. BusType'
  <2>1. Last(committed)' = Last(committed)
    BY <1>1 DEF Last, server
  <2> QED BY <1>1, <1>2, <1>6, <1>7, <2>1 DEF BusType, Moved, server
<1>9. Connection'
  BY <1>1 DEF BusInv, Connection, Connected, server
<1>10. ASSUME ~closed, NEW f \in Wanted, Covered(f) PROVE Covered(f)'
  BY <1>2, <1>10, DispatchCovers DEF BusInv
<1>11. Streamed'
  <2>1. SUFFICES ASSUME ~closed, conn = "open", session = "subscribed", NEW f \in Wanted,
                        first < f, f <= sent
                 PROVE  Covered(f)' \/ OnWire(f)' \/ pos <= f
    BY <1>1 DEF Streamed, server
  <2>2. Covered(f) \/ OnWire(f) \/ pos <= f
    BY <1>1, <2>1 DEF BusInv, Streamed
  <2>3. OnWire(f)' <=> OnWire(f)
    BY <1>1 DEF OnWire
  <2> QED BY <1>10, <2>1, <2>2, <2>3
<1>12. ReadInTime'
  <2>1. SUFFICES ASSUME ~closed, conn = "open", session = "upgraded", first < Len(Log),
                        NEW k \in Kinds
                 PROVE  \/ fills' # <<>> /\ k \in ToRead(fills'[Len(fills')].stage)
                        \/ early[k] <= committed /\ \A f \in Rows(k, early[k]) : Covered(f)'
    BY <1>1 DEF ReadInTime, Rows, server
  <2>2. \/ fills # <<>> /\ k \in ToRead(fills[Len(fills)].stage)
        \/ early[k] <= committed /\ \A f \in Rows(k, early[k]) : Covered(f)
    BY <1>1, <2>1 DEF BusInv, ReadInTime
  <2>3. CASE fills # <<>> /\ k \in ToRead(fills[Len(fills)].stage)
    <3>1. Len(fills) \in DOMAIN fills /\ Len(fills') = Len(fills)
      BY <1>2, <1>6, <2>3, FillsFacts DEF Moved
    <3>2. k \in ToRead(fills'[Len(fills)].stage)
      BY <1>5, <1>6, <2>3, <3>1 DEF Moved
    <3>3. fills' # <<>>
      <4>1. DOMAIN fills' = DOMAIN fills
        BY <1>6 DEF Moved
      <4>2. DOMAIN <<>> = {}
        OBVIOUS
      <4> QED BY <1>1, <4>1, <4>2
    <3> QED BY <3>1, <3>2, <3>3
  <2>4. CASE early[k] <= committed /\ \A f \in Rows(k, early[k]) : Covered(f)
    <3>1. \A f \in Rows(k, early[k]) : f \in Wanted
      BY DEF Rows, Wanted
    <3> QED BY <1>10, <2>1, <2>4, <3>1
  <2> QED BY <2>2, <2>3, <2>4
<1> QED BY <1>7, <1>8, <1>9, <1>11, <1>12 DEF BusInv

(* A new socket of a bus that was connected before: every row is excused,  *)
(* or asked for by a new gap fill.                                         *)
LEMMA OpenStep ==
  ASSUME BusInv, open
  PROVE  BusInv'
<1> DEFINE fill == [since |-> lastSeenAt, stage |-> "swap", rows |-> {}]
<1>1. /\ conn = "connecting" /\ conn' = "open" /\ hasEverConnected' = TRUE
      /\ first' = IF session = "subscribed" THEN FirstNow ELSE first
      /\ UNCHANGED <<server, wire, closed, lastSeenAt, seenPoolIds, delivered, faults>>
      /\ \/ ~hasEverConnected /\ UNCHANGED <<fills, excused, early>>
         \/ /\ hasEverConnected
            /\ Excuse(1..Last(committed))
            /\ early' = IF session = "upgraded" THEN [k \in Kinds |-> committed] ELSE early
            /\ UNCHANGED fills
         \/ /\ hasEverConnected
            /\ fills' = Append(fills, fill)
            /\ UNCHANGED <<excused, early>>
  BY DEF open
<1>2. /\ BusType /\ committed \in Nat /\ sent \in Nat /\ sent <= Len(Log) /\ Len(Log) \in Nat
      /\ sent <= Last(committed) /\ Last(committed) \in 0..Len(Log)
      /\ \A f \in Frames : f <= Last(committed) <=> Log[f].block <= committed
  <2>1. BusType
    BY DEF BusInv
  <2> QED BY <2>1, SentIsCommitted, LogTypes
<1>3. first' \in 0..Len(Log)
  BY <1>1, <1>2, FirstFacts DEF BusType
<1>4. Last(committed)' = Last(committed)
  BY <1>1 DEF Last, server
<1>5. Connection'
  <2>1. session # "none" /\ session' = session /\ pos' = pos /\ sent' = sent
    BY <1>1 DEF BusInv, Connection, Connected, server
  <2> QED BY <1>1, <2>1 DEF BusInv, Connection, Connected
<1>6. SeenDelivered'
  BY <1>1 DEF BusInv, SeenDelivered
<1>7. ASSUME NEW f \in Wanted, session = "subscribed", first' < f, f <= sent
      PROVE  hasEverConnected
  <2>1. f \in Nat /\ f <= Len(Log)
    BY LogTypes DEF Wanted
  <2>2. FirstNow < sent
    BY <1>1, <1>2, <1>7, <2>1, FirstFacts
  <2>3. FirstNow = first
    BY <1>2, <2>2, FirstFacts
  <2>4. first < Len(Log)
    BY <1>2, <2>2, <2>3, FirstFacts
  <2> QED BY <2>4 DEF BusInv, Connection
<1>8. CASE ~hasEverConnected /\ UNCHANGED <<fills, excused, early>>
  <2>1. BusType'
    BY <1>1, <1>2, <1>3, <1>4, <1>8 DEF BusType, server
  <2>2. Streamed'
    BY <1>1, <1>7, <1>8 DEF Streamed, server
  <2>3. ReadInTime'
    <3>1. ~(first < Len(Log))
      BY <1>8 DEF BusInv, Connection
    <3> QED BY <1>1, <3>1 DEF ReadInTime, server
  <2> QED BY <1>5, <1>6, <2>1, <2>2, <2>3 DEF BusInv
<1>9. CASE /\ hasEverConnected
           /\ Excuse(1..Last(committed))
           /\ early' = IF session = "upgraded" THEN [k \in Kinds |-> committed] ELSE early
           /\ UNCHANGED fills
  <2>1. /\ excused \subseteq excused' /\ excused' \subseteq Frames
        /\ \A f \in 1..Last(committed) : f \in Wanted => f \in delivered \/ f \in excused'
    <3>1. 1..Last(committed) \in SUBSET Frames
      BY <1>2 DEF Frames
    <3> QED BY <1>2, <1>9, <3>1, ExcuseFacts
  <2>2. early' \in [Kinds -> 0..Blocks]
    BY <1>2, <1>9 DEF BusType
  <2>3. BusType'
    BY <1>1, <1>2, <1>3, <1>4, <1>9, <2>1, <2>2 DEF BusType, server
  <2>4. ASSUME NEW f \in Wanted, f <= Last(committed) PROVE Covered(f)'
    <3>1. f \in 1..Last(committed)
      <4>1. f \in Nat \ {0}
        BY LogTypes DEF Wanted
      <4> QED BY <1>2, <2>4, <4>1
    <3> QED BY <1>1, <2>1, <3>1 DEF Covered
  <2>5. Streamed'
    <3>1. SUFFICES ASSUME NEW f \in Wanted, f <= sent PROVE Covered(f)'
      BY <1>1 DEF Streamed, server
    <3>2. f <= Last(committed)
      BY <1>2, <3>1, LogTypes DEF Wanted
    <3> QED BY <2>4, <3>2
  <2>6. ReadInTime'
    <3>1. SUFFICES ASSUME session = "upgraded", NEW k \in Kinds
                   PROVE  early'[k] <= committed /\ \A f \in Rows(k, early'[k]) : Covered(f)'
      BY <1>1 DEF ReadInTime, Rows, server
    <3>2. early'[k] = committed
      BY <1>9, <3>1
    <3>3. \A f \in Rows(k, committed) : f \in Wanted /\ f <= Last(committed)
      BY <1>2 DEF Rows, Wanted
    <3> QED BY <1>2, <2>4, <3>2, <3>3
  <2> QED BY <1>5, <1>6, <2>3, <2>5, <2>6 DEF BusInv
<1>10. CASE hasEverConnected /\ fills' = Append(fills, fill) /\ UNCHANGED <<excused, early>>
  <2>1. fill \in Fill
    BY <1>2 DEF BusType, Fill, Stages
  <2>2. fills \in Seq(Fill) /\ Len(fills) \in Nat
    BY <1>2, FillsFacts
  <2>3. /\ fills' \in Seq(Fill) /\ fills' # <<>> /\ Len(fills') = Len(fills) + 1
        /\ fills'[Len(fills) + 1] = fill
    <3> HIDE DEF fill
    <3> QED BY <1>10, <2>1, <2>2, AppendProperties
  <2>4. DOMAIN fills' = 1..Len(fills')
    BY <2>3, LenProperties
  <2>5. Len(fills') \in DOMAIN fills' /\ fills'[Len(fills')].stage = "swap"
    BY <2>2, <2>3, <2>4
  <2>6. ASSUME NEW f \in Wanted PROVE Covered(f)'
    <3>1. Log[f].kind \in ToRead("swap")
      BY StageFacts DEF Wanted
    <3> QED BY <2>5, <3>1 DEF Covered, Awaited
  <2>7. BusType'
    BY <1>1, <1>2, <1>3, <1>4, <1>10, <2>3 DEF BusType, server
  <2>8. Streamed'
    BY <2>6 DEF Streamed
  <2>9. ReadInTime'
    BY <2>3, <2>5, StageFacts DEF ReadInTime
  <2> QED BY <1>5, <1>6, <2>7, <2>8, <2>9 DEF BusInv
<1> QED BY <1>1, <1>8, <1>9, <1>10

-----------------------------------------------------------------------------
LEMMA InitBusInv ==
  ASSUME Init
  PROVE  BusInv
<1>1. Last(0) \in 0..Len(Log) /\ Len(Log) \in Nat /\ Blocks \in Nat /\ Latest \in Nat
  BY LastFacts, LogTypes
<1>2. BusType
  <2>1. Never \in [Kinds -> 0..Blocks]
    BY <1>1 DEF Never
  <2>2. sent \in 0..Last(committed)
    <3>1. Last(committed) = Last(0) /\ sent = 0
      BY DEF Init
    <3> QED BY <1>1, <3>1
  <2>3. <<>> \in Seq(Frames) /\ <<>> \in Seq(Fill)
    OBVIOUS
  <2>4. /\ committed = 0 /\ session = "upgraded" /\ pos = 0 /\ wire = <<>>
        /\ conn = "connecting" /\ closed = FALSE /\ hasEverConnected = FALSE
        /\ lastSeenAt = 0 /\ seenPoolIds = {} /\ fills = <<>>
        /\ delivered = {} /\ first = Len(Log) /\ excused = {} /\ early = Never
    BY DEF Init
  <2>5. committed \in 0..Blocks /\ lastSeenAt \in 0..Latest /\ first \in 0..Len(Log) /\ pos \in Nat
    BY <1>1, <2>4
  <2>6. wire \in Seq(Frames) /\ fills \in Seq(Fill) /\ early \in [Kinds -> 0..Blocks]
    <3> HIDE DEF Fill
    <3> QED BY <2>1, <2>3, <2>4
  <2>7. /\ session \in {"none", "upgraded", "subscribed"}
        /\ conn \in {"connecting", "open", "waiting", "gone"}
        /\ closed \in BOOLEAN /\ hasEverConnected \in BOOLEAN
        /\ seenPoolIds \subseteq Frames /\ delivered \subseteq Frames /\ excused \subseteq Frames
    BY <2>4
  <2> QED BY <2>2, <2>5, <2>6, <2>7 DEF BusType
<1>3. Connection /\ SeenDelivered
  BY <1>1 DEF Init, Connection, SeenDelivered
<1>4. Streamed /\ ReadInTime
  BY DEF Init, Streamed, ReadInTime
<1> QED BY <1>2, <1>3, <1>4 DEF BusInv

LEMMA IdleBusStep ==
  ASSUME BusInv, UNCHANGED vars
  PROVE  BusInv'
<1>1. /\ UNCHANGED <<committed, sent, session, pos, wire, conn, closed, hasEverConnected>>
      /\ UNCHANGED <<lastSeenAt, seenPoolIds, fills, delivered, first, excused, early>>
  BY DEF vars, server, client, history
<1>2. Last(committed)' = Last(committed)
  BY <1>1 DEF Last
<1>3. BusType'
  BY <1>1, <1>2 DEF BusInv, BusType
<1>4. \A f : Covered(f)' <=> Covered(f)
  BY <1>1 DEF Covered, Awaited
<1>5. Connection' /\ SeenDelivered'
  BY <1>1 DEF BusInv, Connection, SeenDelivered, Connected
<1>6. Streamed'
  BY <1>1, <1>4 DEF BusInv, Streamed, OnWire
<1>7. ReadInTime'
  BY <1>1, <1>4 DEF BusInv, ReadInTime, Rows
<1> QED BY <1>3, <1>5, <1>6, <1>7 DEF BusInv

LEMMA NextBusInv ==
  ASSUME BusInv, [Next]_vars
  PROVE  BusInv'
<1>1. ASSUME Work PROVE BusInv'
  <2>1. CASE Commit \/ publish \/ subscribe \/ forward \/ lagged
    BY <2>1, CommitStep, PublishStep, SubscribeStep, ForwardStep, LaggedStep
  <2>2. CASE connect \/ open \/ receive
    BY <2>2, ConnectStep, OpenStep, ReceiveStep
  <2>3. ASSUME NEW i \in DOMAIN fills, fetch(i) PROVE BusInv'
    BY <2>3, FetchAsks, AskedStep DEF BusInv
  <2>4. ASSUME NEW i \in DOMAIN fills, dispatch(i) PROVE BusInv'
    BY <2>4, DispatchStep
  <2> QED BY <1>1, <2>1, <2>2, <2>3, <2>4 DEF Work
<1>2. CASE Cut \/ ServerCrash \/ close
  BY <1>2, CutStep, ServerCrashStep, CloseStep
<1>3. ASSUME NEW i \in DOMAIN fills, FetchFails(i) PROVE BusInv'
  BY <1>3, FailureAsks, AskedStep DEF BusInv
<1>4. CASE UNCHANGED vars
  BY <1>4, IdleBusStep
<1> QED BY <1>1, <1>2, <1>3, <1>4 DEF Next

(* When nothing is under way, only what could not be known is missing.     *)
LEMMA SettledIsComplete ==
  ASSUME BusInv
  PROVE  SettledMeansComplete
<1>1. SUFFICES ASSUME Settled, NEW f \in Expected
               PROVE  f \in delivered \cup excused
  BY DEF SettledMeansComplete
<1>2. /\ ~closed /\ conn = "open" /\ session = "subscribed" /\ pos > sent /\ wire = <<>>
      /\ \A i \in DOMAIN fills : fills[i].stage = "done"
  BY <1>1 DEF Settled
<1>3. /\ BusType /\ sent \in Nat /\ sent <= Len(Log) /\ Len(Log) \in Nat
      /\ first \in Nat /\ pos \in Nat
  <2>1. BusType
    BY DEF BusInv
  <2> QED BY <2>1, SentIsCommitted, LogTypes DEF BusType
<1>4. f \in Wanted /\ first < f /\ f <= sent /\ f \in Nat
  BY <1>1, <1>3 DEF Expected, Wanted, Frames
<1>5. Covered(f) \/ OnWire(f) \/ pos <= f
  BY <1>2, <1>4 DEF BusInv, Streamed
<1>6. ~OnWire(f)
  <2>1. Len(wire) = 0
    BY <1>2
  <2> QED BY <2>1 DEF OnWire
<1>7. ~Awaited(f)
  <2>1. Log[f].kind \in Kinds
    BY <1>4 DEF Wanted
  <2>2. Reading(Log[f].kind) # "done" /\ ToRead("done") = {}
    BY <2>1, StageFacts
  <2> QED BY <1>2, <2>2 DEF Awaited
<1> QED BY <1>2, <1>3, <1>4, <1>5, <1>6, <1>7 DEF Covered

-----------------------------------------------------------------------------
(* A bus that has nothing under way has delivered every pool, swap,        *)
(* deposit and redemption published since it was first connected, but for  *)
(* those that it could not know of; for any number of cuts, crashes, lags, *)
(* failed requests and gap fills that overlap.                             *)
THEOREM BusMissesNothingItCouldKnow == Spec => []SettledMeansComplete
<1>1. Spec => []BusInv
  BY InitBusInv, NextBusInv, PTL DEF Spec
<1>2. BusInv => SettledMeansComplete
  BY SettledIsComplete
<1> QED BY <1>1, <1>2, PTL

LEMMA ClosedStep ==
  ASSUME Next, closed
  PROVE  delivered' = delivered /\ (conn' = "connecting" => conn = "connecting")
<1>1. ASSUME Work
      PROVE  delivered' = delivered /\ (conn' = "connecting" => conn = "connecting")
  <2>1. CASE Commit \/ publish \/ subscribe \/ forward \/ lagged
    BY <2>1 DEF Commit, publish, subscribe, forward, lagged, client
  <2>2. CASE connect
    BY <2>2 DEF connect
  <2>3. CASE open
    BY <2>3 DEF open
  <2>4. CASE receive
    BY <2>4 DEF receive, handleFrames
  <2>5. ASSUME NEW i \in DOMAIN fills, fetch(i) \/ dispatch(i)
        PROVE  delivered' = delivered /\ (conn' = "connecting" => conn = "connecting")
    BY <2>5 DEF fetch, dispatch, handleFrames
  <2> QED BY <1>1, <2>1, <2>2, <2>3, <2>4, <2>5 DEF Work
<1>2. CASE Cut \/ ServerCrash \/ close
  BY <1>2 DEF Cut, ServerCrash, close, on_close
<1>3. ASSUME NEW i \in DOMAIN fills, FetchFails(i)
      PROVE  delivered' = delivered /\ (conn' = "connecting" => conn = "connecting")
  BY <1>3 DEF FetchFails
<1> QED BY <1>1, <1>2, <1>3 DEF Next

(* After close() no handler is called and no socket opened, whatever       *)
(* timer, frame, or answer of a gap fill was under way.                    *)
THEOREM CloseIsFinal == Spec => ClosedForGood
<1>1. [Next]_vars =>
        [closed => delivered' = delivered /\ (conn' = "connecting" => conn = "connecting")]_vars
  BY ClosedStep
<1> QED BY <1>1, PTL DEF Spec, ClosedForGood
=============================================================================
