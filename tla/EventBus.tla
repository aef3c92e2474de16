------------------------------ MODULE EventBus ------------------------------
(***************************************************************************)
(* From the indexer's writer to a handler in the browser: run_writer       *)
(* publishes the rows of a committed block frame by frame on a broadcast   *)
(* channel (contracts.rs), ws_session (api.rs) forwards them to a          *)
(* websocket, and the client's bus (packages/sdk/src/bus.ts) dispatches    *)
(* them.  When its socket was cut, the bus connects again and fills the    *)
(* gap from the HTTP API.                                                  *)
(*                                                                         *)
(* One client.  A frame is its position in the order of publication.       *)
(***************************************************************************)
EXTENDS Integers, Sequences, FiniteSets

CONSTANTS
  Log,                 \* the rows that the writer inserts, in that order
  BROADCAST_CAPACITY, GAP_FILL_LIMIT,
  SocketCapacity,      \* how many frames a socket takes before it blocks
  Faults,              \* of "cut", "crash", "fetch", "close"
  MaxFaults            \* bound: how many of them

Frames == 1..Len(Log)
Last(block) == CHOOSE n \in 0..Len(Log) :
  \A f \in Frames : f <= n <=> Log[f].block <= block
Blocks == IF Log = <<>> THEN 0 ELSE Log[Len(Log)].block
KindOrder == <<"pool", "reserves", "swap", "liquidity">>
RankOf(kind) == CHOOSE i \in 1..4 : KindOrder[i] = kind

(* Rows come block by block and table by table.  Those of a block carry    *)
(* its time in seconds; several blocks may fall into one second.           *)
ASSUME BusAssumption ==
  /\ Log \in Seq([kind : {KindOrder[i] : i \in 1..4}, at : Nat \ {0}, block : Nat \ {0}])
  /\ \A f, g \in Frames : f < g =>
       /\ Log[f].at <= Log[g].at
       /\ \/ Log[f].block < Log[g].block
          \/ /\ Log[f].block = Log[g].block /\ Log[f].at = Log[g].at
             /\ RankOf(Log[f].kind) <= RankOf(Log[g].kind)
  /\ {BROADCAST_CAPACITY, GAP_FILL_LIMIT, SocketCapacity} \subseteq Nat \ {0}
  /\ MaxFaults \in Nat

VARIABLES
  committed,         \* how many blocks are in the database
  sent,              \* the frame published last
  session,           \* ws_session: "none", "upgraded" or "subscribed"
  pos,               \* the frame it receives next
  wire,              \* frames on the way to the client
  conn,              \* the client's socket: "connecting", "open", "waiting" for
                     \* the timer, or "gone"
  closed, hasEverConnected,
  lastSeenAt,        \* 0 for null
  seenPoolIds,       \* a pool by its frame
  fills,             \* gapFill calls, each [since, stage, rows]
  delivered,         \* frames that the handlers have got
  first,             \* history: the frame sent last when the client was first
                     \* connected and subscribed
  excused,           \* history: frames the bus could not know of; see below
  early,             \* history: per kind, the block up to which the list was
                     \* read before the session of this socket subscribed
  faults

server == <<committed, sent, session, pos>>
client == <<conn, closed, hasEverConnected, lastSeenAt, seenPoolIds, fills>>
history == <<first, excused, early>>
vars == <<server, wire, client, delivered, history, faults>>

Fault(kind) == kind \in Faults /\ faults < MaxFaults /\ faults' = faults + 1
Kinds == {"pool", "swap", "liquidity"}   \* the kinds that are filled
Never == [k \in Kinds |-> Blocks]
Excuse(frames) ==
  excused' = excused \cup {f \in frames \ delivered : Log[f].kind \in Kinds}
Rows(kind, block) == {f \in Frames : Log[f].kind = kind /\ Log[f].block <= block}

Init ==
  /\ committed = 0 /\ sent = 0 /\ session = "upgraded" /\ pos = 0 /\ wire = <<>>
  /\ conn = "connecting" /\ closed = FALSE /\ hasEverConnected = FALSE
  /\ lastSeenAt = 0 /\ seenPoolIds = {} /\ fills = <<>>
  /\ delivered = {} /\ first = Len(Log) /\ excused = {} /\ early = Never
  /\ faults = 0

-----------------------------------------------------------------------------
(* The server.                                                             *)

(* The writer commits a block after it has published the one before. *)
Commit ==
  /\ committed < Blocks /\ sent = Last(committed)
  /\ committed' = committed + 1
  /\ UNCHANGED <<sent, session, pos, wire, client, delivered, history, faults>>

publish ==
  /\ sent < Last(committed)
  /\ sent' = sent + 1
  /\ UNCHANGED <<committed, session, pos, wire, client, delivered, history, faults>>

FirstNow == IF sent < first THEN sent ELSE first

(* What was published before the subscription and committed after the list *)
(* was read reaches the client in neither way.                             *)
subscribe ==
  /\ session = "upgraded"
  /\ session' = "subscribed" /\ pos' = sent + 1
  /\ first' = IF conn = "open" THEN FirstNow ELSE first
  /\ Excuse({f \in 1..sent : /\ Log[f].kind \in Kinds
                             /\ Log[f].block > early[Log[f].kind]})
  /\ early' = Never
  /\ UNCHANGED <<committed, sent, wire, client, delivered, faults>>

Behind == sent - pos >= BROADCAST_CAPACITY
forward ==
  /\ session = "subscribed" /\ pos <= sent /\ ~Behind
  /\ Len(wire) < SocketCapacity
  /\ wire' = Append(wire, pos)
  /\ pos' = pos + 1
  /\ UNCHANGED <<committed, sent, session, client, delivered, history, faults>>

(* The receiver has lagged: it goes on with the oldest frame that is left. *)
lagged ==
  /\ session = "subscribed" /\ Behind
  /\ Len(wire) < SocketCapacity
  /\ pos' = sent - BROADCAST_CAPACITY + 1
  /\ Excuse(pos..(pos' - 1))
  /\ UNCHANGED <<committed, sent, session, wire, client, delivered, first, early, faults>>

-----------------------------------------------------------------------------
(* The client's socket.                                                    *)

\* Mutant: a closed socket is not opened again.
on_close_final == conn' = "gone"
(* The close event: the bus will connect again, unless it was closed.      *)
on_close == conn' = IF closed THEN "gone" ELSE "waiting"

SocketLost ==
  /\ session' = "none" /\ wire' = <<>> /\ pos' = 0 /\ early' = Never
Connected == conn \in {"connecting", "open"}

Cut ==
  /\ Connected /\ Fault("cut")
  /\ SocketLost /\ on_close
  /\ UNCHANGED <<committed, sent, closed, hasEverConnected, lastSeenAt, seenPoolIds,
                 fills, delivered, first, excused>>

(* The server restarts: rows that were committed and not yet published     *)
(* never will be.                                                          *)
ServerCrash ==
  /\ Fault("crash")
  /\ sent' = Last(committed)
  /\ SocketLost
  /\ IF Connected THEN on_close ELSE UNCHANGED conn
  /\ UNCHANGED <<committed, closed, hasEverConnected, lastSeenAt, seenPoolIds,
                 fills, delivered, first, excused>>

\* Mutant: the timer does not ask whether the bus was closed meanwhile.
connect_unchecked ==
  /\ conn = "waiting"
  /\ conn' = "connecting" /\ session' = "upgraded"
  /\ UNCHANGED <<committed, sent, pos, wire, closed, hasEverConnected, lastSeenAt, seenPoolIds,
                 fills, delivered, history, faults>>
(* The timer fires, and there is a new socket.  The server answers the     *)
(* upgrade (ws_handler) and the session's task is about to run.            *)
connect ==
  /\ conn = "waiting"
  /\ IF closed THEN conn' = "gone" /\ UNCHANGED session
     ELSE conn' = "connecting" /\ session' = "upgraded"
  /\ UNCHANGED <<committed, sent, pos, wire, closed, hasEverConnected, lastSeenAt, seenPoolIds,
                 fills, delivered, history, faults>>

close ==
  /\ ~closed /\ Fault("close")
  /\ closed' = TRUE
  /\ IF Connected THEN SocketLost /\ conn' = "gone"
     ELSE UNCHANGED <<session, wire, pos, early, conn>>
  /\ UNCHANGED <<committed, sent, hasEverConnected, lastSeenAt, seenPoolIds, fills,
                 delivered, first, excused>>

-----------------------------------------------------------------------------
(* The frames.                                                             *)

(* handleFrame for each of a set of frames. *)
handleFrames(frames) ==
  LET times == {Log[f].at : f \in frames} \cup {lastSeenAt}
  IN /\ lastSeenAt' = CHOOSE t \in times : \A u \in times : u <= t
     /\ seenPoolIds' = seenPoolIds \cup {f \in frames : Log[f].kind = "pool"}
     /\ delivered' = IF closed THEN delivered ELSE delivered \cup frames

receive ==
  /\ conn = "open" /\ wire # <<>>
  /\ handleFrames({Head(wire)})
  /\ wire' = Tail(wire)
  /\ UNCHANGED <<server, conn, closed, hasEverConnected, fills, history, faults>>

(* Connected again, the bus fills the gap after the last frame it has      *)
(* seen; without one it does not know what it has missed.                  *)
open ==
  /\ conn = "connecting"
  /\ conn' = "open" /\ hasEverConnected' = TRUE
  /\ IF ~hasEverConnected THEN UNCHANGED <<fills, excused, early>>
     ELSE IF lastSeenAt = 0
     THEN /\ Excuse(1..Last(committed))
          /\ early' = IF session = "upgraded" THEN [k \in Kinds |-> committed] ELSE early
          /\ UNCHANGED fills
     ELSE /\ fills' = Append(fills, [since |-> lastSeenAt, stage |-> "swap", rows |-> {}])
          /\ UNCHANGED <<excused, early>>
  /\ first' = IF session = "subscribed" THEN FirstNow ELSE first
  /\ UNCHANGED <<server, wire, closed, lastSeenAt, seenPoolIds, delivered, faults>>

-----------------------------------------------------------------------------
(* gapFill: swaps, then liquidity, then pools.                             *)

Reading(kind) == CASE kind = "swap" -> "swap read"
                   [] kind = "liquidity" -> "liquidity read"
                   [] kind = "pool" -> "pool read"
NextList(fill) ==
  LET stage == CASE fill.stage \in {"swap", Reading("swap")} -> "liquidity"
                 [] fill.stage \in {"liquidity", Reading("liquidity")} -> "pool"
                 [] OTHER -> "done"
  IN [since |-> IF stage = "done" THEN 0 ELSE fill.since, stage |-> stage, rows |-> {}]
Pending(i) == i \in DOMAIN fills /\ fills[i].stage \in Kinds

\* Mutant: the list is asked for from what was seen by now.
Since_seen(i) == lastSeenAt
Since(i) == fills[i].since

(* ORDER BY created_at DESC LIMIT; which of the rows of one second come    *)
(* first is up to the database.                                            *)
Limited(rows, limit) ==
  {cut \in SUBSET rows :
     /\ Cardinality(cut) <= limit
     /\ cut = rows \/ Cardinality(cut) = limit
     /\ \A f \in cut, g \in rows \ cut : Log[g].at <= Log[f].at}
list_pools == Rows("pool", committed)
list_swaps_or_liquidity(kind, since) ==
  Limited({f \in Rows(kind, committed) : Log[f].at > since}, GAP_FILL_LIMIT)
Answers(kind, since) ==
  IF kind = "pool" THEN {list_pools} ELSE list_swaps_or_liquidity(kind, since)

ReadEarly(i, kind) ==
  early' = IF session = "upgraded" /\ conn = "open" /\ i = Len(fills)
           THEN [early EXCEPT ![kind] = committed] ELSE early

fetch(i) ==
  /\ Pending(i)
  /\ LET kind == fills[i].stage
     IN /\ \E rows \in Answers(kind, Since(i)) :
             /\ fills' = [fills EXCEPT ![i].stage = Reading(kind), ![i].rows = rows]
             /\ Excuse({f \in Rows(kind, committed) \ rows :
                  Log[f].at <= fills[i].since \/ Cardinality(rows) = GAP_FILL_LIMIT})
        /\ ReadEarly(i, kind)
  /\ UNCHANGED <<server, wire, conn, closed, hasEverConnected, lastSeenAt, seenPoolIds,
                 delivered, first, faults>>

FetchFails(i) ==
  /\ Pending(i) /\ Fault("fetch")
  /\ fills' = [fills EXCEPT ![i] = NextList(fills[i])]
  /\ Excuse(Rows(fills[i].stage, committed))
  /\ ReadEarly(i, fills[i].stage)
  /\ UNCHANGED <<server, wire, conn, closed, hasEverConnected, lastSeenAt, seenPoolIds,
                 delivered, first>>

(* The answer arrives.  A pool that was missed before is found now. *)
dispatch(i) ==
  /\ i \in DOMAIN fills /\ fills[i].stage \in {Reading(k) : k \in Kinds}
  /\ handleFrames(fills[i].rows \ seenPoolIds)
  /\ fills' = [fills EXCEPT ![i] = NextList(fills[i])]
  /\ excused' = excused \ {f \in fills[i].rows : Log[f].kind = "pool"}
  /\ UNCHANGED <<server, wire, conn, closed, hasEverConnected, first, early, faults>>

-----------------------------------------------------------------------------
Work ==
  \/ Commit \/ publish \/ subscribe \/ forward \/ lagged
  \/ connect \/ open \/ receive
  \/ \E i \in DOMAIN fills : fetch(i) \/ dispatch(i)
Next ==
  \/ Work
  \/ Cut \/ ServerCrash \/ close
  \/ \E i \in DOMAIN fills : FetchFails(i)

Spec == Init /\ [][Next]_vars

(* Tasks, timers and requests make progress. *)
FairSpec == Spec /\ WF_vars(Work)

-----------------------------------------------------------------------------
(* What a subscriber may expect: each swap, deposit, redemption and pool   *)
(* since it was first connected.                                           *)
Expected == {f \in (first + 1)..sent : Log[f].kind \in Kinds}

Settled ==
  /\ ~closed /\ conn = "open" /\ session = "subscribed" /\ pos > sent /\ wire = <<>>
  /\ \A i \in DOMAIN fills : fills[i].stage = "done"

(* When all that is under way has arrived, nothing is missing but what the *)
(* bus could not know of: frames that the server skipped for a slow client, *)
(* rows that a list left out (not newer than the last frame seen, beyond   *)
(* the limit, or the request failed), rows published in the moment between *)
(* the reading of the list and the subscription, and everything before the *)
(* first frame.  A pool is missing only until the next list of pools.      *)
SettledMeansComplete == Settled => Expected \subseteq delivered \cup excused

(* The bus gets there, again and again, whatever is cut or restarted.      *)
EverythingArrives == []<>(closed \/ Expected \subseteq delivered \cup excused)

(* After close() nothing reaches a handler and no socket is opened, though *)
(* a timer, a socket or a gap fill may still be under way.                 *)
ClosedForGood ==
  [][closed => delivered' = delivered /\ (conn' = "connecting" => conn = "connecting")]_vars

-----------------------------------------------------------------------------
(* packages/sdk/src/bus.ts:5: "On reconnect, gap-fill via REST so          *)
(* subscribers see every event that landed during the disconnect window -  *)
(* there's no "missed-event" gap from the consumer's perspective.": once   *)
(* it has seen a frame, it sees all that follow.                           *)
NoMissedEvent ==
  Settled => \A f \in Expected : (\E d \in delivered : d < f) => f \in delivered
=============================================================================
