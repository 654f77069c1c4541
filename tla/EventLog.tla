------------------------------ MODULE EventLog ------------------------------
(***************************************************************************)
(* The data that core and its replicas share: market states, replication   *)
(* events, the rows of the `event_log` table, and what it means for a set  *)
(* of market states to be the result of a set of events.                   *)
(*                                                                         *)
(* A market state is a value of States: the fields of domain.MarketState   *)
(* matter to replication only through MarketState.IsEqual.  The table is   *)
(* the set of its rows, and the random event id is the pair (epoch, seq):  *)
(* it differs between two rows and between two lives of the core process.  *)
(***************************************************************************)
EXTENDS Integers, FiniteSets, Sequences

CONSTANTS Markets,        \* market ids
          DefaultMarket,  \* ServiceConfig.DefaultMarketID
          States,         \* values of domain.MarketState
          OpenState,      \* the state a market has when it is first seen
          Absent          \* a market id that is not a key of the map

ASSUME EventLogAssumption ==
    /\ DefaultMarket \in Markets
    /\ OpenState \in States
    /\ Absent \notin States

(* domain.ReplicationEvent *)
Event == [epoch : Nat, seq : Nat \ {0}, market : Markets, state : States]

(* map[string]domain.MarketState *)
View == [Markets -> States \cup {Absent}]

(* The keys of such a map. *)
Known(view) == {m \in Markets : view[m] # Absent}

(* The map of a new core service: NewService creates the default market. *)
FreshMarkets == [m \in Markets |-> IF m = DefaultMarket THEN OpenState ELSE Absent]

-----------------------------------------------------------------------------
(* EventStore.EventsFromSeq: SELECT ... WHERE seq >= from, as a set; the    *)
(* reader consumes it in ascending order.                                   *)
RowsFrom(rows, from) == {e \in rows : e.seq >= from}

(* EventStore.LastSeq: MAX(seq), or 0 for an empty table. *)
IsLastSeq(rows, n) ==
    \/ rows = {} /\ n = 0
    \/ (\E e \in rows : e.seq = n) /\ (\A e \in rows : e.seq <= n)

(* The primary key of event_log refuses a second row with one seq. *)
HasRow(rows, seq) == \E e \in rows : e.seq = seq

(* What a lookup in a list sorted by seq would return first. *)
IsFirst(e, rows) == e \in rows /\ \A f \in rows : e.seq <= f.seq

-----------------------------------------------------------------------------
(* The rows are numbered 1 .. n without a gap or a repetition. *)
NumberedTo(rows, n) ==
    /\ \A e \in rows : e.seq \in 1 .. n
    /\ \A i \in 1 .. n : HasRow(rows, i)
    /\ \A e, f \in rows : e.seq = f.seq => e = f

IsLatestOfMarket(e, rows) ==
    /\ e \in rows
    /\ \A f \in rows : f.market = e.market => f.seq <= e.seq

(* view is what applying the rows in order leaves: each market that has an  *)
(* event shows its latest one, each other market is new or not known.       *)
Reflects(view, rows) ==
    \A m \in Markets :
        /\ (\A e \in rows : e.market # m) => view[m] \in {Absent, OpenState}
        /\ \A e \in rows :
              e.market = m /\ IsLatestOfMarket(e, rows) => view[m] = e.state

UpTo(rows, n) == {e \in rows : e.seq <= n}
=============================================================================
