------------------------------- MODULE Candles -------------------------------
(***************************************************************************)
(* Time, and what an exchange answers when it is asked for candles         *)
(* (freqpanda_data/exchange.py), for one symbol and timeframe.             *)
(*                                                                         *)
(* Time is the number of candles that have closed: candle k is forming     *)
(* while the time is k - 1, and a row of it made at time t is final when   *)
(* k <= t.  A candle in which nobody traded has no row.  The exchange is   *)
(* external: since, limit and the order of the rows are used as the code   *)
(* uses them.                                                              *)
(***************************************************************************)
EXTENDS Naturals, FiniteSets

CONSTANTS
    Traded,   \* the candles the exchange has a row for
    MaxTime,  \* bound on time
    Limit,    \* rows fetch_ohlcv_since asks for (DEFAULT_PAGE_LIMIT)
    Cap       \* rows the exchange gives at most

ASSUME CandlesAssumption ==
    /\ MaxTime \in Nat
    /\ Limit \in Nat /\ Cap \in Nat
    /\ Traded \subseteq 1..MaxTime

Times == 0..MaxTime

(* The rows there are at a time, the one of the forming candle included.   *)
Rows(t) == {k \in Traded : k <= t + 1}

(* Pages asked for from a cursor on: oldest first, so without a hole after *)
(* the cursor.  An answer that is late, or from a cache, may leave out the *)
(* newest rows and begin with older ones.                                  *)
Pages(cursor, t) ==
    {S \in SUBSET Rows(t) :
        /\ Cardinality(S) <= Cap
        /\ \A k \in S : \A i \in Rows(t) : cursor <= i /\ i <= k => i \in S}

(* What is answered if nothing is wrong.                                   *)
GoodPage(S, cursor, t) ==
    /\ \A k \in S : k >= cursor
    /\ Cardinality(S) = Cap \/ {k \in Rows(t) : k >= cursor} \subseteq S

(* is_closed_candle: candle[0] + timeframe_ms <= now_ms.                   *)
Closed(k, t) == k <= t

(* fetch_ohlcv_since asks for the next page after a full one that moved    *)
(* the cursor.                                                             *)
IsNewest(k, S) == k \in S /\ \A i \in S : i <= k

GoesOn(S, cursor) ==
    Cardinality(S) >= Limit /\ \E k \in S : IsNewest(k, S) /\ k + 1 > cursor

NextCursor(S) == (CHOOSE k \in S : IsNewest(k, S)) + 1
=============================================================================
