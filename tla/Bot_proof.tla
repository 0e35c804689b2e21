------------------------------ MODULE Bot_proof ------------------------------
(***************************************************************************)
(* Proofs about one bot, for any lots, capital, drawdown limit and number  *)
(* of failures: whatever the bot forgets, sells twice or fails to record   *)
(* is a lot whose order was not followed by its save.                      *)
(***************************************************************************)
EXTENDS Bot, TLAPS

(* Before the first process nothing is bought, saved or recorded.          *)
LEMMA InitInv == Init => BotInv
<1> SUFFICES ASSUME Init PROVE BotInv
  OBVIOUS
<1> USE BotAssumption DEF Init
<1>1. TypeOK
  BY DEF TypeOK, Pcs, NoState, Equity, Highs
<1>2. LotInHand /\ SavedState /\ UncutLots /\ NothingElseSoldTwice /\ TradesMatchSales
  BY DEF LotInHand, SavedState, UncutLots, NothingElseSoldTwice, TradesMatchSales, Held, NoState
<1> QED  BY <1>1, <1>2 DEF BotInv, NoState

(* Starting a process, and saving its state.                               *)
LEMMA StartInv ==
    ASSUME BotInv, BuildBot \/ ReportRunning \/ StartedEvent \/ SaveState
    PROVE  BotInv'
<1> USE BotAssumption DEF BotInv, memVars, dbVars, exchangeVars, Held, Highs
<1>1. CASE BuildBot
  <2>1. TypeOK'
    BY <1>1 DEF BuildBot, TypeOK, Pcs, Equity
  <2>2. SavedState'
    BY <1>1 DEF BuildBot, TypeOK, NoState, SavedState, Equity
  <2>3. LotInHand' /\ UncutLots'
    BY <1>1 DEF BuildBot, TypeOK, NoState, LotInHand, UncutLots
  <2>4. NothingElseSoldTwice' /\ TradesMatchSales'
    BY <1>1 DEF BuildBot, NothingElseSoldTwice, TradesMatchSales
  <2> QED  BY <1>1, <2>1, <2>2, <2>3, <2>4 DEF BuildBot
<1>2. CASE ReportRunning
  BY <1>2 DEF ReportRunning, TypeOK, Pcs, SavedState, LotInHand, UncutLots,
              NothingElseSoldTwice, TradesMatchSales
<1>3. CASE StartedEvent
  BY <1>3 DEF StartedEvent, TypeOK, Pcs, SavedState, LotInHand, UncutLots,
              NothingElseSoldTwice, TradesMatchSales
<1>4. CASE SaveState
  <2>1. position \in bought \cup {None}
    BY <1>4 DEF SaveState, LotInHand
  <2>2. TypeOK'
    BY <1>4, <2>1 DEF SaveState, TypeOK, Pcs
  <2>3. SavedState' /\ LotInHand'
    BY <1>4, <2>2 DEF SaveState, TypeOK, SavedState, LotInHand, Equity
  <2>4. UncutLots'
    BY <1>4, <2>1 DEF SaveState, TypeOK, LotInHand, UncutLots
  <2>5. NothingElseSoldTwice' /\ TradesMatchSales'
    BY <1>4 DEF SaveState, NothingElseSoldTwice, TradesMatchSales
  <2> QED  BY <1>4, <2>1, <2>2, <2>3, <2>4, <2>5 DEF SaveState
<1> QED  BY <1>1, <1>2, <1>3, <1>4

(* The decisions of a candle, and the rejection of an entry.               *)
LEMMA CandleInv ==
    ASSUME BotInv, Candle \/ Heartbeat \/ HardStopEvent \/ RejectedEvent
    PROVE  BotInv'
<1> USE BotAssumption DEF BotInv, memVars, dbVars, exchangeVars, Held, Highs, TypeOK, Pcs, LotInHand, MaySell
<1>1. CASE HardStopLoss \/ ExitSignal
  <2>1. /\ pc = "idle" /\ position \in Lots /\ sold[position] < MaxSells
        /\ pc' \in {"hard_event", "sell"}
        /\ position' \in {None, position}
        /\ highest' \in {0, highest}
        /\ UNCHANGED <<quantity, equity, peak, dbVars, exchangeVars, exit_code, cut, cuts>>
    BY <1>1 DEF HardStopLoss, ExitSignal
  <2> QED
    BY <2>1 DEF SavedState, UncutLots, NothingElseSoldTwice, TradesMatchSales
<1>2. CASE EntrySignal
  BY <1>2 DEF EntrySignal, SavedState, UncutLots, NothingElseSoldTwice, TradesMatchSales
<1>3. CASE HardStopEvent
  BY <1>3 DEF HardStopEvent, SavedState, UncutLots, NothingElseSoldTwice, TradesMatchSales
<1>4. CASE RejectedEvent
  BY <1>4 DEF RejectedEvent, SavedState, UncutLots, NothingElseSoldTwice, TradesMatchSales
<1>5. ASSUME NEW h \in Highs, QuietCandle(h)
      PROVE  BotInv'
  BY <1>5 DEF QuietCandle, SavedState, UncutLots, NothingElseSoldTwice, TradesMatchSales
<1>6. CASE Heartbeat
  BY <1>6 DEF Heartbeat, SavedState, UncutLots, NothingElseSoldTwice, TradesMatchSales
<1> QED  BY <1>1, <1>2, <1>3, <1>4, <1>5, <1>6 DEF Candle

(* The calls of an entry.                                                  *)
LEMMA EntryInv ==
    ASSUME BotInv, (\E l \in Lots : Buy(l) \/ BuyUnconfirmed(l)) \/ EntryEvent
    PROVE  BotInv'
<1> USE BotAssumption DEF BotInv, memVars, dbVars, exchangeVars, Held, Highs, TypeOK, Pcs
<1>1. ASSUME NEW l \in Lots, Buy(l)
      PROVE  BotInv'
  <2>1. sold[l] = 0 \/ l \in cut
    BY <1>1 DEF Buy, UncutLots
  <2>2. sold[l] = 0
    BY <1>1, <2>1 DEF Buy
  <2> QED
    BY <1>1, <2>2 DEF Buy, LotInHand, SavedState, UncutLots, NothingElseSoldTwice,
       TradesMatchSales
<1>2. ASSUME NEW l \in Lots, BuyUnconfirmed(l)
      PROVE  BotInv'
  BY <1>2 DEF BuyUnconfirmed, LotInHand, SavedState, UncutLots, NothingElseSoldTwice,
     TradesMatchSales
<1>3. CASE EntryEvent
  BY <1>3 DEF EntryEvent, LotInHand, SavedState, UncutLots, NothingElseSoldTwice,
     TradesMatchSales
<1> QED  BY <1>1, <1>2, <1>3

(* The calls of an exit.                                                   *)
LEMMA ExitInv ==
    ASSUME BotInv, Sell \/ SellUnconfirmed \/ RecordTrade
    PROVE  BotInv'
<1> USE BotAssumption DEF BotInv, memVars, dbVars, exchangeVars, Held, Highs, TypeOK, Pcs, LotInHand, MaySell
<1>1. CASE Sell
  <2>1. quantity \in Lots /\ sold[quantity] < MaxSells /\ quantity = state.position
    BY <1>1 DEF Sell
  <2>2. TypeOK' /\ LotInHand' /\ SavedState'
    BY <1>1, <2>1 DEF Sell, SavedState, TradesMatchSales
  <2>3. UncutLots' /\ NothingElseSoldTwice'
    BY <1>1, <2>1 DEF Sell, UncutLots, NothingElseSoldTwice
  <2>4. TradesMatchSales'
    BY <1>1, <2>1 DEF Sell, TradesMatchSales
  <2> QED  BY <1>1, <2>2, <2>3, <2>4 DEF Sell
<1>2. CASE SellUnconfirmed
  <2>1. quantity \in Lots /\ sold[quantity] < MaxSells /\ quantity = state.position
    BY <1>2 DEF SellUnconfirmed
  <2>2. TypeOK' /\ LotInHand' /\ SavedState'
    BY <1>2, <2>1 DEF SellUnconfirmed, SavedState
  <2>3. UncutLots' /\ NothingElseSoldTwice'
    BY <1>2, <2>1 DEF SellUnconfirmed, UncutLots, NothingElseSoldTwice
  <2>4. TradesMatchSales'
    BY <1>2, <2>1 DEF SellUnconfirmed, TradesMatchSales
  <2> QED  BY <1>2, <2>2, <2>3, <2>4 DEF SellUnconfirmed
<1>3. CASE RecordTrade
  <2>1. /\ quantity \in Lots /\ trades[quantity] < sold[quantity]
        /\ sold[quantity] <= MaxSells /\ sold[quantity] \in Nat
    BY <1>3 DEF RecordTrade
  <2>2. TypeOK' /\ LotInHand' /\ SavedState'
    BY <1>3, <2>1 DEF RecordTrade, SavedState
  <2>3. UncutLots' /\ NothingElseSoldTwice'
    BY <1>3 DEF RecordTrade, UncutLots, NothingElseSoldTwice
  <2>4. TradesMatchSales'
    BY <1>3, <2>1 DEF RecordTrade, TradesMatchSales, NothingElseSoldTwice
  <2> QED  BY <1>3, <2>2, <2>3, <2>4 DEF RecordTrade
<1> QED  BY <1>1, <1>2, <1>3

(* The exit event: the equity and the circuit breaker.                     *)
LEMMA ExitEventInv ==
    ASSUME BotInv, NEW e \in Equity, ExitEvent(e) \/ ExitEventTrips(e)
    PROVE  BotInv'
<1> USE BotAssumption DEF BotInv, memVars, dbVars, exchangeVars, Held, Highs, TypeOK, Pcs, LotInHand
<1>1. PeakWith(e) \in Equity /\ PeakWith(e) >= peak
  BY DEF PeakWith, Equity
<1>2. CASE ExitEvent(e)
  <2>1. TypeOK' /\ LotInHand' /\ SavedState'
    BY <1>1, <1>2 DEF ExitEvent, SavedState, Equity
  <2>2. UncutLots' /\ NothingElseSoldTwice' /\ TradesMatchSales'
    BY <1>2 DEF ExitEvent, UncutLots, NothingElseSoldTwice, TradesMatchSales
  <2> QED  BY <1>2, <2>1, <2>2 DEF ExitEvent
<1>3. CASE ExitEventTrips(e)
  <2>1. TypeOK' /\ LotInHand' /\ SavedState'
    BY <1>1, <1>3 DEF ExitEventTrips, SavedState, Equity
  <2>2. UncutLots' /\ NothingElseSoldTwice' /\ TradesMatchSales'
    BY <1>3 DEF ExitEventTrips, UncutLots, NothingElseSoldTwice, TradesMatchSales
  <2> QED  BY <1>3, <2>1, <2>2 DEF ExitEventTrips
<1> QED  BY <1>2, <1>3

(* The ends of a process.                                                  *)
LEMMA EndInv ==
    ASSUME BotInv,
           \/ ReportBroken \/ ReportFailed \/ Stop \/ Raises \/ DatabaseFails \/ Killed
    PROVE  BotInv'
<1> USE BotAssumption DEF BotInv, memVars, dbVars, exchangeVars, Held, Highs, TypeOK, Pcs, LotInHand
<1>1. CASE Raises
  BY <1>1 DEF Raises, SavedState, UncutLots, NothingElseSoldTwice, TradesMatchSales
<1>2. CASE ReportBroken \/ ReportFailed \/ Stop
  <2>1. /\ pc \in {"circuit_broken", "failed", "idle"} /\ pc' = "dead"
        /\ exit_code' \in {"zero", "one"}
        /\ status' \in {"stopped", "error", "circuit_broken"} /\ Forgets
        /\ UNCHANGED <<state, trades, exchangeVars, cut, cuts>>
    BY <1>2 DEF ReportBroken, ReportFailed, Stop, Ends
  <2>2. TypeOK' /\ LotInHand' /\ SavedState'
    BY <2>1 DEF Forgets, SavedState, Equity
  <2>3. UncutLots' /\ NothingElseSoldTwice' /\ TradesMatchSales'
    BY <2>1 DEF UncutLots, NothingElseSoldTwice, TradesMatchSales
  <2> QED  BY <2>1, <2>2, <2>3
<1>3. CASE DatabaseFails \/ Killed
  <2>1. /\ pc # "dead" /\ pc' = "dead" /\ exit_code' \in {"one", "killed"}
        /\ Forgets /\ CutOff
        /\ UNCHANGED <<dbVars, exchangeVars>>
    BY <1>3 DEF DatabaseFails, Killed, Ends
  <2>2. Unsaved => UnsavedLot \in bought
    BY DEF Unsaved, UnsavedLot
  <2>3. /\ cut \subseteq cut' /\ cut' \subseteq bought /\ cuts' \in 0..MaxCuts
        /\ Unsaved => UnsavedLot \in cut'
    BY <2>1, <2>2 DEF CutOff
  <2>4. TypeOK' /\ LotInHand' /\ SavedState'
    BY <2>1, <2>3 DEF Forgets, SavedState, Equity
  <2>5. UncutLots'
    BY <2>1, <2>3 DEF UncutLots, Unsaved, UnsavedLot
  <2>6. NothingElseSoldTwice' /\ TradesMatchSales'
    BY <2>1, <2>3 DEF NothingElseSoldTwice, TradesMatchSales, Unsaved, UnsavedLot
  <2> QED  BY <2>1, <2>4, <2>5, <2>6
<1> QED  BY <1>1, <1>2, <1>3

(* Every call, candle and failure keeps the invariant.                     *)
LEMMA NextInv == BotInv /\ [Next]_vars => BotInv'
<1> SUFFICES ASSUME BotInv, [Next]_vars
             PROVE  BotInv'
  OBVIOUS
<1>1. CASE UNCHANGED vars
  BY <1>1 DEF BotInv, TypeOK, LotInHand, SavedState, UncutLots, NothingElseSoldTwice,
     TradesMatchSales, Held, MaySell, vars, memVars, dbVars, exchangeVars
<1>2. CASE BuildBot \/ Candle \/ Call \/ Stop \/ Failure
  BY <1>2, StartInv, CandleInv, EntryInv, ExitInv, ExitEventInv, EndInv DEF Call, Failure
<1> QED  BY <1>1, <1>2 DEF Next

(* The inductive invariant holds in every reachable state of a bot.        *)
THEOREM BotInvariant == Spec => []BotInv
<1> QED  BY InitInv, NextInv, PTL DEF Spec

-----------------------------------------------------------------------------
(* A position is forgotten only when a process ended, or the exchange left *)
(* it without an answer, between the buy and the save that follows.        *)
THEOREM ForgottenOnlyWhenCut == Spec => []NothingElseForgotten
<1>1. BotInv => NothingElseForgotten
  BY DEF BotInv, UncutLots, NothingElseForgotten, Known, Held, TypeOK
<1> QED  BY <1>1, BotInvariant, PTL

(* A position is sold twice only when its first sale was cut off: by a     *)
(* process that ended, an order without an answer, or the circuit breaker. *)
THEOREM SoldTwiceOnlyWhenCut == Spec => []NothingElseSoldTwice
<1>1. BotInv => NothingElseSoldTwice
  BY DEF BotInv
<1> QED  BY <1>1, BotInvariant, PTL

(* Between two candles the bot_state row has everything of the state of    *)
(* the process but how high the price was since the entry; and of that it  *)
(* has nothing.                                                            *)
THEOREM RestartForgetsHighsOnly == Spec => []IdleIsSavedButHighs
<1>1. BotInv => IdleIsSavedButHighs
  BY DEF BotInv, SavedState, LotInHand, IdleIsSavedButHighs
<1> QED  BY <1>1, BotInvariant, PTL

(* At most one of the lots that were not cut off is held.                  *)
THEOREM OnePositionAtATime == Spec => []OnePosition
<1>1. BotInv => OnePosition
  BY BotAssumption DEF BotInv, UncutLots, OnePosition, Held, TypeOK
<1> QED  BY <1>1, BotInvariant, PTL

(* The peak the drawdown is measured from never falls across restarts.     *)
THEOREM PeakIsKept == Spec => SavedPeakNeverFalls
<1>1. BotInv /\ [Next]_vars => [state'.peak >= state.peak]_vars
  <2> SUFFICES ASSUME BotInv, [Next]_vars
               PROVE  state'.peak >= state.peak
    OBVIOUS
  <2>1. state.peak \in Nat
    BY DEF BotInv, TypeOK, Equity
  <2>2. CASE SaveState
    BY <2>2 DEF SaveState, BotInv, SavedState
  <2>3. CASE UNCHANGED state
    BY <2>1, <2>3
  <2> QED
    BY <2>2, <2>3 DEF Next, BuildBot, Candle, QuietCandle, Heartbeat, HardStopLoss, ExitSignal, EntrySignal, Call,
       ReportRunning, StartedEvent, HardStopEvent, RejectedEvent, EntryEvent, RecordTrade,
       Sell, Buy, ExitEvent, ExitEventTrips, ReportBroken, ReportFailed, Stop, Failure,
       Raises, DatabaseFails, Killed, SellUnconfirmed, BuyUnconfirmed, vars, dbVars
<1> QED  BY <1>1, BotInvariant, PTL DEF Spec, SavedPeakNeverFalls
=============================================================================
