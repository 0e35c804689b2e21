--------------------------------- MODULE Bot ---------------------------------
(***************************************************************************)
(* One bot (freqpanda_execution/bot.py): its process, the exchange account *)
(* it trades, and its rows in the database.  Every repository call commits *)
(* on its own, every order is a call to the exchange, and the process may  *)
(* end between any two of them; the supervisor then starts it again and    *)
(* build_bot resumes from the bot_state row.                               *)
(*                                                                         *)
(* A position is the lot that was bought: the quantity of a lot stands for *)
(* its identity.  Equity is counted in units of the smallest gain or loss, *)
(* fees being part of the gain of a trade, and highest_since_entry in      *)
(* steps above the price of the fill.  Whether a candle close brings an    *)
(* entry, an exit, a hard stop-loss or a higher high is the market's       *)
(* choice.                                                                 *)
(***************************************************************************)
EXTENDS Naturals, FiniteSets

CONSTANTS
    Lots,            \* positions that can be bought: a bound on the entries
    None,            \* no position
    Pending,         \* position the tracker opens before the order is filled
    InitialCapital,  \* bots.initial_capital
    MaxEquity,       \* bound on the equity a run reaches
    MaxHigh,         \* bound on how high the price gets above an entry
    DrawdownNum,     \* max_drawdown_pct = DrawdownNum / DrawdownDen
    DrawdownDen,
    MaxSells,        \* bound on the sells of one lot
    MaxCuts          \* bound on processes that end between order and save

ASSUME BotAssumption ==
    /\ None \notin Lots /\ Pending \notin Lots /\ None # Pending
    /\ InitialCapital \in Nat \ {0}
    /\ MaxEquity \in Nat /\ InitialCapital <= MaxEquity
    /\ MaxHigh \in Nat
    /\ DrawdownNum \in Nat /\ DrawdownDen \in Nat
    /\ 0 < DrawdownNum /\ DrawdownNum < DrawdownDen
    /\ MaxSells \in Nat /\ MaxCuts \in Nat

VARIABLES
    pc,         \* the next call of the process, or how it waits
    exit_code,  \* how the last process ended
    position,   \* tracker.position: the lot
    highest,    \* tracker.position.highest_since_entry, 0 without a position
    quantity,   \* current_quantity: the lot it is the quantity of, or None
    equity,     \* self.equity
    peak,       \* risk.peak_equity
    status,     \* bots.status
    state,      \* the bot_state row
    trades,     \* bot_trades: how many rows each lot has
    bought,     \* lots the exchange has bought for the bot
    sold,       \* how often the exchange has sold each lot
    cut,        \* lots whose order was not followed by its save
    cuts        \* how often a process has ended like that

memVars      == <<position, highest, quantity, equity, peak>>
dbVars       == <<status, state, trades>>
exchangeVars == <<bought, sold>>
vars == <<pc, exit_code, memVars, dbVars, exchangeVars, cut, cuts>>

NoState == [position |-> None, highest |-> 0, equity |-> 0, peak |-> 0]
Equity  == 0..MaxEquity
Highs   == 0..MaxHigh

(* dead: no process; report, started: run() before the feed; idle: waiting *)
(* for a candle; the others name the call the process makes next.          *)
Pcs == {"dead", "report", "started", "idle", "heartbeat", "hard_event", "sell", "record_trade",
        "exit_event", "buy", "rejected_event", "entry_event", "save",
        "circuit_broken", "failed"}

TypeOK ==
    /\ pc \in Pcs
    /\ exit_code \in {"none", "zero", "one", "killed"}
    /\ position \in Lots \cup {None, Pending}
    /\ highest \in Highs
    /\ quantity \in Lots \cup {None}
    /\ equity \in Equity /\ peak \in Equity
    /\ status \in {"stopped", "running", "error", "circuit_broken"}
    /\ state \in [position : Lots \cup {None}, highest : Highs, equity : Equity, peak : Equity]
    /\ trades \in [Lots -> 0..MaxSells]
    /\ bought \subseteq Lots
    /\ sold \in [Lots -> 0..MaxSells]
    /\ cut \subseteq bought
    /\ cuts \in 0..MaxCuts

Init ==
    /\ pc = "dead" /\ exit_code = "none"
    /\ position = None /\ highest = 0 /\ quantity = None
    /\ equity = InitialCapital /\ peak = InitialCapital
    /\ status = "stopped"
    /\ state = NoState
    /\ trades = [l \in Lots |-> 0]
    /\ bought = {}
    /\ sold = [l \in Lots |-> 0]
    /\ cut = {} /\ cuts = 0

(***************************************************************************)
(* Starting: build_bot, resume_from_state, and the first lines of run().   *)
(***************************************************************************)
(* Mutant: an open position is not resumed.                                *)
BuildBotForgets ==
    /\ pc = "dead"
    /\ pc' = "report"
    /\ position' = None /\ highest' = 0 /\ quantity' = None
    /\ IF state = NoState
       THEN equity' = InitialCapital /\ peak' = InitialCapital
       ELSE equity' = state.equity /\ peak' = state.peak
    /\ UNCHANGED <<exit_code, dbVars, exchangeVars, cut, cuts>>

BuildBot ==
    /\ pc = "dead"
    /\ pc' = "report"
    /\ IF state = NoState
       THEN /\ equity' = InitialCapital /\ peak' = InitialCapital
            /\ position' = None /\ highest' = 0 /\ quantity' = None
       ELSE /\ equity' = state.equity /\ peak' = state.peak
            /\ position' = state.position /\ highest' = state.highest
            /\ quantity' = state.position
    /\ UNCHANGED <<exit_code, dbVars, exchangeVars, cut, cuts>>

ReportRunning ==
    /\ pc = "report"
    /\ status' = "running"
    /\ pc' = "started"
    /\ UNCHANGED <<exit_code, memVars, state, trades, exchangeVars, cut, cuts>>

StartedEvent ==
    /\ pc = "started"
    /\ pc' = "save"
    /\ UNCHANGED <<exit_code, memVars, dbVars, exchangeVars, cut, cuts>>

(* _save_state: the end of the start and of every candle that traded.      *)
SaveState ==
    /\ pc = "save"
    /\ state' = [position |-> position, highest |-> highest, equity |-> equity, peak |-> peak]
    /\ pc' = "idle"
    /\ UNCHANGED <<exit_code, memVars, status, trades, exchangeVars, cut, cuts>>

(***************************************************************************)
(* A candle closes.                                                        *)
(***************************************************************************)
(* process finds nothing to do.  If it holds a position it has raised      *)
(* highest_since_entry, and what is written is a heartbeat, not the state. *)
QuietCandle(h) ==
    /\ pc = "idle"
    /\ IF position = None THEN h = highest ELSE h >= highest
    /\ highest' = h
    /\ pc' = "heartbeat"
    /\ UNCHANGED <<exit_code, position, quantity, equity, peak, dbVars, exchangeVars, cut, cuts>>

Heartbeat ==
    /\ pc = "heartbeat"
    /\ pc' = "idle"
    /\ UNCHANGED <<exit_code, memVars, dbVars, exchangeVars, cut, cuts>>

MaySell(l) == sold[l] < MaxSells

(* The hard stop-loss is checked first; the tracker keeps its position     *)
(* until the position is closed.                                           *)
HardStopLoss ==
    /\ pc = "idle" /\ position # None /\ MaySell(position)
    /\ pc' = "hard_event"
    /\ UNCHANGED <<exit_code, memVars, dbVars, exchangeVars, cut, cuts>>

HardStopEvent ==
    /\ pc = "hard_event"
    /\ pc' = "sell"
    /\ UNCHANGED <<exit_code, memVars, dbVars, exchangeVars, cut, cuts>>

(* tracker.process closes the position before the order is placed.         *)
ExitSignal ==
    /\ pc = "idle" /\ position # None /\ MaySell(position)
    /\ position' = None /\ highest' = 0
    /\ pc' = "sell"
    /\ UNCHANGED <<exit_code, quantity, equity, peak, dbVars, exchangeVars, cut, cuts>>

(* tracker.process opens the position before the order is placed; the risk *)
(* middleware then lets the order through or rejects it.                   *)
EntrySignal ==
    /\ pc = "idle" /\ position = None /\ bought # Lots
    /\ position' = Pending
    /\ pc' \in {"buy", "rejected_event"}
    /\ UNCHANGED <<exit_code, highest, quantity, equity, peak, dbVars, exchangeVars, cut, cuts>>

RejectedEvent ==
    /\ pc = "rejected_event"
    /\ position' = None /\ highest' = 0
    /\ pc' = "save"
    /\ UNCHANGED <<exit_code, quantity, equity, peak, dbVars, exchangeVars, cut, cuts>>

(***************************************************************************)
(* _execute_entry                                                          *)
(***************************************************************************)
Buy(l) ==
    /\ pc = "buy"
    /\ l \notin bought
    /\ bought' = bought \cup {l}
    /\ position' = l /\ highest' = 0 /\ quantity' = l
    /\ pc' = "entry_event"
    /\ UNCHANGED <<exit_code, equity, peak, dbVars, sold, cut, cuts>>

(* Mutant: the entry is not followed by a save.                            *)
EntryEventUnsaved ==
    /\ pc = "entry_event"
    /\ pc' = "idle"
    /\ UNCHANGED <<exit_code, memVars, dbVars, exchangeVars, cut, cuts>>

EntryEvent ==
    /\ pc = "entry_event"
    /\ pc' = "save"
    /\ UNCHANGED <<exit_code, memVars, dbVars, exchangeVars, cut, cuts>>

(***************************************************************************)
(* _close_position                                                         *)
(***************************************************************************)
Sell ==
    /\ pc = "sell"
    /\ sold' = [sold EXCEPT ![quantity] = @ + 1]
    /\ pc' = "record_trade"
    /\ UNCHANGED <<exit_code, memVars, dbVars, bought, cut, cuts>>

RecordTrade ==
    /\ pc = "record_trade"
    /\ trades' = [trades EXCEPT ![quantity] = @ + 1]
    /\ pc' = "exit_event"
    /\ UNCHANGED <<exit_code, memVars, status, state, exchangeVars, cut, cuts>>

(* RiskMiddleware.update_equity                                            *)
PeakWith(e) == IF e > peak THEN e ELSE peak
Tripped(e)  == (PeakWith(e) - e) * DrawdownDen >= DrawdownNum * PeakWith(e)

ProceedsOf(e) == e \in Equity \ {0} /\ equity <= e + 1 /\ e <= equity + 1

(* Mutant: a hard stop-loss leaves the tracker in its position.            *)
ExitEventStaysIn(e) ==
    /\ pc = "exit_event"
    /\ ProceedsOf(e) /\ ~Tripped(e)
    /\ equity' = e /\ peak' = PeakWith(e)
    /\ quantity' = position
    /\ pc' = "save"
    /\ UNCHANGED <<exit_code, position, highest, dbVars, exchangeVars, cut, cuts>>

(* The exit event is written, the proceeds become the equity, and the      *)
(* caller of _close_position clears the tracker and goes on to save ...    *)
ExitEvent(e) ==
    /\ pc = "exit_event"
    /\ ProceedsOf(e) /\ ~Tripped(e)
    /\ equity' = e /\ peak' = PeakWith(e)
    /\ quantity' = None /\ position' = None /\ highest' = 0
    /\ pc' = "save"
    /\ UNCHANGED <<exit_code, dbVars, exchangeVars, cut, cuts>>

(* ... unless the circuit breaker raises out of it, past the save.         *)
ExitEventTrips(e) ==
    /\ pc = "exit_event"
    /\ ProceedsOf(e) /\ Tripped(e)
    /\ equity' = e /\ peak' = PeakWith(e)
    /\ quantity' = None
    /\ pc' = "circuit_broken"
    /\ cut' = cut \cup {quantity}
    /\ UNCHANGED <<exit_code, position, highest, dbVars, exchangeVars, cuts>>

(***************************************************************************)
(* The ends of the process.                                                *)
(***************************************************************************)
Ends(code) == pc' = "dead" /\ exit_code' = code

(* The process is gone, and with it what it held in memory.                *)
Forgets ==
    /\ position' = None /\ highest' = 0 /\ quantity' = None
    /\ equity' = InitialCapital /\ peak' = InitialCapital

ReportBroken ==
    /\ pc = "circuit_broken"
    /\ status' = "circuit_broken"
    /\ Ends("zero") /\ Forgets
    /\ UNCHANGED <<state, trades, exchangeVars, cut, cuts>>

(* The feed returns between two candles because stop_event is set.         *)
Stop ==
    /\ pc = "idle"
    /\ status' = "stopped"
    /\ Ends("zero") /\ Forgets
    /\ UNCHANGED <<state, trades, exchangeVars, cut, cuts>>

(* The feed or an indicator raises, or the exchange refuses an order.      *)
Raises ==
    /\ pc \in {"idle", "buy", "sell"}
    /\ pc' = "failed"
    /\ UNCHANGED <<exit_code, memVars, dbVars, exchangeVars, cut, cuts>>

(* run() reports the exception and re-raises it: runner exits with 1.      *)
ReportFailed ==
    /\ pc = "failed"
    /\ status' = "error"
    /\ Ends("one") /\ Forgets
    /\ UNCHANGED <<state, trades, exchangeVars, cut, cuts>>

(* Between an order and the save that follows it.                          *)
Unsaved ==
    \/ pc \in {"entry_event", "record_trade", "exit_event"}
    \/ pc = "save" /\ state.position # position

(* The lot whose order the database does not know yet.                     *)
UnsavedLot == IF pc = "save" /\ position = None THEN state.position ELSE quantity

CutOff ==
    IF Unsaved
    THEN /\ cuts < MaxCuts
         /\ cuts' = cuts + 1
         /\ cut' = cut \cup {UnsavedLot}
    ELSE UNCHANGED <<cut, cuts>>

(* A statement fails.  The connection is lost or its transaction aborted,  *)
(* so the report run() tries on it fails too: runner exits with 1.         *)
DatabaseFails ==
    /\ pc \in Pcs \ {"dead", "buy", "sell"}
    /\ CutOff
    /\ Ends("one") /\ Forgets
    /\ UNCHANGED <<dbVars, exchangeVars>>

(* SIGKILL: after 30 s of waiting, with the container, or out of memory.   *)
Killed ==
    /\ pc # "dead"
    /\ CutOff
    /\ Ends("killed") /\ Forgets
    /\ UNCHANGED <<dbVars, exchangeVars>>

(* The exchange executes the order, and create_order raises or reports no  *)
(* price: the bot fails without knowing that it bought or sold.            *)
BuyUnconfirmed(l) ==
    /\ pc = "buy"
    /\ l \notin bought
    /\ cuts < MaxCuts /\ cuts' = cuts + 1
    /\ bought' = bought \cup {l}
    /\ cut' = cut \cup {l}
    /\ pc' = "failed"
    /\ UNCHANGED <<exit_code, memVars, dbVars, sold>>

SellUnconfirmed ==
    /\ pc = "sell"
    /\ cuts < MaxCuts /\ cuts' = cuts + 1
    /\ sold' = [sold EXCEPT ![quantity] = @ + 1]
    /\ cut' = cut \cup {quantity}
    /\ pc' = "failed"
    /\ UNCHANGED <<exit_code, memVars, dbVars, bought>>

-----------------------------------------------------------------------------
Candle == HardStopLoss \/ ExitSignal \/ EntrySignal \/ \E h \in Highs : QuietCandle(h)

Call ==
    \/ ReportRunning \/ StartedEvent \/ SaveState
    \/ Heartbeat \/ HardStopEvent \/ RejectedEvent \/ EntryEvent \/ RecordTrade \/ Sell
    \/ \E l \in Lots : Buy(l)
    \/ \E e \in Equity : ExitEvent(e) \/ ExitEventTrips(e)
    \/ ReportBroken \/ ReportFailed

Failure ==
    \/ Raises \/ DatabaseFails \/ Killed \/ SellUnconfirmed
    \/ \E l \in Lots : BuyUnconfirmed(l)

Next == BuildBot \/ Candle \/ Call \/ Stop \/ Failure

Spec == Init /\ [][Next]_vars

-----------------------------------------------------------------------------
Held == {l \in bought : sold[l] = 0}

(* A lot the bot or the database still knows of.                           *)
Known == {position, quantity, state.position}

(* A position is forgotten only if a process ended between its order and   *)
(* the save that follows: restarts at any other point lose nothing.        *)
NothingElseForgotten == Held \subseteq Known \cup cut

(* A lot is sold twice only if its first sale was not followed by a save.  *)
NothingElseSoldTwice == \A l \in Lots \ cut : sold[l] <= 1

(* Every sale has its trade row and every row its sale, except for the     *)
(* sale under way and those cut off.                                       *)
TradesMatchSales ==
    \A l \in Lots :
        /\ trades[l] <= sold[l]
        /\ l \notin cut /\ trades[l] < sold[l] => pc = "record_trade" /\ quantity = l

(* One position at a time: of the lots not cut off, at most one is held.   *)
OnePosition == \A k, l \in Held \ cut : k = l

(* Between two candles a restart resumes the lot, its quantity, the equity *)
(* and the peak; what it always forgets is how high the price was since    *)
(* the entry, for which the row has the price of the fill, so that the     *)
(* trailing stop starts again from there.                                  *)
IdleIsSavedButHighs ==
    pc = "idle" =>
        /\ state = [position |-> position, highest |-> 0, equity |-> equity, peak |-> peak]
        /\ quantity = position

(* The peak from which the drawdown is measured never falls, across any    *)
(* number of restarts.                                                     *)
SavedPeakNeverFalls == [][state'.peak >= state.peak]_vars

(* The strengthening: what the process, the database and the exchange know *)
(* of the lot in hand at each call.                                        *)
LotInHand ==
    /\ pc \in {"report", "started", "idle", "heartbeat"} => quantity = position /\ position = state.position
    /\ pc \in {"buy", "rejected_event"} =>
          position = Pending /\ quantity = None /\ state.position = None
    /\ pc = "entry_event" => quantity \in Held /\ position = quantity /\ state.position = None
    /\ pc \in {"hard_event", "sell", "record_trade", "exit_event"} =>
          /\ quantity \in Lots /\ quantity = state.position
          /\ position \in {None, quantity}
    /\ pc \in {"hard_event", "sell"} => MaySell(quantity)
    /\ pc = "record_trade" => trades[quantity] < sold[quantity]
    /\ pc \in {"record_trade", "exit_event"} => sold[quantity] > 0
    /\ pc = "save" =>
          /\ quantity = position
          /\ \/ position = state.position
             \/ position \in Held /\ state.position = None
             \/ position = None /\ sold[state.position] > 0
    /\ pc = "circuit_broken" => state.position \in cut

SavedState ==
    /\ pc \in {"idle", "heartbeat"} =>
          state = [position |-> position, highest |-> 0, equity |-> equity, peak |-> peak]
    /\ state.highest = 0
    /\ pc \in {"report", "started", "entry_event", "save"} => highest = 0
    /\ pc # "dead" => peak >= state.peak

(* Every lot whose orders were all followed by a save is either held and   *)
(* known, or sold once and out of the database, or in hand.                *)
UncutLots ==
    \A l \in Lots \ cut :
        /\ sold[l] > 0 => l \in bought
        /\ l \in Held => \/ l = state.position
                         \/ /\ pc \in {"entry_event", "save"} /\ l = quantity
                            /\ state.position = None
        /\ sold[l] > 0 /\ l = state.position =>
              pc \in {"record_trade", "exit_event"} \/ (pc = "save" /\ position = None)

BotInv ==
    /\ TypeOK
    /\ LotInHand
    /\ SavedState
    /\ UncutLots
    /\ NothingElseSoldTwice
    /\ TradesMatchSales
    /\ state.position \in bought \cup {None}

-----------------------------------------------------------------------------
(* State is saved after every candle close: when a process has ended by    *)
(* itself, the database does not show a position that was sold.            *)
CleanExitIsSaved ==
    pc = "dead" /\ exit_code = "zero" /\ state.position # None => sold[state.position] = 0
=============================================================================
