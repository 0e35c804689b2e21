--------------------------------- MODULE Live ---------------------------------
(***************************************************************************)
(* The decisions of a bot (LivePositionTracker.process and what            *)
(* Bot._on_candle_close does around it) next to those of run_strategy over *)
(* the same candles: the bot should trade what was backtested.             *)
(*                                                                         *)
(* Orders may be rejected or filled at another price, and the process may  *)
(* be restarted, with candles it never sees or sees again.  That a process *)
(* may end inside the handler is left to Bot.                              *)
(***************************************************************************)
EXTENDS Backtest

CONSTANT MaxFaults  \* bound on what keeps a bot from trading as backtested

ASSUME LiveAssumption == MaxFaults \in Nat

VARIABLES
    position,   \* tracker.position
    saved,      \* position of the bot_state row
    action,     \* what the bot did on the last candle
    restarted,  \* the process was restarted since it entered
    apart,      \* since both were last flat, a candle or an order of the bot was not that
                \* of run_strategy, or run_strategy closed a trade that the bot did not
    faults

liveVars == <<position, saved, action>>
vars == <<btVars, liveVars, restarted, apart, faults>>

TypeOK ==
    /\ bt \in Position \cup {None} /\ bt_action \in Actions \cup {None}
    /\ position \in Position \cup {None} /\ saved \in Position \cup {None}
    /\ action \in Actions \cup {None}
    /\ restarted \in BOOLEAN /\ apart \in BOOLEAN
    /\ faults \in 0..MaxFaults

Init ==
    /\ BtInit
    /\ position = None /\ saved = None /\ action = None
    /\ restarted = FALSE /\ apart = FALSE /\ faults = 0

Fault == faults < MaxFaults /\ faults' = faults + 1

(***************************************************************************)
(* _on_candle_close.                                                       *)
(***************************************************************************)
(* _close_position and _save_state.                                        *)
Close(reason, price) ==
    /\ action' = Act(reason, price)
    /\ position' = None /\ saved' = None

HardStopHit(c) ==
    position # None /\ c.close * Den <= position.entry_price * (Den - StopNum)

HardStopLoss(c) == HardStopHit(c) /\ Close("hard_stop_loss", c.close * Den)

(* process: not while flat, and past the hard stop-loss.                   *)
Watched(c) == [position EXCEPT !.highest = Higher(@, c.high)]

Holding(c) == position # None /\ ~HardStopHit(c)

HitsStop(c)  == c.low * Den <= StopLossPrice(Watched(c))
HitsTake(c)  == c.high * Den >= TakeProfitPrice(Watched(c))
(* Mutant: the trailing stop follows the high before this candle.          *)
HitsTrailOld(c) == c.low * Den <= TrailingStopPrice(position)
HitsTrail(c) == c.low * Den <= TrailingStopPrice(Watched(c))

StopLoss(c) ==
    /\ Holding(c) /\ HitsStop(c)
    /\ Close("stop_loss", StopLossPrice(Watched(c)))

TakeProfit(c) ==
    /\ Holding(c) /\ ~HitsStop(c) /\ HitsTake(c)
    /\ Close("take_profit", TakeProfitPrice(Watched(c)))

TrailingStop(c) ==
    /\ Holding(c) /\ ~HitsStop(c) /\ ~HitsTake(c) /\ HitsTrail(c)
    /\ Close("trailing_stop", TrailingStopPrice(Watched(c)))

ExitSignal(c) ==
    /\ Holding(c) /\ ~HitsStop(c) /\ ~HitsTake(c) /\ ~HitsTrail(c) /\ c.exit
    /\ Close("exit_signal", c.close * Den)

(* No action: a heartbeat, and the state is not saved.                     *)
Hold(c) ==
    /\ Holding(c) /\ ~HitsStop(c) /\ ~HitsTake(c) /\ ~HitsTrail(c) /\ ~c.exit
    /\ position' = Watched(c)
    /\ action' = None
    /\ UNCHANGED saved

StayOut(c) ==
    /\ position = None /\ ~c.entry
    /\ action' = None
    /\ UNCHANGED <<position, saved>>

(* The position takes the price of the fill.                               *)
Enter(c, fill) ==
    /\ position = None /\ c.entry
    /\ position' = [entry_price |-> fill, highest |-> fill]
    /\ saved' = position'
    /\ action' = Act("enter", c.close * Den)

(* check_order rejects: the position that process opened is taken back.    *)
Rejected(c) ==
    /\ position = None /\ c.entry
    /\ UNCHANGED position
    /\ saved' = position'
    /\ action' = None

AsBacktested(c) ==
    \/ HardStopLoss(c) \/ StopLoss(c) \/ TakeProfit(c) \/ TrailingStop(c) \/ ExitSignal(c)
    \/ Hold(c) \/ StayOut(c) \/ Enter(c, c.close)

NotAsBacktested(c) == Rejected(c) \/ \E fill \in Prices : Enter(c, fill)

(***************************************************************************)
(* resume_from_state in a new process.                                     *)
(***************************************************************************)
(* Mutant: the position is not restored.                                   *)
RestartAnew ==
    /\ Fault
    /\ position' = None
    /\ action' = None
    /\ restarted' = (position # None)
    /\ UNCHANGED <<btVars, saved, apart>>

Restart ==
    /\ Fault
    /\ position' = saved
    /\ action' = None
    /\ restarted' = (position # None)
    /\ UNCHANGED <<btVars, saved, apart>>

-----------------------------------------------------------------------------
BothFlat == bt = None /\ position = None

KeepsRestarted == restarted' = (restarted /\ position' # None)

(* A candle closes for both; ...                                           *)
CandleCloses(c) ==
    /\ BtCandle(c) /\ AsBacktested(c)
    /\ KeepsRestarted
    /\ apart' = (~BothFlat' /\ (apart \/ bt' = None))
    /\ UNCHANGED faults

(* ... and the order of the bot is rejected, or filled at another price.   *)
OrderDiffers(c) ==
    /\ Fault
    /\ BtCandle(c) /\ NotAsBacktested(c)
    /\ KeepsRestarted
    /\ apart' = ~BothFlat'

(* A candle closes while the process is down, or before it is stored and   *)
(* after a new process took its history from the table.                    *)
CandleMissed(c) ==
    /\ Fault
    /\ BtCandle(c) /\ UNCHANGED <<liveVars, restarted>>
    /\ apart' = ~BothFlat'

(* The candles stored are older than those the process before has seen.    *)
CandleSeenAgain(c) ==
    /\ Fault
    /\ AsBacktested(c) \/ NotAsBacktested(c)
    /\ KeepsRestarted
    /\ UNCHANGED btVars
    /\ apart' = ~BothFlat'

Next ==
    \/ \E c \in Candle :
          CandleCloses(c) \/ OrderDiffers(c) \/ CandleMissed(c) \/ CandleSeenAgain(c)
    \/ Restart

Spec == Init /\ [][Next]_vars

-----------------------------------------------------------------------------
(* The bot holds what run_strategy holds, as long as their candles and     *)
(* orders are the same and however often the process is restarted; it may  *)
(* have forgotten how high the price was.  They are in step again as soon  *)
(* as both are flat.                                                       *)
InStep ==
    ~apart =>
        /\ bt = None <=> position = None
        /\ bt # None =>
              /\ position.entry_price = bt.entry_price
              /\ position.highest <= bt.highest
              /\ ~restarted => position.highest = bt.highest

(* "the exact same trade list": on a candle both see, the bot does what    *)
(* run_strategy does.  But it may sell for less where run_strategy stops   *)
(* out, and after a restart its trailing stop may be lower.                *)
SameTrades ==
    [][~apart /\ faults' = faults =>
        \/ action' = bt_action'
        \/ /\ action' # None /\ action'.reason = "hard_stop_loss"
           /\ bt_action'.reason = "stop_loss" /\ action'.price <= bt_action'.price
        \/ restarted /\ bt_action' # None /\ bt_action'.reason = "trailing_stop"]_vars

(* The inductive invariant: the row has the entry of the position.         *)
SavedEntry ==
    /\ saved = None <=> position = None
    /\ position # None =>
          saved.entry_price = position.entry_price /\ saved.highest <= position.highest

LiveInv == TypeOK /\ InStep /\ SavedEntry
=============================================================================
