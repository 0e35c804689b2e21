------------------------------- MODULE Backtest -------------------------------
(***************************************************************************)
(* The loop of run_strategy (freqpanda_strategy/interpreter.py), a candle  *)
(* at a time: the trades a strategy would have made.                       *)
(*                                                                         *)
(* Whether the entry and exit conditions hold on a candle is part of it.   *)
(* Percentages are fractions of Den, and the prices of trades are in units *)
(* of 1 / Den, so that all of them are integers.                           *)
(***************************************************************************)
EXTENDS Integers

CONSTANTS
    Prices,
    Den,
    StopNum,   \* stop_loss_pct * Den
    TakeNum,   \* take_profit_pct * Den
    TrailNum,  \* trailing_stop_pct * Den; Den when it is None: no price is 0
    None

ASSUME BacktestAssumption ==
    /\ Prices \subseteq Nat \ {0}
    /\ Den \in Nat \ {0}
    /\ StopNum \in 0..Den /\ TakeNum \in Nat /\ TrailNum \in 0..Den

Candle ==
    {c \in [low : Prices, high : Prices, close : Prices, entry : BOOLEAN, exit : BOOLEAN] :
        c.low <= c.close /\ c.close <= c.high}

Position == [entry_price : Prices, highest : Prices]

(* What may be done on a candle, and for which price.                      *)
Actions ==
    [reason : {"enter", "stop_loss", "take_profit", "trailing_stop", "exit_signal",
               "hard_stop_loss"},
     price : Nat]

ASSUME NoneAssumption == None \notin Position \cup Actions

Higher(a, b) == IF a >= b THEN a ELSE b

StopLossPrice(p)     == p.entry_price * (Den - StopNum)
TakeProfitPrice(p)   == p.entry_price * (Den + TakeNum)
TrailingStopPrice(p) == p.highest * (Den - TrailNum)

VARIABLES
    bt,        \* the position of the loop, None if not in_position
    bt_action  \* what it did on the last candle: a trade opened, closed, or None

btVars == <<bt, bt_action>>

Act(reason, price) == [reason |-> reason, price |-> price]

BtInit == bt = None /\ bt_action = None

(* The first reason to exit, in the order of their priority.               *)
ExitOf(p, c) ==
    IF c.low * Den <= StopLossPrice(p)          THEN Act("stop_loss", StopLossPrice(p))
    ELSE IF c.high * Den >= TakeProfitPrice(p)  THEN Act("take_profit", TakeProfitPrice(p))
    ELSE IF c.low * Den <= TrailingStopPrice(p) THEN Act("trailing_stop", TrailingStopPrice(p))
    ELSE IF c.exit                              THEN Act("exit_signal", c.close * Den)
    ELSE None

BtEntry(c) ==
    /\ bt = None
    /\ \/ c.entry /\ bt' = [entry_price |-> c.close, highest |-> c.close]
                  /\ bt_action' = Act("enter", c.close * Den)
       \/ ~c.entry /\ bt' = None /\ bt_action' = None

BtHolding(c) ==
    /\ bt # None
    /\ LET p == [bt EXCEPT !.highest = Higher(@, c.high)]
       IN  /\ bt_action' = ExitOf(p, c)
           /\ bt' = IF ExitOf(p, c) = None THEN p ELSE None

BtCandle(c) == BtEntry(c) \/ BtHolding(c)
=============================================================================
