------------------------------ MODULE StrategyRun ------------------------------
(***************************************************************************)
(* backtest (freqpanda_backtest/backtest.py) of a definition over candles  *)
(* that come one after the other: what run_strategy makes of those so far, *)
(* the trades with their costs, the equity curve and its drawdown; next to *)
(* it latest_signal, for the rows a feed keeps, and an account that trades *)
(* candle by candle.                                                       *)
(*                                                                         *)
(* A state is the result over the rows so far, so that all of df is looked *)
(* at again with each row.  The loop is Backtest's, and sees the signals   *)
(* of a row as they are when it is the last: LatestIsBatch has that they   *)
(* stay so.                                                                *)
(***************************************************************************)
EXTENDS Backtest, Signals

CONSTANTS
    Definitions,     \* the definitions tried, valid or not
    MaxHistory,      \* max_history of a feed
    MaxCandles,      \* bound on df
    Capital,         \* initial_capital
    CostDen, FeeNum, SlipNum  \* fee_pct and slippage_pct are fractions of CostDen

ASSUME StrategyRunAssumption ==
    /\ MaxHistory \in Nat \ {0} /\ MaxCandles \in Nat /\ Capital \in Nat \ {0}
    /\ CostDen \in Nat \ {0} /\ FeeNum \in 0..CostDen - 1 /\ SlipNum \in 0..CostDen - 1
    \* A column of an indicator does not take the place of one of the candles.
    /\ \A d \in Definitions :
          /\ d.indicators \in Seq(Range(d.indicators))
          /\ \A i \in Range(d.indicators) :
                /\ \A name \in DOMAIN i.params : i.params[name] \in Int
                /\ i.name \in Registry => Outputs(i) \cap OHLCV = {}
          /\ \A tree \in Trees(d) : IsTree(tree)

VARIABLES
    definition, status, df,
    data,        \* df and the columns of the indicators
    told,        \* what latest_signal has said of each row
    entry_time,  \* of the position of the loop
    trades, trade_costs,
    curve,       \* equity_curve
    account      \* cash, quantity held and value after each candle

result == <<data, trades, trade_costs, curve>>
runVars == <<btVars, definition, status, df, result, told, entry_time, account>>

Bar == {c \in [low : Prices, high : Prices, close : Prices] : c.low <= c.close /\ c.close <= c.high}

RunInit ==
    /\ BtInit
    /\ definition \in Definitions /\ status = "new"
    /\ df = <<>> /\ data = Data(<<>>, <<>>) /\ told = <<>>
    /\ entry_time = 0 /\ trades = <<>> /\ trade_costs = <<>> /\ curve = <<>>
    /\ account = [cash |-> Capital, quantity |-> 0, values |-> <<>>]

Validate ==
    /\ status = "new"
    /\ status' = IF Valid(definition) THEN "running" ELSE "rejected"
    /\ UNCHANGED <<btVars, definition, df, result, told, entry_time, account>>

(* Validation looks at the names of parameters, not at their values.       *)
Computable == \A ind \in Range(definition.indicators) : ~Refused(ind)

IndicatorRaises ==
    /\ status = "running" /\ ~Computable
    /\ status' = "failed"
    /\ UNCHANGED <<btVars, definition, df, result, told, entry_time, account>>

-----------------------------------------------------------------------------
Conditions == {"entry_conditions", "exit_conditions"}

SignalsAt(columns, t) ==
    [c \in Conditions |-> c \in DOMAIN definition /\ Holds(definition[c], columns, t)]

(* What a feed keeps of its rows, with the newest.                         *)
Buffer(rows) == SubSeq(rows, Max({1, Len(rows) - MaxHistory + 1}), Len(rows))

LatestSignal(rows) == SignalsAt(Data(definition.indicators, rows), Len(rows))

(* costs.py and apply_costs_to_trades.  Prices of trades are in units of   *)
(* 1 / Den and those of fills in units of 1 / (Den * CostDen).             *)
EntryFill(price) == price * (CostDen + SlipNum)
ExitFill(price)  == price * (CostDen - SlipNum)
AfterFee(amount) == (amount * (CostDen - FeeNum)) \div CostDen
Quantity(equity, fill) == (equity * (CostDen - FeeNum) * Den) \div fill
Worth(quantity, fill)  == (quantity * fill) \div (Den * CostDen)

\* Quantities are whole, so that the capital has to buy one at least.
ASSUME CapitalAssumption == \A p \in Prices : Quantity(Capital, EntryFill(p * Den)) > 0

TradeCost(trade, equity) ==
    LET quantity == Quantity(equity, EntryFill(trade.entry_price))
    IN  [quantity |-> quantity, equity_before |-> equity,
         equity_after |-> AfterFee(Worth(quantity, ExitFill(trade.exit_price)))]

(* Mutant: every trade is made with the initial capital.                   *)
ApplyCostsAfresh(ts) == [k \in DOMAIN ts |-> TradeCost(ts[k], Capital)]
Compounded(ts) ==
    LET equity[k \in 0..Len(ts)] ==
            IF k = 0 THEN Capital ELSE TradeCost(ts[k], equity[k - 1]).equity_after
    IN  equity
ApplyCosts(ts) == [k \in DOMAIN ts |-> TradeCost(ts[k], Compounded(ts)[k - 1])]

(* build_equity_curve: what is written for each trade, from the cursor the *)
(* one before left on, and after the last; the later write stands.         *)
Cursor(ts, k) == IF k = 1 THEN 1 ELSE ts[k - 1].exit_time + 1
Flat(costs, k) == IF k = 1 THEN Capital ELSE costs[k - 1].equity_after

WrittenFor(rows, ts, k) ==
    IF k > Len(ts) THEN Cursor(ts, k)..Len(rows)
    ELSE (Cursor(ts, k)..ts[k].entry_time) \cup (ts[k].entry_time..ts[k].exit_time)

Written(rows, ts, costs, k, t) ==
    IF k > Len(ts) \/ t < ts[k].entry_time THEN Flat(costs, k)
    ELSE IF t = ts[k].exit_time THEN costs[k].equity_after
    ELSE IF t = ts[k].entry_time THEN Worth(costs[k].quantity, EntryFill(ts[k].entry_price))
    ELSE costs[k].quantity * rows[t].close

EquityCurve(rows, ts, costs) ==
    [t \in DOMAIN rows |->
        LET writes == {k \in 1..Len(ts) + 1 : t \in WrittenFor(rows, ts, k)}
        IN  IF writes = {} THEN NaN ELSE Written(rows, ts, costs, Max(writes), t)]

(* compute_drawdown: the first of equals, as idxmin and idxmax.            *)
(* Mutant: the trough is the lowest point, not that of the deepest fall.   *)
LowestPoint == Min({t \in DOMAIN curve : \A i \in DOMAIN curve : curve[t] <= curve[i]})

RunningMax(t) == Max({curve[i] : i \in 1..t})
Trough ==
    Min({t \in DOMAIN curve : \A i \in DOMAIN curve :
        (RunningMax(t) - curve[t]) * RunningMax(i) >= (RunningMax(i) - curve[i]) * RunningMax(t)})
Peak ==
    LET trough == Trough
    IN  Min({t \in 1..trough : \A i \in 1..trough : curve[t] >= curve[i]})
Recovered ==
    LET value == curve[Peak]
    IN  {t \in Trough..Len(curve) : curve[t] >= value}

(* compute_trade_stats: gross_profit and gross_loss.                       *)
Gross(sign) ==
    LET pnl_abs(k) == trade_costs[k].equity_after - trade_costs[k].equity_before
        sum[k \in 0..Len(trade_costs)] ==
            IF k = 0 THEN 0 ELSE sum[k - 1] + Max({0, sign * pnl_abs(k)})
    IN  sum[Len(trade_costs)]

-----------------------------------------------------------------------------
(* What an account has after a candle on which the loop entered, held,     *)
(* left or stayed out.                                                     *)
Account(bar) ==
    LET bought == Quantity(account.cash, EntryFill(bt_action'.price))
        sold == AfterFee(Worth(account.quantity, ExitFill(bt_action'.price)))
        Has(cash, quantity, value) ==
            [cash |-> cash, quantity |-> quantity, values |-> Append(account.values, value)]
    IN  IF bt = None /\ bt' # None
        THEN Has(account.cash, bought, Worth(bought, EntryFill(bt_action'.price)))
        ELSE IF bt # None /\ bt' = None THEN Has(sold, 0, sold)
        ELSE IF bt # None THEN Has(account.cash, account.quantity, account.quantity * bar.close)
        ELSE Has(account.cash, 0, account.cash)

(* The next row of df, and the loop of run_strategy over it.               *)
NextRow(bar) ==
    /\ status = "running" /\ Computable /\ Len(df) < MaxCandles
    /\ df' = Append(df, bar)
    /\ data' = Data(definition.indicators, df')
    /\ told' = Append(told, LatestSignal(Buffer(df')))
    /\ LET signals == SignalsAt(data', Len(df'))
       IN  BtCandle([low |-> bar.low, high |-> bar.high, close |-> bar.close,
                     entry |-> signals.entry_conditions, exit |-> signals.exit_conditions])
    /\ entry_time' = IF bt = None /\ bt' # None THEN Len(df') ELSE entry_time
    /\ trades' = IF bt # None /\ bt' = None
                 THEN Append(trades, [entry_time |-> entry_time, entry_price |-> bt.entry_price * Den,
                                      exit_time |-> Len(df'), exit_price |-> bt_action'.price])
                 ELSE trades
    /\ trade_costs' = ApplyCosts(trades')
    /\ curve' = EquityCurve(df', trades', trade_costs')
    /\ account' = Account(bar)
    /\ UNCHANGED <<definition, status>>

RunNext == Validate \/ IndicatorRaises \/ \E bar \in Bar : NextRow(bar)

RunSpec == RunInit /\ [][RunNext]_runVars
-----------------------------------------------------------------------------
Trade ==
    [entry_time : 1..MaxCandles, entry_price : Nat \ {0}, exit_time : 1..MaxCandles, exit_price : Nat]

(* Types; and whatever a valid definition fails of, it is not of a column  *)
(* that its conditions name and no indicator has made.                     *)
StrategyInv ==
    /\ bt \in Position \cup {None} /\ bt_action \in Actions \cup {None}
    /\ status \in {"new", "rejected", "running", "failed"}
    /\ df \in Seq(Bar) /\ trades \in Seq(Trade) /\ entry_time \in 0..Len(df)
    /\ status = "running" /\ Computable =>
          \A tree \in Trees(definition) :
              OperandRefs(tree) \subseteq DOMAIN Data(definition.indicators, df)

(* How many rows up to its own an operand looks at, and whether those that *)
(* a comparison looks at are among the rows a feed keeps.                  *)
Source(column) ==
    definition.indicators[
        Max({i \in DOMAIN definition.indicators : column \in Outputs(definition.indicators[i])})]
Looks(operand) ==
    IF ~IsRef(operand) \/ operand.ref \in OHLCV THEN 1
    ELSE LET ind == Source(operand.ref)
         IN  IF ind.name \in {"sma", "bbands"} THEN Max({1, Param(ind, "period", 20)})
             ELSE MaxHistory + 1
Remembered(cmp) ==
    \A operand \in {cmp.left, cmp.right} :
        Looks(operand) + (IF cmp.op \in {"crosses_above", "crosses_below"} THEN 1 ELSE 0) <= MaxHistory

(* For every row that has been the last, what a bot is told of it is what  *)
(* a backtest over all rows, later ones too, makes of it: if the rows that *)
(* the conditions look at are among those a feed keeps.  Indicators with   *)
(* an exponential mean look at all.                                        *)
LatestIsBatch ==
    status = "running" => \A c \in Conditions \cap DOMAIN definition :
        (\A cmp \in Comparisons(definition[c]) : Remembered(cmp)) =>
            \A t \in DOMAIN df : told[t][c] = SignalsAt(data, t)[c]

(* An account shows a position that is open as the cash before.            *)
MarkedValue(t) == IF bt # None /\ t >= entry_time THEN account.cash ELSE account.values[t]

(* The curve has what an account that trades candle by candle has, but for *)
(* a position that is still open, which it shows as the cash before; and   *)
(* it ends with the capital and what the trades gained.                    *)
CurveIsMarked ==
    /\ \A t \in DOMAIN df : curve[t] = MarkedValue(t)
    /\ df # <<>> => Last(curve) = Capital + Gross(1) - Gross(-1)

(* No fall from a candle to a later one is deeper than that from peak to   *)
(* trough, and there is nothing above the peak until the recovery.         *)
DrawdownIsWorst ==
    df # <<>> =>
        LET peak == Peak
            trough == Trough
        IN  /\ \A i \in DOMAIN df : \A t \in i..Len(df) :
                  (curve[i] - curve[t]) * curve[peak] <= (curve[peak] - curve[trough]) * curve[i]
            /\ \A t \in peak..Len(df) :
                  curve[t] > curve[peak] => \E r \in Recovered : r <= t

(* The inductive invariant.  The results are those of the rows so far; ... *)
ResultsOfRows ==
    /\ definition \in Definitions /\ Len(df) <= MaxCandles
    /\ status \in {"running", "failed"} => Valid(definition)
    /\ status = "failed" => ~Computable
    /\ df # <<>> =>
          /\ status = "running" /\ Computable
          /\ data = Data(definition.indicators, df)
          /\ trade_costs = ApplyCosts(trades)
          /\ curve = EquityCurve(df, trades, trade_costs)
    /\ told = [t \in DOMAIN df |-> LatestSignal(Buffer(SubSeq(df, 1, t)))]

(* ... trades come one after the other; ...                                *)
TradesInOrder ==
    /\ \A k \in DOMAIN trades : trades[k].entry_time < trades[k].exit_time /\ trades[k].exit_time <= Len(df)
    /\ \A j, k \in DOMAIN trades : j < k => trades[j].exit_time < trades[k].entry_time
    /\ bt # None => 1 <= entry_time /\ \A k \in DOMAIN trades : trades[k].exit_time < entry_time

(* ... the account has made them, and holds what the loop does; ...        *)
AccountInv ==
    /\ account \in [cash : Nat, quantity : Nat, values : Seq(Nat)]
    /\ Len(account.values) = Len(df)
    /\ account.cash = Compounded(trades)[Len(trades)]
    /\ bt # None =>
          /\ account.quantity = Quantity(account.cash, EntryFill(bt.entry_price * Den))
          /\ account.values[entry_time] = Worth(account.quantity, EntryFill(bt.entry_price * Den))
          /\ \A t \in entry_time + 1..Len(df) : account.values[t] = account.quantity * df[t].close
    /\ df # <<>> =>
          /\ MarkedValue(1) > 0
          /\ bt = None => Last(account.values) = account.cash

(* ... and each row is written, with the value that the account shows.     *)
RowsAreWritten ==
    \A t \in DOMAIN df :
        /\ \E k \in 1..Len(trades) + 1 : t \in WrittenFor(df, trades, k)
        /\ \A k \in 1..Len(trades) + 1 : t \in WrittenFor(df, trades, k) =>
              MarkedValue(t) = Written(df, trades, ApplyCosts(trades), k, t)

RunInv == StrategyInv /\ ResultsOfRows /\ TradesInOrder /\ AccountInv /\ RowsAreWritten
=============================================================================
