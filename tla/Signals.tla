-------------------------------- MODULE Signals --------------------------------
(***************************************************************************)
(* What a strategy definition says of a row of candles: its validation     *)
(* (schema.py, validation.py), the columns of its indicators               *)
(* (indicators.py, over the library ta, which is external) and its         *)
(* conditions (conditions.py) of freqpanda_strategy.                       *)
(*                                                                         *)
(* A series is a sequence with one number, or NaN, per row.  Numbers are   *)
(* integers in units of 1 / Scale and quotients are rounded down, where    *)
(* floats are rounded too.  A row has a low, a high and a close.           *)
(***************************************************************************)
EXTENDS Integers, Sequences, SequencesExt, FiniteSetsExt

CONSTANTS Scale, NaN

ASSUME SignalsAssumption == Scale \in Nat \ {0} /\ NaN \notin Int

OHLCV == {"low", "high", "close"}

-----------------------------------------------------------------------------
(* ta.  A rolling value needs a full window, ...                           *)
Rolling(series, window) ==
    [t \in DOMAIN series |->
        LET last == SubSeq(series, t - window + 1, t)
        IN  IF t < window \/ NaN \in Range(last) THEN <<>> ELSE last]

Mean(s) == IF s = <<>> THEN NaN ELSE FoldSeq(+, 0, s) \div Len(s)
Deviation(s) == (Max(Range(s)) - Min(Range(s))) \div 2

RollingMean(series, window) ==
    LET rows == Rolling(series, window) IN [t \in DOMAIN series |-> Mean(rows[t])]

(* ... and an exponential one remembers all there is: it begins with the   *)
(* first number, and shows after min_periods of them.                      *)
Ewm(series, over, under, min_periods) ==
    LET start == Min({t \in DOMAIN series : series[t] # NaN} \cup {Len(series) + 1})
        e[t \in start..Len(series)] ==
            IF t = start THEN series[t]
            ELSE (over * series[t] + (under - over) * e[t - 1]) \div under
    IN  [t \in DOMAIN series |-> IF t < start + min_periods - 1 THEN NaN ELSE e[t]]
Ema(series, window) == Ewm(series, 2, window + 1, window)

Minus(s, r) == [t \in DOMAIN s |-> IF NaN \in {s[t], r[t]} THEN NaN ELSE s[t] - r[t]]

Rsi(close, window) ==
    LET Moves(sign) == [t \in DOMAIN close |->
            IF t = 1 THEN 0 ELSE Max({0, sign * (close[t] - close[t - 1])})]
        up == Ewm(Moves(1), 1, window, window)
        down == Ewm(Moves(-1), 1, window, window)
    IN  [t \in DOMAIN close |->
            IF up[t] = NaN THEN NaN
            ELSE IF down[t] = 0 THEN 100 * Scale
            ELSE (100 * Scale * up[t]) \div (up[t] + down[t])]

-----------------------------------------------------------------------------
(* indicators.py.                                                          *)
Param(ind, name, default) == IF name \in DOMAIN ind.params THEN ind.params[name] ELSE default

ParamNames ==
    [rsi |-> {"period"}, ema |-> {"period"}, sma |-> {"period"},
     macd |-> {"fast_period", "slow_period", "signal_period"},
     bbands |-> {"period", "std_dev"}]
Registry == DOMAIN ParamNames

Outputs(ind) ==
    CASE ind.name = "macd"   -> {ind.alias \o s : s \in {"_macd", "_signal", "_hist"}}
      [] ind.name = "bbands" -> {ind.alias \o s : s \in {"_upper", "_middle", "_lower"}}
      [] OTHER               -> {ind.alias}

Macd(close, fast, slow, signal) ==
    LET macd == Minus(Ema(close, fast), Ema(close, slow))
        line == Ema(macd, signal)
    IN  [_macd |-> macd, _signal |-> line, _hist |-> Minus(macd, line)]

Bands(close, period, std_dev) ==
    LET rows == Rolling(close, period)
        Band(k) == [t \in DOMAIN close |->
            IF rows[t] = <<>> THEN NaN ELSE Mean(rows[t]) + k * std_dev * Deviation(rows[t])]
    IN  [_upper |-> Band(1), _middle |-> Band(0), _lower |-> Band(-1)]

WithAlias(alias, lines) ==
    [column \in {alias \o s : s \in DOMAIN lines} |->
        lines[CHOOSE s \in DOMAIN lines : alias \o s = column]]

Compute(ind, close) ==
    CASE ind.name = "rsi"    -> [column \in {ind.alias} |-> Rsi(close, Param(ind, "period", 14))]
      [] ind.name = "ema"    -> [column \in {ind.alias} |-> Ema(close, Param(ind, "period", 20))]
      [] ind.name = "sma"    -> [column \in {ind.alias} |-> RollingMean(close, Param(ind, "period", 20))]
      [] ind.name = "macd"   -> WithAlias(ind.alias,
            Macd(close, Param(ind, "fast_period", 12), Param(ind, "slow_period", 26),
                 Param(ind, "signal_period", 9)))
      [] ind.name = "bbands" -> WithAlias(ind.alias,
            Bands(close, Param(ind, "period", 20), Param(ind, "std_dev", 2)))

(* Windows of which ta, or pandas below it, raises: none of an exponential *)
(* mean may be less than 1, and of a rolling one, which is NaN over a      *)
(* window of 0, less than 0.  int() of the code is not modelled: periods   *)
(* are whole.                                                              *)
Refused(ind) ==
    \E name \in ParamNames[ind.name] \ {"std_dev"} :
        Param(ind, name, 1) < IF ind.name \in {"sma", "bbands"} THEN 0 ELSE 1

(* compute_indicators: a column is what the last to assign it made it.  No *)
(* indicator assigns one of the candles (StrategyRunAssumption), so all    *)
(* see the same close.                                                     *)
CandleColumn(df, column) == [t \in DOMAIN df |-> Scale * df[t][column]]
Data(indicators, df) ==
    LET results == [i \in DOMAIN indicators |-> Compute(indicators[i], CandleColumn(df, "close"))]
        Assigning(column) == {i \in DOMAIN results : column \in DOMAIN results[i]}
    IN  [column \in OHLCV \cup UNION {DOMAIN results[i] : i \in DOMAIN results} |->
            IF Assigning(column) = {} THEN CandleColumn(df, column)
            ELSE results[Max(Assigning(column))][column]]

-----------------------------------------------------------------------------
(* conditions.py.  A condition tree is the sequence of its nodes, in the   *)
(* order in which evaluate_condition has their results: the conditions of  *)
(* a Logical, given by their positions, before it, and the root last.      *)
IsTree(tree) ==
    \A i \in DOMAIN tree : tree[i].type = "logical" =>
        Range(tree[i].conditions) \subseteq 1..i - 1

Comparisons(tree) == {tree[i] : i \in {j \in DOMAIN tree : tree[j].type = "comparison"}}

(* An operand is a number or the name of a column.                         *)
IsRef(operand) == "ref" \in DOMAIN operand
Column(operand, data, t) ==
    IF t \notin DOMAIN data["close"] THEN NaN
    ELSE IF IsRef(operand) THEN data[operand.ref][t] ELSE Scale * operand.value

(* shift(1).  Mutant: shift(-1).                                           *)
ShiftBack(t) == t + 1
Shift(t) == t - 1

(* Nothing compares with NaN, so that it is unequal to all.                *)
ApplyOp(op, left, right, left_before, right_before) ==
    LET Number == NaN \notin {left, right}
        Both == Number /\ NaN \notin {left_before, right_before}
    IN  \/ op = "gt"  /\ Number /\ left > right
        \/ op = "gte" /\ Number /\ left >= right
        \/ op = "lt"  /\ Number /\ left < right
        \/ op = "lte" /\ Number /\ left <= right
        \/ op = "eq"  /\ Number /\ left = right
        \/ op = "ne"  /\ ~(Number /\ left = right)
        \/ op = "crosses_above" /\ Both /\ left_before <= right_before /\ left > right
        \/ op = "crosses_below" /\ Both /\ left_before >= right_before /\ left < right

Compare(cmp, data, t) ==
    ApplyOp(cmp.op, Column(cmp.left, data, t), Column(cmp.right, data, t),
            Column(cmp.left, data, Shift(t)), Column(cmp.right, data, Shift(t)))

(* The root's result, from those of the comparisons.                       *)
Evaluate(tree, compared) ==
    LET result[i \in DOMAIN tree] ==
            LET node == tree[i]
                results == {result[j] : j \in Range(node.conditions)}
            IN  IF node.type = "comparison" THEN compared[i]
                ELSE CASE node.op = "and" -> FALSE \notin results
                       [] node.op = "or"  -> TRUE \in results
                       [] node.op = "not" -> ~result[node.conditions[1]]
    IN  result[Len(tree)]

Holds(tree, data, t) ==
    Evaluate(tree, [i \in DOMAIN tree |-> tree[i].type = "comparison" /\ Compare(tree[i], data, t)])

-----------------------------------------------------------------------------
(* validation.py, and what schema.py refuses.                              *)
OperandRefs(tree) ==
    LET operands == UNION {{c.left, c.right} : c \in Comparisons(tree)}
    IN  {o.ref : o \in {operand \in operands : IsRef(operand)}}

AvailableColumns(definition) ==
    OHLCV \cup UNION {Outputs(ind) : ind \in {i \in Range(definition.indicators) : i.name \in Registry}}

UniqueAliases(definition) ==
    \A i, j \in DOMAIN definition.indicators :
        definition.indicators[i].alias = definition.indicators[j].alias => i = j

(* There need not be exit conditions.                                      *)
Trees(definition) == {definition[f] : f \in DOMAIN definition \cap {"entry_conditions", "exit_conditions"}}

(* Mutant: exit conditions are not looked at.                              *)
ValidEntry(definition) ==
    /\ UniqueAliases(definition)
    /\ \A ind \in Range(definition.indicators) :
          ind.name \in Registry /\ DOMAIN ind.params \subseteq ParamNames[ind.name]
    /\ OperandRefs(definition.entry_conditions) \subseteq AvailableColumns(definition)
Valid(definition) ==
    /\ UniqueAliases(definition)
    /\ \A ind \in Range(definition.indicators) :
          ind.name \in Registry /\ DOMAIN ind.params \subseteq ParamNames[ind.name]
    /\ \A tree \in Trees(definition) : OperandRefs(tree) \subseteq AvailableColumns(definition)
=============================================================================
