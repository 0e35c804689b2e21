------------------------------ MODULE Strategy_proof ----------------------------
(***************************************************************************)
(* A result of backtest is that of its rows, and of an account that trades *)
(* them candle by candle (StrategyRun); and a bot whose candles and orders *)
(* are those of the backtest holds what run_strategy holds (Live).         *)
(***************************************************************************)
EXTENDS Live, StrategyRun, TLAPS, SequenceTheorems, WellFoundedInduction

USE BacktestAssumption, NoneAssumption

(* Prices are compared with levels times Den.                              *)
LEMMA Monotone == \A a, b, d \in Nat : a <= b => a * d <= b * d
BY SMT

(* Prices are natural numbers, and so are the numbers they are scaled by.  *)
LEMMA Numbers ==
    /\ \A x \in Prices : x \in Nat
    /\ Den \in Nat /\ Den - StopNum \in Nat /\ Den - TrailNum \in Nat /\ Den + TakeNum \in Nat
BY DEF BacktestAssumption

(* Prices times Den, and the levels of a position, are numbers.            *)
LEMMA ScaledPrices ==
    /\ \A x \in Prices : x * Den \in Nat
    /\ \A p \in Position :
          /\ StopLossPrice(p) \in Nat /\ TakeProfitPrice(p) \in Nat
          /\ TrailingStopPrice(p) \in Nat
<1>1. \A a, b \in Nat : a * b \in Nat
  BY SMT
<1>2. ASSUME NEW x \in Prices
      PROVE  x * Den \in Nat
  BY <1>1, Numbers
<1>3. ASSUME NEW p \in Position
      PROVE  /\ StopLossPrice(p) \in Nat /\ TakeProfitPrice(p) \in Nat
             /\ TrailingStopPrice(p) \in Nat
  <2>1. p.entry_price \in Nat /\ p.highest \in Nat
    BY Numbers DEF Position
  <2>2. /\ p.entry_price * (Den - StopNum) \in Nat /\ p.entry_price * (Den + TakeNum) \in Nat
        /\ p.highest * (Den - TrailNum) \in Nat
    <3> HIDE BacktestAssumption
    <3> QED BY <1>1, <2>1, Numbers
  <2> QED BY <2>2 DEF StopLossPrice, TakeProfitPrice, TrailingStopPrice
<1> QED BY <1>2, <1>3

(* The higher of two prices is a price.                                    *)
LEMMA HigherIs ==
    ASSUME NEW a \in Prices, NEW b \in Prices
    PROVE  /\ Higher(a, b) \in Prices /\ Higher(a, b) >= a
           /\ \A z \in Prices : z <= a => Higher(z, b) <= Higher(a, b)
BY Numbers DEF Higher

(* What run_strategy does on a candle has the types it should.             *)
LEMMA BtType ==
    ASSUME NEW c \in Candle, bt \in Position \cup {None}, BtCandle(c)
    PROVE  bt' \in Position \cup {None} /\ bt_action' \in Actions \cup {None}
<1>1. c.close \in Prices /\ c.high \in Prices /\ c.low \in Prices
  BY DEF Candle
<1>2. CASE BtEntry(c)
  <2>1. c.close * Den \in Nat
    BY <1>1, ScaledPrices
  <2> QED BY <1>1, <1>2, <2>1 DEF BtEntry, Position, Actions, Act
<1>3. CASE BtHolding(c)
  <2> DEFINE p == [bt EXCEPT !.highest = Higher(@, c.high)]
  <2>1. bt \in Position /\ bt_action' = ExitOf(p, c) /\ bt' = IF ExitOf(p, c) = None THEN p ELSE None
    BY <1>3 DEF BtHolding
  <2>2. p \in Position
    BY <1>1, <2>1, HigherIs DEF Position
  <2> HIDE DEF p
  <2>3. /\ c.close * Den \in Nat
        /\ StopLossPrice(p) \in Nat /\ TakeProfitPrice(p) \in Nat /\ TrailingStopPrice(p) \in Nat
    BY <1>1, <2>2, ScaledPrices
  <2>4. ExitOf(p, c) \in Actions \cup {None}
    BY <2>3 DEF ExitOf, Actions, Act
  <2> QED BY <2>1, <2>2, <2>4
<1> QED BY <1>2, <1>3 DEF BtCandle

-----------------------------------------------------------------------------

(* Induction up to a number, over the set of those for which it holds: its *)
(* least counterexample has a predecessor.                                 *)
LEMMA InductionUpTo ==
    ASSUME NEW n \in Nat, NEW T, 0 \in T, \A k \in 1..n : k - 1 \in T => k \in T
    PROVE  \A k \in 0..n : k \in T
<1> DEFINE Bad == (0..n) \ T
<1> SUFFICES ASSUME Bad # {} PROVE FALSE
  OBVIOUS
<1>0. Bad \subseteq Nat
  OBVIOUS
<1>1. PICK m \in Bad : \A i \in Bad : ~ (<<i, m>> \in OpToRel(<, Nat))
  <2> HIDE DEF Bad
  <2> QED BY <1>0, WFMin, NatLessThanWellFounded
<1>2. m \in 1..n /\ m - 1 \in Nat /\ m - 1 \in 0..n /\ m \in Nat /\ m - 1 < m
  OBVIOUS
<1>3. <<m - 1, m>> \in OpToRel(<, Nat)
  BY <1>2 DEF OpToRel
<1> QED BY <1>1, <1>2, <1>3

(* The least of some numbers.                                              *)
LEMMA MinIs ==
    ASSUME NEW S, S \subseteq Nat, S # {}
    PROVE  Min(S) \in S /\ \A i \in S : Min(S) <= i
<1>1. PICK m \in S : \A i \in S : ~ (<<i, m>> \in OpToRel(<, Nat))
  BY WFMin, NatLessThanWellFounded
<1>2. ASSUME NEW i \in S
      PROVE  m <= i
  <2>1. i \in Nat /\ m \in Nat
    OBVIOUS
  <2>2. ~(i < m)
    BY <1>1, <2>1 DEF OpToRel
  <2> QED BY <2>1, <2>2
<1> QED BY <1>1, <1>2 DEF Min

(* And the greatest, of numbers that are bounded.                          *)
LEMMA MaxIs ==
    ASSUME NEW n \in Nat, NEW S, S \subseteq 0..n, S # {}
    PROVE  Max(S) \in S /\ \A i \in S : i <= Max(S)
<1> DEFINE Below == {n - i : i \in S}
<1>0. \A i \in S : i \in Nat /\ i <= n
  OBVIOUS
<1>1. Below \subseteq Nat /\ Below # {}
  <2>1. ASSUME NEW i \in S
        PROVE  n - i \in Nat
    BY <1>0
  <2> QED BY <2>1
<1>2. PICK m \in S : Min(Below) = n - m
  BY <1>1, MinIs
<1>3. ASSUME NEW i \in S
      PROVE  m >= i
  <2>1. n - i \in Below /\ i \in Nat /\ m \in Nat
    OBVIOUS
  <2>2. n - m <= n - i
    BY <1>1, <1>2, <2>1, MinIs
  <2> QED BY <2>1, <2>2
<1> QED BY <1>2, <1>3 DEF Max

(* The greatest of two.                                                    *)
LEMMA MaxOfTwo ==
    ASSUME NEW a \in Int, NEW b \in Int
    PROVE  Max({a, b}) = IF a >= b THEN a ELSE b
BY DEF Max

(* ... one of which is 1.                                                  *)
LEMMA MaxWithOne ==
    ASSUME NEW w \in Nat
    PROVE  Max({1, w}) = (IF 1 >= w THEN 1 ELSE w) /\ Max({1, w}) \in Nat
<1>1. 1 \in Int /\ w \in Int
  OBVIOUS
<1>2. Max({1, w}) = IF 1 >= w THEN 1 ELSE w
  BY <1>1, MaxOfTwo
<1> QED BY <1>2

(* Products of numbers are numbers, and of positive ones positive.         *)
LEMMA Products ==
    /\ \A a, b \in Nat : a * b \in Nat
    /\ \A a, b \in Nat \ {0} : a * b \in Nat \ {0}
BY SMT

-----------------------------------------------------------------------------
(* What the schema and validation leave of the indicators of a definition. *)
Usable(indicators) ==
    /\ indicators \in Seq(Range(indicators))
    /\ \A i \in DOMAIN indicators :
          /\ indicators[i].name \in Registry /\ Outputs(indicators[i]) \cap OHLCV = {}
          /\ \A name \in DOMAIN indicators[i].params : indicators[i].params[name] \in Int

(* And ta of their windows.                                                *)
Accepted(indicators) == Usable(indicators) /\ \A i \in DOMAIN indicators : ~Refused(indicators[i])

ColumnsOf(indicators) == OHLCV \cup UNION {Outputs(indicators[i]) : i \in DOMAIN indicators}

LastAssigning(indicators, column) ==
    Max({i \in DOMAIN indicators : column \in Outputs(indicators[i])})

(* The columns that an indicator is computed into are those it declares,   *)
(* whatever the candles are.                                               *)
LEMMA ComputedAsDeclared ==
    ASSUME NEW ind, NEW close, ind.name \in Registry
    PROVE  DOMAIN Compute(ind, close) = Outputs(ind)
<1>1. ind.name \in {"rsi", "ema", "sma", "macd", "bbands"}
  BY DEF Registry, ParamNames
<1>2. CASE ind.name \in {"rsi", "ema", "sma"}
  BY <1>2 DEF Compute, Outputs
<1>3. CASE ind.name = "macd"
  <2>1. ASSUME NEW fast, NEW slow, NEW signal
        PROVE  DOMAIN Macd(close, fast, slow, signal) = {"_macd", "_signal", "_hist"}
    BY DEF Macd
  <2> QED BY <1>3, <2>1 DEF Compute, Outputs, WithAlias
<1>4. CASE ind.name = "bbands"
  <2>1. ASSUME NEW period, NEW std_dev
        PROVE  DOMAIN Bands(close, period, std_dev) = {"_upper", "_middle", "_lower"}
    BY DEF Bands
  <2> QED BY <1>4, <2>1 DEF Compute, Outputs, WithAlias
<1> QED BY <1>1, <1>2, <1>3, <1>4

(* compute_indicators leaves the candles as they are and adds, for every   *)
(* column declared, what the last indicator to declare it makes of them.   *)
LEMMA DataIs ==
    ASSUME NEW indicators, NEW rows, Usable(indicators)
    PROVE  /\ DOMAIN Data(indicators, rows) = ColumnsOf(indicators)
           /\ \A column \in OHLCV : Data(indicators, rows)[column] = CandleColumn(rows, column)
           /\ \A column \in ColumnsOf(indicators) \ OHLCV :
                 /\ LastAssigning(indicators, column) \in DOMAIN indicators
                 /\ column \in Outputs(indicators[LastAssigning(indicators, column)])
                 /\ Data(indicators, rows)[column] =
                       Compute(indicators[LastAssigning(indicators, column)],
                               CandleColumn(rows, "close"))[column]
<1> DEFINE results == [i \in DOMAIN indicators |-> Compute(indicators[i], CandleColumn(rows, "close"))]
           Assigning(column) == {i \in DOMAIN indicators : column \in Outputs(indicators[i])}
<1>1. /\ DOMAIN results = DOMAIN indicators
      /\ \A i \in DOMAIN indicators : DOMAIN results[i] = Outputs(indicators[i])
  BY ComputedAsDeclared DEF Usable
<1>2. \A column : {i \in DOMAIN results : column \in DOMAIN results[i]} = Assigning(column)
  BY <1>1
<1>3. {DOMAIN results[i] : i \in DOMAIN results} = {Outputs(indicators[i]) : i \in DOMAIN indicators}
  BY <1>1
<1>4. Data(indicators, rows) =
        [column \in ColumnsOf(indicators) |->
            IF Assigning(column) = {} THEN CandleColumn(rows, column)
            ELSE results[Max(Assigning(column))][column]]
  <2> HIDE DEF results, Assigning
  <2>1. Data(indicators, rows) =
          [column \in OHLCV \cup UNION {DOMAIN results[i] : i \in DOMAIN results} |->
            IF {i \in DOMAIN results : column \in DOMAIN results[i]} = {} THEN CandleColumn(rows, column)
            ELSE results[Max({i \in DOMAIN results : column \in DOMAIN results[i]})][column]]
    BY DEF Data, results
  <2> QED BY <1>2, <1>3, <2>1 DEF ColumnsOf
<1>5. ASSUME NEW column \in OHLCV
      PROVE  Assigning(column) = {}
  BY DEF Usable
<1>6. ASSUME NEW column \in ColumnsOf(indicators) \ OHLCV
      PROVE  Assigning(column) # {} /\ Max(Assigning(column)) \in Assigning(column)
  <2>1. Assigning(column) # {}
    BY DEF ColumnsOf
  <2>2. DOMAIN indicators = 1..Len(indicators) /\ Len(indicators) \in Nat
    BY DEF Usable
  <2>3. Assigning(column) \subseteq 0..Len(indicators)
    BY <2>2
  <2> HIDE DEF Assigning
  <2> QED BY <2>1, <2>2, <2>3, MaxIs
<1>7. OHLCV \subseteq ColumnsOf(indicators)
  BY DEF ColumnsOf
<1>8. \A column \in OHLCV : Data(indicators, rows)[column] = CandleColumn(rows, column)
  BY <1>4, <1>5, <1>7
<1>9. ASSUME NEW column \in ColumnsOf(indicators) \ OHLCV
      PROVE  /\ LastAssigning(indicators, column) \in DOMAIN indicators
             /\ column \in Outputs(indicators[LastAssigning(indicators, column)])
             /\ Data(indicators, rows)[column] =
                   Compute(indicators[LastAssigning(indicators, column)],
                           CandleColumn(rows, "close"))[column]
  <2>1. Max(Assigning(column)) = LastAssigning(indicators, column)
    BY DEF LastAssigning
  <2>2. LastAssigning(indicators, column) \in Assigning(column)
    BY <1>6, <2>1
  <2>3. Data(indicators, rows)[column] = results[LastAssigning(indicators, column)][column]
    BY <1>4, <1>6, <2>1
  <2> QED BY <2>2, <2>3
<1> QED BY <1>4, <1>8, <1>9

(* A valid definition names no column that is not computed.                *)
LEMMA ValidIsUsable ==
    ASSUME definition \in Definitions, Valid(definition)
    PROVE  /\ Usable(definition.indicators)
           /\ \A tree \in Trees(definition) :
                 IsTree(tree) /\ OperandRefs(tree) \subseteq ColumnsOf(definition.indicators)
<1>1. Usable(definition.indicators)
  <2>1. definition.indicators \in Seq(Range(definition.indicators))
    BY StrategyRunAssumption
  <2>2. ASSUME NEW i \in DOMAIN definition.indicators
        PROVE  /\ definition.indicators[i].name \in Registry
               /\ Outputs(definition.indicators[i]) \cap OHLCV = {}
               /\ \A name \in DOMAIN definition.indicators[i].params :
                     definition.indicators[i].params[name] \in Int
    <3>1. definition.indicators[i] \in Range(definition.indicators)
      BY DEF Range
    <3> QED BY <3>1, StrategyRunAssumption DEF Valid
  <2> QED BY <2>1, <2>2 DEF Usable
<1>2. AvailableColumns(definition) \subseteq ColumnsOf(definition.indicators)
  BY DEF AvailableColumns, ColumnsOf, Range
<1> QED BY <1>1, <1>2, StrategyRunAssumption DEF Valid

-----------------------------------------------------------------------------
(* Some rows in a row, the first d of all left out.                        *)
Aligned(short, long, d) ==
    /\ d \in Nat /\ Len(short) + d <= Len(long)
    /\ \A j \in 1..Len(short) : short[j] = long[j + d]

(* A full window of the shorter is one of the longer, and one that is not  *)
(* full is not full in either if nothing was left out.                     *)
LEMMA SameWindow ==
    ASSUME NEW short \in Seq(Int), NEW long \in Seq(Int), NEW d, Aligned(short, long, d),
           NEW w \in Nat, NEW i \in 1..Len(short), d = 0 \/ i >= w
    PROVE  Rolling(short, w)[i] = Rolling(long, w)[i + d]
<1>1. /\ d \in Nat /\ i \in Nat /\ i + d \in 1..Len(long)
      /\ DOMAIN short = 1..Len(short) /\ DOMAIN long = 1..Len(long)
  BY DEF Aligned
<1>2. i < w <=> i + d < w
  BY <1>1
<1>3. CASE i < w
  BY <1>1, <1>2, <1>3 DEF Rolling
<1>4. CASE i >= w
  <2> DEFINE s == SubSeq(short, i - w + 1, i)
             l == SubSeq(long, i + d - w + 1, i + d)
  <2>1. s = [j \in 1..w |-> short[j + (i - w + 1) - 1]]
    BY <1>1, <1>4 DEF SubSeq
  <2>2. l = [j \in 1..w |-> long[j + (i + d - w + 1) - 1]]
    BY <1>1, <1>4 DEF SubSeq
  <2>3. ASSUME NEW j \in 1..w
        PROVE  short[j + (i - w + 1) - 1] = long[j + (i + d - w + 1) - 1]
    <3>1. j + (i - w + 1) - 1 \in 1..Len(short)
      BY <1>1, <1>4
    <3>2. j + (i + d - w + 1) - 1 = (j + (i - w + 1) - 1) + d
      BY <1>1
    <3> QED BY <3>1, <3>2 DEF Aligned
  <2>4. s = l
    BY <2>1, <2>2, <2>3
  <2>5. Rolling(short, w)[i] = IF i < w \/ NaN \in Range(s) THEN <<>> ELSE s
    BY <1>1 DEF Rolling
  <2>6. Rolling(long, w)[i + d] = IF i + d < w \/ NaN \in Range(l) THEN <<>> ELSE l
    BY <1>1 DEF Rolling
  <2> HIDE DEF s, l
  <2> QED BY <1>2, <2>4, <2>5, <2>6
<1> QED BY <1>1, <1>3, <1>4

(* So a moving average, or a band around one, is the same of both.         *)
LEMMA SameAverage ==
    ASSUME NEW ind, ind.name \in {"sma", "bbands"}, NEW column \in Outputs(ind),
           Param(ind, "period", 20) \in Nat,
           NEW short \in Seq(Int), NEW long \in Seq(Int), NEW d, Aligned(short, long, d),
           NEW i \in 1..Len(short), d = 0 \/ i >= Param(ind, "period", 20)
    PROVE  Compute(ind, short)[column][i] = Compute(ind, long)[column][i + d]
<1> DEFINE w == Param(ind, "period", 20)
<1>1. /\ d \in Nat /\ i + d \in 1..Len(long)
      /\ DOMAIN short = 1..Len(short) /\ DOMAIN long = 1..Len(long)
  BY DEF Aligned
<1>2. Rolling(short, w)[i] = Rolling(long, w)[i + d]
  BY SameWindow
<1> HIDE DEF w
<1>3. CASE ind.name = "sma"
  <2>1. ASSUME NEW close
        PROVE  Compute(ind, close)[column] = RollingMean(close, w)
    BY <1>3 DEF Compute, Outputs, w
  <2>2. ASSUME NEW close, NEW t \in DOMAIN close
        PROVE  RollingMean(close, w)[t] = Mean(Rolling(close, w)[t])
    BY DEF RollingMean
  <2>3. i \in DOMAIN short /\ i + d \in DOMAIN long
    BY <1>1
  <2>4. Compute(ind, short)[column][i] = Mean(Rolling(short, w)[i])
    BY <2>1, <2>2, <2>3
  <2>5. Compute(ind, long)[column][i + d] = Mean(Rolling(long, w)[i + d])
    BY <2>1, <2>2, <2>3
  <2> QED BY <1>2, <2>4, <2>5
<1>4. CASE ind.name = "bbands"
  <2> DEFINE Line == CHOOSE s \in {"_upper", "_middle", "_lower"} : ind.alias \o s = column
             k == IF Line = "_upper" THEN 1 ELSE IF Line = "_middle" THEN 0 ELSE -1
             std_dev == Param(ind, "std_dev", 2)
  <2>1. Line \in {"_upper", "_middle", "_lower"}
    BY <1>4 DEF Outputs
  <2>2. ASSUME NEW close, NEW t \in DOMAIN close
        PROVE  Compute(ind, close)[column][t] =
                  IF Rolling(close, w)[t] = <<>> THEN NaN
                  ELSE Mean(Rolling(close, w)[t]) + k * std_dev * Deviation(Rolling(close, w)[t])
    <3>1. DOMAIN Bands(close, w, std_dev) = {"_upper", "_middle", "_lower"}
      BY DEF Bands
    <3>2. Compute(ind, close) = WithAlias(ind.alias, Bands(close, w, std_dev))
      BY <1>4 DEF Compute, w
    <3> DEFINE lines == Bands(close, w, std_dev)
    <3>4. column \in {ind.alias \o s : s \in DOMAIN lines}
      BY <1>4, <3>1 DEF Outputs
    <3>5. (CHOOSE s \in DOMAIN lines : ind.alias \o s = column) = Line
      <4> HIDE DEF lines
      <4> QED BY <3>1 DEF lines
    <3> HIDE DEF lines
    <3>3. Compute(ind, close)[column] = lines[Line]
      BY <3>2, <3>4, <3>5 DEF WithAlias, lines
    <3> HIDE DEF Line, std_dev
    <3> QED BY <2>1, <3>3 DEF Bands, lines
  <2> HIDE DEF Line, k, std_dev
  <2> QED BY <1>1, <1>2, <2>2
<1> QED BY <1>3, <1>4

(* The closes of rows are numbers, and aligned as the rows are.            *)
LEMMA ClosesAligned ==
    ASSUME NEW short \in Seq(Bar), NEW long \in Seq(Bar), NEW d, Aligned(short, long, d),
           NEW column \in OHLCV
    PROVE  /\ CandleColumn(short, column) \in Seq(Int) /\ CandleColumn(long, column) \in Seq(Int)
           /\ Len(CandleColumn(short, column)) = Len(short)
           /\ Len(CandleColumn(long, column)) = Len(long)
           /\ Aligned(CandleColumn(short, column), CandleColumn(long, column), d)
<1>1. ASSUME NEW rows \in Seq(Bar)
      PROVE  /\ CandleColumn(rows, column) \in Seq(Int)
             /\ Len(CandleColumn(rows, column)) = Len(rows)
  <2>1. ASSUME NEW t \in 1..Len(rows)
        PROVE  Scale * rows[t][column] \in Int
    <3>1. rows[t] \in [low : Prices, high : Prices, close : Prices]
      BY DEF Bar
    <3>4. rows[t].low \in Prices /\ rows[t].high \in Prices /\ rows[t].close \in Prices
      BY <3>1, Zenon
    <3>2. rows[t].low \in Nat /\ rows[t].high \in Nat /\ rows[t].close \in Nat
      BY <3>4, Numbers
    <3>3. rows[t][column] \in Nat
      BY <3>2 DEF OHLCV
    <3>5. \A a \in Nat : Scale * a \in Int
      BY SignalsAssumption
    <3> QED BY <3>3, <3>5
  <2>2. DOMAIN rows = 1..Len(rows) /\ Len(rows) \in Nat
    OBVIOUS
  <2> QED BY <2>1, <2>2 DEF CandleColumn
<1>2. ASSUME NEW j \in 1..Len(short)
      PROVE  CandleColumn(short, column)[j] = CandleColumn(long, column)[j + d]
  <2>1. j \in DOMAIN short /\ j + d \in DOMAIN long /\ short[j] = long[j + d]
    BY DEF Aligned
  <2> QED BY <2>1 DEF CandleColumn
<1> QED BY <1>1, <1>2 DEF Aligned

(* What a feed keeps of the rows up to one of them: all, or max_history.   *)
LEMMA BufferIs ==
    ASSUME NEW rows \in Seq(Bar), NEW t \in 1..Len(rows)
    PROVE  \E d : /\ Aligned(Buffer(SubSeq(rows, 1, t)), rows, d)
                  /\ Buffer(SubSeq(rows, 1, t)) \in Seq(Bar)
                  /\ Len(Buffer(SubSeq(rows, 1, t))) + d = t
                  /\ d = 0 \/ Len(Buffer(SubSeq(rows, 1, t))) = MaxHistory
<1> DEFINE seen == SubSeq(rows, 1, t)
           first == IF 1 >= t - MaxHistory + 1 THEN 1 ELSE t - MaxHistory + 1
           d == first - 1
           kept == SubSeq(seen, first, t)
<1>1. /\ seen \in Seq(Bar) /\ Len(seen) = t
      /\ \A j \in 1..t : seen[j] = rows[j]
  BY SubSeqProperties
<1>2. MaxHistory \in Nat /\ MaxHistory >= 1 /\ t \in Nat
  BY StrategyRunAssumption
<1>3. Max({1, t - MaxHistory + 1}) = first
  BY <1>2, MaxOfTwo
<1>4. first \in 1..t /\ d \in Nat
  BY <1>2
<1>5. Buffer(seen) = kept
  <2> HIDE DEF seen, first
  <2> QED BY <1>1, <1>3 DEF Buffer
<1>6. /\ kept \in Seq(Bar) /\ Len(kept) = t - first + 1
      /\ \A j \in 1..t - first + 1 : kept[j] = seen[first + j - 1]
  <2> HIDE DEF seen, first
  <2> QED BY <1>1, <1>2, <1>4, SubSeqProperties
<1> HIDE DEF seen, kept
<1>7. ASSUME NEW j \in 1..Len(kept)
      PROVE  kept[j] = rows[j + d]
  <2>1. first + j - 1 \in 1..t /\ first + j - 1 = j + d /\ kept[j] = seen[first + j - 1]
    BY <1>2, <1>4, <1>6
  <2> QED BY <1>1, <2>1
<1>8. Aligned(kept, rows, d) /\ Len(kept) + d = t /\ (d = 0 \/ Len(kept) = MaxHistory)
  BY <1>2, <1>4, <1>6, <1>7 DEF Aligned
<1> QED BY <1>5, <1>6, <1>8 DEF seen

(* A rolling window that is accepted is a number, of rows; a definition    *)
(* whose rows were computed has no other.                                  *)
LEMMA PeriodIsNumber ==
    ASSUME NEW indicators, Accepted(indicators), NEW i \in DOMAIN indicators,
           indicators[i].name \in {"sma", "bbands"}
    PROVE  Param(indicators[i], "period", 20) \in Nat
<1> DEFINE ind == indicators[i]
<1>1. \A name \in DOMAIN ind.params : ind.params[name] \in Int
  BY DEF Accepted, Usable
<1>2. "period" \in ParamNames[ind.name] \ {"std_dev"}
  BY DEF ParamNames
<1>3. ~(Param(ind, "period", 1) < 0)
  BY <1>2 DEF Accepted, Refused
<1> HIDE DEF ind
<1>4. Param(ind, "period", 20) \in Nat
  BY <1>1, <1>3 DEF Param
<1> QED BY <1>4 DEF ind

LEMMA ComputableIsAccepted ==
    ASSUME definition \in Definitions, Valid(definition), Computable
    PROVE  Accepted(definition.indicators)
BY ValidIsUsable DEF Accepted, Computable, Range

(* Where a row, or the one before it, and a window are among those kept.   *)
LEMMA Positions ==
    ASSUME NEW max \in Nat, NEW s \in {0, 1}, NEW n \in Nat, NEW m \in Nat, NEW d \in Nat,
           n + d <= m, d = 0 \/ n = max
    PROVE  /\ \A w \in Nat : (IF 1 >= w THEN 1 ELSE w) + s <= max =>
                 1 + s <= max /\ (d = 0 \/ n - s >= w)
           /\ 1 + s <= max => (n - s \in 1..n <=> (n - s) + d \in 1..m)
           /\ n - s \in Int /\ (n + d) - s = (n - s) + d
<1>1. s = 0 \/ s = 1
  OBVIOUS
<1> QED BY <1>1

(* What leaves room for a row more leaves room for none more.              *)
LEMMA Fewer ==
    ASSUME NEW max \in Nat, NEW l \in Nat, l + 0 <= max \/ l + 1 <= max
    PROVE  l + 0 <= max
OBVIOUS

(* An operand has the same value for a row, or for the one before, if the  *)
(* rows it looks at are in both.                                           *)
LEMMA SameOperand ==
    ASSUME Accepted(definition.indicators), NEW operand,
           IsRef(operand) => operand.ref \in ColumnsOf(definition.indicators),
           NEW short \in Seq(Bar), NEW long \in Seq(Bar), NEW d, Aligned(short, long, d),
           d = 0 \/ Len(short) = MaxHistory, NEW s \in {0, 1}, Looks(operand) + s <= MaxHistory,
           NEW i, i = Len(short) - s
    PROVE  Column(operand, Data(definition.indicators, short), i)
             = Column(operand, Data(definition.indicators, long), i + d)
<1> DEFINE inds == definition.indicators
           ind == inds[LastAssigning(inds, operand.ref)]
<1>a. Usable(definition.indicators)
  BY DEF Accepted
<1>0. /\ \A w \in Nat : Max({1, w}) + s <= MaxHistory => 1 + s <= MaxHistory /\ (d = 0 \/ i >= w)
      /\ 1 + s <= MaxHistory => (i \in 1..Len(short) <=> i + d \in 1..Len(long))
      /\ i \in Int
  <2>1. /\ d \in Nat /\ MaxHistory \in Nat /\ Len(short) \in Nat /\ Len(long) \in Nat
        /\ Len(short) + d <= Len(long)
    BY StrategyRunAssumption DEF Aligned
  <2>2. \A w \in Nat : Max({1, w}) = IF 1 >= w THEN 1 ELSE w
    BY MaxWithOne
  <2> QED BY <2>1, <2>2, Positions
<1>1. /\ d \in Nat /\ MaxHistory \in Nat /\ i \in Int
      /\ DOMAIN short = 1..Len(short) /\ DOMAIN long = 1..Len(long)
      /\ Len(short) \in Nat /\ Len(long) \in Nat /\ Len(short) + d <= Len(long)
  BY <1>0, StrategyRunAssumption DEF Aligned
<1>2. /\ DOMAIN Data(inds, short)["close"] = 1..Len(short)
      /\ DOMAIN Data(inds, long)["close"] = 1..Len(long)
  <2>1. ASSUME NEW rows
        PROVE  DOMAIN Data(inds, rows)["close"] = DOMAIN rows
    <3>1. Data(inds, rows)["close"] = CandleColumn(rows, "close")
      BY <1>a, DataIs DEF OHLCV
    <3> QED BY <3>1 DEF CandleColumn
  <2> QED BY <1>1, <2>1
<1>3. IsRef(operand) /\ operand.ref \notin OHLCV =>
        /\ LastAssigning(inds, operand.ref) \in DOMAIN inds
        /\ operand.ref \in Outputs(ind)
        /\ Data(inds, short)[operand.ref] = Compute(ind, CandleColumn(short, "close"))[operand.ref]
        /\ Data(inds, long)[operand.ref] = Compute(ind, CandleColumn(long, "close"))[operand.ref]
        /\ ind.name \in {"sma", "bbands"} => Param(ind, "period", 20) \in Nat
        /\ Source(operand.ref) = ind
  <2>1. ASSUME IsRef(operand), operand.ref \notin OHLCV
        PROVE  operand.ref \in ColumnsOf(inds) \ OHLCV
    BY <2>1
  <2>2. Source(operand.ref) = ind
    BY DEF Source, LastAssigning
  <2> HIDE DEF inds
  <2>3. ASSUME IsRef(operand), operand.ref \notin OHLCV
        PROVE  /\ LastAssigning(inds, operand.ref) \in DOMAIN inds
               /\ operand.ref \in Outputs(ind)
               /\ Data(inds, short)[operand.ref] = Compute(ind, CandleColumn(short, "close"))[operand.ref]
               /\ Data(inds, long)[operand.ref] = Compute(ind, CandleColumn(long, "close"))[operand.ref]
    BY <1>a, <2>1, <2>3, DataIs DEF inds
  <2>4. LastAssigning(inds, operand.ref) \in DOMAIN inds /\ ind.name \in {"sma", "bbands"} =>
          Param(ind, "period", 20) \in Nat
    BY PeriodIsNumber DEF inds
  <2> QED BY <2>2, <2>3, <2>4
<1>4. IsRef(operand) /\ operand.ref \notin OHLCV =>
        /\ ind.name \in {"sma", "bbands"}
        /\ Max({1, Param(ind, "period", 20)}) + s <= MaxHistory
  <2>1. ASSUME IsRef(operand), operand.ref \notin OHLCV
        PROVE  Looks(operand) = IF ind.name \in {"sma", "bbands"}
                                THEN Max({1, Param(ind, "period", 20)}) ELSE MaxHistory + 1
    BY <1>3, <2>1 DEF Looks
  <2> QED BY <1>1, <2>1
<1>5. 1 + s <= MaxHistory
  <2>1. CASE IsRef(operand) /\ operand.ref \notin OHLCV
    BY <1>0, <1>3, <1>4, <2>1
  <2>2. CASE ~(IsRef(operand) /\ operand.ref \notin OHLCV)
    BY <2>2 DEF Looks
  <2> QED BY <2>1, <2>2
<1>6. i \in 1..Len(short) <=> i + d \in 1..Len(long)
  BY <1>0, <1>5
<1> HIDE DEF inds, ind
<1>7. CASE i \notin 1..Len(short)
  BY <1>1, <1>2, <1>6, <1>7 DEF Column, inds
<1>8. CASE i \in 1..Len(short)
  <2>1. ASSUME NEW column \in OHLCV
        PROVE  Data(inds, short)[column][i] = Data(inds, long)[column][i + d]
    <3>1. CandleColumn(short, column)[i] = CandleColumn(long, column)[i + d]
      <4>1. /\ Aligned(CandleColumn(short, column), CandleColumn(long, column), d)
            /\ Len(CandleColumn(short, column)) = Len(short)
        BY ClosesAligned
      <4> QED BY <1>8, <4>1 DEF Aligned
    <3> QED BY <1>a, <3>1, DataIs DEF inds
  <2>2. ASSUME IsRef(operand), operand.ref \notin OHLCV
        PROVE  Data(inds, short)[operand.ref][i] = Data(inds, long)[operand.ref][i + d]
    <3> DEFINE shorter == CandleColumn(short, "close")
               longer == CandleColumn(long, "close")
    <3>1. /\ shorter \in Seq(Int) /\ longer \in Seq(Int) /\ Len(shorter) = Len(short)
          /\ Aligned(shorter, longer, d)
      BY ClosesAligned DEF OHLCV
    <3>2. d = 0 \/ i >= Param(ind, "period", 20)
      BY <1>0, <1>3, <1>4, <2>2
    <3>4. i \in 1..Len(shorter) /\ ind.name \in {"sma", "bbands"} /\ operand.ref \in Outputs(ind)
          /\ Param(ind, "period", 20) \in Nat
      BY <1>3, <1>4, <1>8, <2>2, <3>1
    <3> HIDE DEF shorter, longer
    <3>3. Compute(ind, shorter)[operand.ref][i] = Compute(ind, longer)[operand.ref][i + d]
      BY <3>1, <3>2, <3>4, SameAverage
    <3> QED BY <1>3, <2>2, <3>3 DEF shorter, longer
  <2> QED BY <1>1, <1>2, <1>6, <1>8, <2>1, <2>2 DEF Column, inds
<1> QED BY <1>7, <1>8

(* So a comparison that is remembered comes out the same.                  *)
LEMMA SameComparison ==
    ASSUME Accepted(definition.indicators), NEW cmp, Remembered(cmp),
           \A operand \in {cmp.left, cmp.right} :
              IsRef(operand) => operand.ref \in ColumnsOf(definition.indicators),
           NEW short \in Seq(Bar), NEW long \in Seq(Bar), NEW d, Aligned(short, long, d),
           d = 0 \/ Len(short) = MaxHistory
    PROVE  Compare(cmp, Data(definition.indicators, short), Len(short))
             <=> Compare(cmp, Data(definition.indicators, long), Len(short) + d)
<1> DEFINE S == Data(definition.indicators, short)
           L == Data(definition.indicators, long)
           n == Len(short)
<1>0. n \in Nat /\ d \in Nat /\ n - 0 = n /\ (n + d) - 0 = n + d /\ MaxHistory \in Nat
  BY StrategyRunAssumption DEF Aligned
<1>1. ASSUME NEW operand \in {cmp.left, cmp.right}
      PROVE  Column(operand, S, n) = Column(operand, L, n + d)
  <2>1. Looks(operand) \in Nat /\ Looks(operand) + 0 <= MaxHistory
    <3>1. Looks(operand) \in Nat
      <4>1. CASE IsRef(operand) /\ operand.ref \notin OHLCV
        <5>1. operand.ref \in ColumnsOf(definition.indicators) \ OHLCV
          BY <1>1, <4>1
        <5>2. Source(operand.ref).name \in {"sma", "bbands"} =>
                 Param(Source(operand.ref), "period", 20) \in Nat
          BY <5>1, DataIs, PeriodIsNumber DEF Source, LastAssigning, Accepted
        <5>3. \A w \in Nat : Max({1, w}) \in Nat
          BY MaxWithOne
        <5>4. MaxHistory + 1 \in Nat
          BY StrategyRunAssumption
        <5> QED BY <4>1, <5>2, <5>3, <5>4 DEF Looks
      <4>2. CASE ~(IsRef(operand) /\ operand.ref \notin OHLCV)
        BY <4>2 DEF Looks
      <4> QED BY <4>1, <4>2
    <3>2. Looks(operand) + 0 <= MaxHistory \/ Looks(operand) + 1 <= MaxHistory
      BY <1>1 DEF Remembered
    <3> QED BY <1>0, <3>1, <3>2, Fewer
  <2>2. 0 \in {0, 1} /\ n = n - 0
    BY <1>0
  <2>3. IsRef(operand) => operand.ref \in ColumnsOf(definition.indicators)
    BY <1>1
  <2>4. Looks(operand) + 0 <= MaxHistory
    BY <2>1
  <2> QED BY <2>2, <2>3, <2>4, SameOperand
<1>2. ASSUME NEW operand \in {cmp.left, cmp.right}, cmp.op \in {"crosses_above", "crosses_below"}
      PROVE  Column(operand, S, n - 1) = Column(operand, L, (n - 1) + d)
  <2>1. Looks(operand) + 1 <= MaxHistory
    BY <1>2 DEF Remembered
  <2>2. 1 \in {0, 1}
    OBVIOUS
  <2> QED BY <1>2, <2>1, <2>2, SameOperand
<1> HIDE DEF S, L, n
<1>3. Compare(cmp, S, n) <=> Compare(cmp, L, n + d)
  <2>1. Column(cmp.left, S, n) = Column(cmp.left, L, n + d) /\ Column(cmp.right, S, n) = Column(cmp.right, L, n + d)
    BY <1>1
  <2>2. CASE cmp.op \in {"crosses_above", "crosses_below"}
    <3>1. /\ Column(cmp.left, S, n - 1) = Column(cmp.left, L, (n - 1) + d)
          /\ Column(cmp.right, S, n - 1) = Column(cmp.right, L, (n - 1) + d)
      BY <1>2, <2>2
    <3>2. (n - 1) + d = Shift(n + d) /\ n - 1 = Shift(n)
      BY <1>0 DEF Shift
    <3> QED BY <2>1, <3>1, <3>2 DEF Compare
  <2>3. CASE cmp.op \notin {"crosses_above", "crosses_below"}
    BY <2>1, <2>3 DEF Compare, ApplyOp
  <2> QED BY <2>2, <2>3
<1> QED BY <1>3 DEF S, L, n

(* And a condition tree of such comparisons holds or does not, the same.   *)
LEMMA SameCondition ==
    ASSUME Accepted(definition.indicators), NEW tree,
           OperandRefs(tree) \subseteq ColumnsOf(definition.indicators),
           \A cmp \in Comparisons(tree) : Remembered(cmp),
           NEW short \in Seq(Bar), NEW long \in Seq(Bar), NEW d, Aligned(short, long, d),
           d = 0 \/ Len(short) = MaxHistory
    PROVE  Holds(tree, Data(definition.indicators, short), Len(short))
             = Holds(tree, Data(definition.indicators, long), Len(short) + d)
<1> DEFINE S == Data(definition.indicators, short)
           L == Data(definition.indicators, long)
<1>1. ASSUME NEW i \in DOMAIN tree, tree[i].type = "comparison"
      PROVE  Compare(tree[i], S, Len(short)) <=> Compare(tree[i], L, Len(short) + d)
  <2>1. tree[i] \in Comparisons(tree)
    BY <1>1 DEF Comparisons
  <2>2. ASSUME NEW operand \in {tree[i].left, tree[i].right}, IsRef(operand)
        PROVE  operand.ref \in ColumnsOf(definition.indicators)
    BY <2>1, <2>2 DEF OperandRefs
  <2> QED BY <2>1, <2>2, SameComparison
<1> HIDE DEF S, L
<1>2. [i \in DOMAIN tree |-> tree[i].type = "comparison" /\ Compare(tree[i], S, Len(short))]
       = [i \in DOMAIN tree |-> tree[i].type = "comparison" /\ Compare(tree[i], L, Len(short) + d)]
  BY <1>1
<1>3. Holds(tree, S, Len(short)) = Holds(tree, L, Len(short) + d)
  BY <1>2 DEF Holds
<1> QED BY <1>3 DEF S, L

(* What a bot is told of a row is what a backtest makes of it.             *)
LEMMA ToldIsBatch == RunInv => LatestIsBatch
<1> SUFFICES ASSUME RunInv, status = "running", NEW c \in Conditions \cap DOMAIN definition,
                    \A cmp \in Comparisons(definition[c]) : Remembered(cmp), NEW t \in DOMAIN df
             PROVE  told[t][c] = SignalsAt(data, t)[c]
  BY DEF LatestIsBatch
<1> DEFINE kept == Buffer(SubSeq(df, 1, t))
           inds == definition.indicators
<1>1. /\ df \in Seq(Bar) /\ t \in 1..Len(df) /\ df # <<>>
      /\ definition \in Definitions /\ Valid(definition) /\ Computable /\ data = Data(inds, df)
      /\ told[t] = LatestSignal(kept)
  BY DEF RunInv, StrategyInv, ResultsOfRows
<1>2. PICK d : /\ Aligned(kept, df, d) /\ kept \in Seq(Bar) /\ Len(kept) + d = t
               /\ d = 0 \/ Len(kept) = MaxHistory
  BY <1>1, BufferIs
<1>3. /\ Accepted(inds)
      /\ OperandRefs(definition[c]) \subseteq ColumnsOf(inds)
  <2>1. definition[c] \in Trees(definition)
    BY DEF Trees, Conditions
  <2> QED BY <1>1, <2>1, ValidIsUsable, ComputableIsAccepted
<1> HIDE DEF kept
<1>4. Holds(definition[c], Data(inds, kept), Len(kept)) = Holds(definition[c], Data(inds, df), Len(kept) + d)
  BY <1>1, <1>2, <1>3, SameCondition
<1>5. told[t][c] = (c \in DOMAIN definition /\ Holds(definition[c], Data(inds, kept), Len(kept)))
  BY <1>1 DEF LatestSignal, SignalsAt
<1>6. SignalsAt(data, t)[c] = (c \in DOMAIN definition /\ Holds(definition[c], Data(inds, df), t))
  BY <1>1 DEF SignalsAt
<1> QED BY <1>2, <1>4, <1>5, <1>6

-----------------------------------------------------------------------------
(* Amounts are numbers, and what is bought with more than nothing counts.  *)
LEMMA Amounts ==
    /\ \A n \in Nat : EntryFill(n) \in Nat /\ ExitFill(n) \in Nat
    /\ \A n \in Nat \ {0} : EntryFill(n) \in Nat \ {0}
    /\ \A a \in Nat : AfterFee(a) \in Nat
    /\ \A e \in Nat, f \in Nat \ {0} : Quantity(e, f) \in Nat
    /\ \A q, f \in Nat : Worth(q, f) \in Nat
<1>1. /\ CostDen \in Nat \ {0} /\ CostDen + SlipNum \in Nat \ {0} /\ CostDen - SlipNum \in Nat
      /\ CostDen - FeeNum \in Nat /\ Den \in Nat \ {0} /\ Den * CostDen \in Nat \ {0}
  <2>1. /\ CostDen \in Nat \ {0} /\ FeeNum \in 0..CostDen - 1 /\ SlipNum \in 0..CostDen - 1
        /\ Den \in Nat \ {0}
    BY StrategyRunAssumption DEF BacktestAssumption
  <2>2. CostDen + SlipNum \in Nat \ {0} /\ CostDen - SlipNum \in Nat /\ CostDen - FeeNum \in Nat
    BY <2>1
  <2> QED BY <2>1, <2>2, Products
<1>2. \A a \in Nat, b \in Nat \ {0} : a \div b \in Nat
  BY SMT
<1>3. \A e \in Nat : (e * (CostDen - FeeNum)) * Den \in Nat
  BY <1>1, Products
<1>4. \A a \in Nat : AfterFee(a) \in Nat
  BY <1>1, <1>2, Products DEF AfterFee
<1>5. \A e \in Nat, f \in Nat \ {0} : Quantity(e, f) \in Nat
  BY <1>2, <1>3 DEF Quantity
<1>6. \A q, f \in Nat : Worth(q, f) \in Nat
  BY <1>1, <1>2, Products DEF Worth
<1>7. \A n \in Nat : EntryFill(n) \in Nat /\ ExitFill(n) \in Nat
  BY <1>1, Products DEF EntryFill, ExitFill
<1>8. \A n \in Nat \ {0} : EntryFill(n) \in Nat \ {0}
  BY <1>1, Products DEF EntryFill
<1> QED BY <1>4, <1>5, <1>6, <1>7, <1>8

(* A trade leaves an amount.                                               *)
LEMMA CostOfTrade ==
    ASSUME NEW tr \in Trade, NEW e \in Nat
    PROVE  /\ TradeCost(tr, e).quantity \in Nat /\ TradeCost(tr, e).equity_after \in Nat
           /\ TradeCost(tr, e).equity_before = e
<1>1. tr.entry_price \in Nat \ {0} /\ tr.exit_price \in Nat
  BY DEF Trade
<1>2. Quantity(e, EntryFill(tr.entry_price)) \in Nat
  BY <1>1, Amounts
<1>3. AfterFee(Worth(Quantity(e, EntryFill(tr.entry_price)), ExitFill(tr.exit_price))) \in Nat
  BY <1>1, <1>2, Amounts
<1> QED BY <1>2, <1>3 DEF TradeCost

(* The equity after each of some trades begins with the capital and goes   *)
(* on with what each trade made of the one before.                         *)
LEMMA CompoundedIs ==
    ASSUME NEW ts \in Seq(Trade)
    PROVE  /\ Compounded(ts)[0] = Capital
           /\ \A k \in 1..Len(ts) :
                 Compounded(ts)[k] = TradeCost(ts[k], Compounded(ts)[k - 1]).equity_after
<1> DEFINE Of(f, k) == IF k = 0 THEN Capital ELSE TradeCost(ts[k], f[k - 1]).equity_after
           Exists(n) == \E f : f = [k \in 0..n |-> Of(f, k)]
           Have == {n \in 0..Len(ts) : Exists(n)}
<1>1. Len(ts) \in Nat
  OBVIOUS
<1>2. 0 \in Have
  <2> DEFINE g == [k \in 0..0 |-> Capital]
  <2>1. g = [k \in 0..0 |-> Of(g, k)]
    OBVIOUS
  <2>2. Exists(0)
    <3> HIDE DEF g
    <3> QED BY <2>1
  <2> HIDE DEF Exists
  <2> QED BY <1>1, <2>2
<1>3. ASSUME NEW n \in 1..Len(ts), n - 1 \in Have
      PROVE  n \in Have
  <2>1. PICK f : f = [k \in 0..n - 1 |-> Of(f, k)]
    BY <1>3
  <2> DEFINE g == [k \in 0..n |-> IF k = n THEN TradeCost(ts[n], f[n - 1]).equity_after ELSE f[k]]
  <2>2. ASSUME NEW k \in 0..n
        PROVE  g[k] = Of(g, k)
    <3>1. CASE k = n
      <4>1. g[n] = TradeCost(ts[n], f[n - 1]).equity_after /\ g[n - 1] = f[n - 1] /\ n # 0
        BY <1>1
      <4> QED BY <3>1, <4>1
    <3>2. CASE k # n
      <4>1. k \in 0..n - 1 /\ g[k] = f[k] /\ (k # 0 => k - 1 \in 0..n - 1 /\ k - 1 # n /\ g[k - 1] = f[k - 1])
        BY <1>1, <3>2
      <4>2. f[k] = Of(f, k)
        BY <2>1, <4>1
      <4> QED BY <4>1, <4>2
    <3> QED BY <3>1, <3>2
  <2>3. g = [k \in 0..n |-> Of(g, k)]
    <3>1. g = [k \in 0..n |-> g[k]]
      OBVIOUS
    <3> HIDE DEF g
    <3> QED BY <2>2, <3>1
  <2>4. Exists(n)
    <3> HIDE DEF g
    <3> QED BY <2>3
  <2> HIDE DEF Exists
  <2> QED BY <2>4
<1>4. Len(ts) \in Have
  <2> HIDE DEF Have
  <2>1. \A k \in 0..Len(ts) : k \in Have
    BY <1>1, <1>2, <1>3, InductionUpTo
  <2> QED BY <1>1, <2>1
<1>5. Compounded(ts) = [k \in 0..Len(ts) |-> Of(Compounded(ts), k)]
  <2>1. Compounded(ts) = CHOOSE f : f = [k \in 0..Len(ts) |-> Of(f, k)]
    BY DEF Compounded
  <2> QED BY <1>4, <2>1
<1> QED BY <1>1, <1>5

(* The equity after each trade is a number.                                *)
LEMMA CompoundedType ==
    ASSUME NEW ts \in Seq(Trade)
    PROVE  \A k \in 0..Len(ts) : Compounded(ts)[k] \in Nat
<1> DEFINE T == {k \in 0..Len(ts) : Compounded(ts)[k] \in Nat}
<1>1. Len(ts) \in Nat
  OBVIOUS
<1>2. 0 \in T
  BY <1>1, CompoundedIs, StrategyRunAssumption
<1>3. ASSUME NEW k \in 1..Len(ts), k - 1 \in T
      PROVE  k \in T
  <2>1. ts[k] \in Trade /\ k \in 0..Len(ts)
    OBVIOUS
  <2>2. TradeCost(ts[k], Compounded(ts)[k - 1]).equity_after \in Nat
    BY <1>3, <2>1, CostOfTrade
  <2> QED BY <2>1, <2>2, CompoundedIs
<1>4. \A k \in 0..Len(ts) : k \in T
  <2> HIDE DEF T
  <2> QED BY <1>1, <1>2, <1>3, InductionUpTo
<1> QED BY <1>4

(* One more trade leaves the equity after those before it as it is.        *)
LEMMA CompoundedAppend ==
    ASSUME NEW ts \in Seq(Trade), NEW tr \in Trade
    PROVE  /\ \A k \in 0..Len(ts) : Compounded(Append(ts, tr))[k] = Compounded(ts)[k]
           /\ Compounded(Append(ts, tr))[Len(ts) + 1] = TradeCost(tr, Compounded(ts)[Len(ts)]).equity_after
<1> DEFINE us == Append(ts, tr)
           T == {k \in 0..Len(ts) : Compounded(us)[k] = Compounded(ts)[k]}
<1>1. /\ Len(ts) \in Nat /\ us \in Seq(Trade) /\ Len(us) = Len(ts) + 1
      /\ \A k \in 1..Len(ts) : us[k] = ts[k]
      /\ us[Len(ts) + 1] = tr
  OBVIOUS
<1> HIDE DEF us
<1>2. 0 \in T
  BY <1>1, CompoundedIs
<1>3. ASSUME NEW k \in 1..Len(ts), k - 1 \in T
      PROVE  k \in T
  <2>1. us[k] = ts[k] /\ k \in 1..Len(us) /\ k \in 0..Len(ts) /\ Compounded(us)[k - 1] = Compounded(ts)[k - 1]
    BY <1>1, <1>3
  <2>2. Compounded(us)[k] = TradeCost(us[k], Compounded(us)[k - 1]).equity_after
    BY <1>1, <2>1, CompoundedIs
  <2>3. Compounded(ts)[k] = TradeCost(ts[k], Compounded(ts)[k - 1]).equity_after
    BY CompoundedIs
  <2> QED BY <2>1, <2>2, <2>3
<1>4. \A k \in 0..Len(ts) : k \in T
  <2> HIDE DEF T
  <2> QED BY <1>1, <1>2, <1>3, InductionUpTo
<1>5. Compounded(us)[Len(ts) + 1] = TradeCost(tr, Compounded(ts)[Len(ts)]).equity_after
  <2>1. Len(ts) + 1 \in 1..Len(us) /\ (Len(ts) + 1) - 1 = Len(ts) /\ Len(ts) \in 0..Len(ts)
    BY <1>1
  <2>2. Compounded(us)[Len(ts) + 1] = TradeCost(us[Len(ts) + 1], Compounded(us)[(Len(ts) + 1) - 1]).equity_after
    BY <1>1, <2>1, CompoundedIs
  <2>3. Compounded(us)[Len(ts)] = Compounded(ts)[Len(ts)]
    BY <1>4, <2>1
  <2> QED BY <1>1, <2>1, <2>2, <2>3
<1> QED BY <1>4, <1>5 DEF us

(* The costs of each trade are those of its own equity.                    *)
LEMMA CostsAre ==
    ASSUME NEW ts \in Seq(Trade)
    PROVE  /\ ApplyCosts(ts) = [k \in 1..Len(ts) |-> TradeCost(ts[k], Compounded(ts)[k - 1])]
           /\ \A k \in 1..Len(ts) :
                 /\ ApplyCosts(ts)[k] = TradeCost(ts[k], Compounded(ts)[k - 1])
                 /\ ApplyCosts(ts)[k].quantity \in Nat
                 /\ ApplyCosts(ts)[k].equity_before = Compounded(ts)[k - 1]
                 /\ ApplyCosts(ts)[k].equity_after = Compounded(ts)[k]
           /\ \A k \in 1..Len(ts) + 1 : Flat(ApplyCosts(ts), k) = Compounded(ts)[k - 1]
<1>1. DOMAIN ts = 1..Len(ts) /\ Len(ts) \in Nat
  OBVIOUS
<1>2. ApplyCosts(ts) = [k \in 1..Len(ts) |-> TradeCost(ts[k], Compounded(ts)[k - 1])]
  BY <1>1 DEF ApplyCosts
<1>3. ASSUME NEW k \in 1..Len(ts)
      PROVE  /\ ApplyCosts(ts)[k] = TradeCost(ts[k], Compounded(ts)[k - 1])
             /\ ApplyCosts(ts)[k].quantity \in Nat
             /\ ApplyCosts(ts)[k].equity_before = Compounded(ts)[k - 1]
             /\ ApplyCosts(ts)[k].equity_after = Compounded(ts)[k]
  <2>1. ts[k] \in Trade /\ k - 1 \in 0..Len(ts)
    OBVIOUS
  <2>2. Compounded(ts)[k - 1] \in Nat
    BY <2>1, CompoundedType
  <2>3. ApplyCosts(ts)[k] = TradeCost(ts[k], Compounded(ts)[k - 1])
    BY <1>2
  <2>4. Compounded(ts)[k] = TradeCost(ts[k], Compounded(ts)[k - 1]).equity_after
    BY CompoundedIs
  <2> QED BY <2>1, <2>2, <2>3, <2>4, CostOfTrade
<1>4. ASSUME NEW k \in 1..Len(ts) + 1
      PROVE  Flat(ApplyCosts(ts), k) = Compounded(ts)[k - 1]
  <2>1. CASE k = 1
    BY <2>1, CompoundedIs DEF Flat
  <2>2. CASE k # 1
    <3>1. k - 1 \in 1..Len(ts)
      BY <1>1, <2>2
    <3> QED BY <1>3, <2>2, <3>1 DEF Flat
  <2> QED BY <2>1, <2>2
<1> QED BY <1>2, <1>3, <1>4

-----------------------------------------------------------------------------
(* Every column that the conditions of a valid definition name is there,   *)
(* whatever the rows are.                                                  *)
LEMMA ColumnsAreThere ==
    ASSUME definition \in Definitions, Valid(definition), NEW rows
    PROVE  \A tree \in Trees(definition) :
              OperandRefs(tree) \subseteq DOMAIN Data(definition.indicators, rows)
<1>1. DOMAIN Data(definition.indicators, rows) = ColumnsOf(definition.indicators)
  BY ValidIsUsable, DataIs
<1> QED BY <1>1, ValidIsUsable

(* What the loop enters at, keeps and leaves for.                          *)
LEMMA BtOutcome ==
    ASSUME NEW c \in Candle, bt \in Position \cup {None}, BtCandle(c)
    PROVE  /\ bt' \in Position \cup {None} /\ bt_action' \in Actions \cup {None}
           /\ bt = None /\ bt' # None => bt_action'.price = bt'.entry_price * Den
           /\ bt # None /\ bt' # None => bt'.entry_price = bt.entry_price
           /\ bt # None /\ bt' = None => bt_action' \in Actions
<1>1. bt' \in Position \cup {None} /\ bt_action' \in Actions \cup {None}
  BY BtType
<1>2. CASE BtEntry(c)
  BY <1>1, <1>2 DEF BtEntry, Act
<1>3. CASE BtHolding(c)
  <2> DEFINE p == [bt EXCEPT !.highest = Higher(@, c.high)]
  <2>1. bt # None /\ bt_action' = ExitOf(p, c) /\ bt' = IF ExitOf(p, c) = None THEN p ELSE None
    BY <1>3 DEF BtHolding
  <2>2. p.entry_price = bt.entry_price /\ p \in Position
    <3>1. c.high \in Prices /\ bt \in Position
      BY <2>1 DEF Candle
    <3> QED BY <3>1, HigherIs DEF Position
  <2> HIDE DEF p
  <2>3. p # None
    BY <2>2, NoneAssumption
  <2> QED BY <1>1, <2>1, <2>2, <2>3
<1> QED BY <1>2, <1>3 DEF BtCandle

(* The rows after the next, and what the loop does on it.                  *)
LEMMA NextRowIs ==
    ASSUME RunInv, NEW bar \in Bar, NextRow(bar)
    PROVE  /\ df \in Seq(Bar) /\ Len(df) \in Nat /\ df' \in Seq(Bar) /\ Len(df') = Len(df) + 1
           /\ df'[Len(df) + 1] = bar /\ \A t \in 1..Len(df) : df'[t] = df[t]
           /\ definition \in Definitions /\ Valid(definition) /\ definition' = definition
           /\ bt \in Position \cup {None} /\ bt_action' \in Actions \cup {None}
           /\ \/ /\ bt = None /\ bt' \in Position /\ bt' # None
                 /\ bt_action'.price = bt'.entry_price * Den
              \/ bt \in Position /\ bt # None /\ bt' \in Position /\ bt' # None /\ bt'.entry_price = bt.entry_price
              \/ bt \in Position /\ bt # None /\ bt' = None /\ bt_action' \in Actions
              \/ bt = None /\ bt' = None
<1>1. /\ df \in Seq(Bar) /\ bt \in Position \cup {None} /\ definition \in Definitions /\ Valid(definition)
      /\ df' = Append(df, bar) /\ definition' = definition
  BY DEF RunInv, StrategyInv, ResultsOfRows, NextRow
<1> DEFINE c == [low |-> bar.low, high |-> bar.high, close |-> bar.close,
                 entry |-> SignalsAt(data', Len(df')).entry_conditions,
                 exit |-> SignalsAt(data', Len(df')).exit_conditions]
<1>2. c \in Candle
  <2>1. /\ SignalsAt(data', Len(df')).entry_conditions \in BOOLEAN
        /\ SignalsAt(data', Len(df')).exit_conditions \in BOOLEAN
    BY DEF SignalsAt, Conditions
  <2>2. /\ bar.low \in Prices /\ bar.high \in Prices /\ bar.close \in Prices
        /\ bar.low <= bar.close /\ bar.close <= bar.high
    BY DEF Bar
  <2> QED BY <2>1, <2>2 DEF Candle
<1>3. BtCandle(c)
  BY DEF NextRow
<1> HIDE DEF c
<1>4. None \notin Position
  BY NoneAssumption
<1> QED BY <1>1, <1>2, <1>3, <1>4, BtOutcome

(* The trades after it, if the loop left: with the one that was open.      *)
Closed ==
    [entry_time |-> entry_time, entry_price |-> bt.entry_price * Den,
     exit_time |-> Len(df) + 1, exit_price |-> bt_action'.price]

(* After the next row they are those of before, or with that one.          *)
LEMMA NextTrades ==
    ASSUME RunInv, NEW bar \in Bar, NextRow(bar)
    PROVE  /\ trades \in Seq(Trade) /\ entry_time \in 0..Len(df) /\ trades' \in Seq(Trade)
           /\ bt # None /\ bt' = None =>
                 entry_time \in 1..Len(df) /\ Closed \in Trade /\ trades' = Append(trades, Closed)
           /\ ~(bt # None /\ bt' = None) => trades' = trades
<1>1. /\ trades \in Seq(Trade) /\ entry_time \in 0..Len(df)
      /\ bt # None => 1 <= entry_time
  BY DEF RunInv, StrategyInv, TradesInOrder
<1>2. /\ Len(df) \in Nat /\ Len(df') = Len(df) + 1 /\ Len(df) < MaxCandles /\ MaxCandles \in Nat
  BY NextRowIs, StrategyRunAssumption DEF NextRow
<1>3. CASE bt # None /\ bt' = None
  <2>1. entry_time \in 1..Len(df)
    BY <1>1, <1>2, <1>3
  <2>2. bt \in Position /\ bt_action' \in Actions
    BY <1>3, NextRowIs
  <2>3. Closed \in Trade
    <3>1. entry_time \in 1..MaxCandles /\ Len(df) + 1 \in 1..MaxCandles
      BY <1>2, <2>1
    <3>2. bt.entry_price * Den \in Nat \ {0}
      <4>1. bt.entry_price \in Prices
        BY <2>2 DEF Position
      <4>2. bt.entry_price \in Nat \ {0} /\ Den \in Nat \ {0}
        BY <4>1 DEF BacktestAssumption
      <4> HIDE BacktestAssumption
      <4> QED BY <4>2, Products
    <3>3. bt_action'.price \in Nat
      BY <2>2 DEF Actions
    <3> QED BY <3>1, <3>2, <3>3 DEF Closed, Trade
  <2>4. trades' = Append(trades, Closed)
    BY <1>2, <1>3 DEF NextRow, Closed
  <2> QED BY <1>1, <1>3, <2>1, <2>3, <2>4
<1>4. CASE ~(bt # None /\ bt' = None)
  BY <1>1, <1>4 DEF NextRow
<1> QED BY <1>1, <1>3, <1>4

(* The types, and a definition that can be run, stay.                      *)
LEMMA RowTypes ==
    ASSUME RunInv, NEW bar \in Bar, NextRow(bar)
    PROVE  StrategyInv'
<1>1. /\ bt' \in Position \cup {None} /\ bt_action' \in Actions \cup {None}
      /\ df' \in Seq(Bar) /\ Len(df) \in Nat /\ Len(df') = Len(df) + 1
      /\ definition \in Definitions /\ Valid(definition) /\ definition' = definition
  BY NextRowIs
<1>2. trades' \in Seq(Trade) /\ entry_time' \in 0..Len(df')
  <2>1. entry_time \in 0..Len(df) /\ trades' \in Seq(Trade)
    BY NextTrades
  <2> QED BY <1>1, <2>1 DEF NextRow
<1>3. status' = "running"
  BY DEF NextRow
<1>4. \A tree \in Trees(definition)' :
          OperandRefs(tree)' \subseteq DOMAIN Data(definition.indicators, df)'
  <2>1. \A tree \in Trees(definition) : OperandRefs(tree) \subseteq DOMAIN Data(definition.indicators, df')
    BY <1>1, ColumnsAreThere
  <2> QED BY <1>1, <2>1
<1> QED BY <1>1, <1>2, <1>3, <1>4 DEF StrategyInv

(* The results are those of the rows with the next.                        *)
LEMMA RowResults ==
    ASSUME RunInv, NEW bar \in Bar, NextRow(bar)
    PROVE  ResultsOfRows'
<1>1. /\ df \in Seq(Bar) /\ df' \in Seq(Bar) /\ Len(df) \in Nat /\ Len(df') = Len(df) + 1
      /\ \A t \in 1..Len(df) : df'[t] = df[t]
      /\ definition \in Definitions /\ Valid(definition) /\ definition' = definition
  BY NextRowIs
<1>2. /\ status' = "running" /\ Computable' /\ Len(df) + 1 <= MaxCandles
      /\ data' = Data(definition.indicators, df')
      /\ trade_costs' = ApplyCosts(trades') /\ curve' = EquityCurve(df', trades', trade_costs')
  BY <1>1, StrategyRunAssumption DEF NextRow, Computable
<1> DEFINE Seen(rows, t) == LatestSignal(Buffer(SubSeq(rows, 1, t)))
<1>3. told' = [t \in 1..Len(df') |-> Seen(df', t)]
  <2>1. told = [t \in 1..Len(df) |-> Seen(df, t)]
    BY <1>1 DEF RunInv, ResultsOfRows
  <2>2. told' = Append(told, LatestSignal(Buffer(df')))
    BY DEF NextRow
  <2>3. ASSUME NEW t \in 1..Len(df)
        PROVE  Seen(df, t) = Seen(df', t)
    <3>1. SubSeq(df, 1, t) = SubSeq(df', 1, t)
      <4>1. SubSeq(df, 1, t) = [i \in 1..t |-> df[i]]
        BY <1>1 DEF SubSeq
      <4>2. SubSeq(df', 1, t) = [i \in 1..t |-> df'[i]]
        BY <1>1 DEF SubSeq
      <4> QED BY <1>1, <4>1, <4>2
    <3> QED BY <3>1
  <2>4. SubSeq(df', 1, Len(df')) = df'
    BY <1>1
  <2>5. Seen(df', Len(df')) = LatestSignal(Buffer(df'))
    BY <2>4
  <2> DEFINE Said == {Seen(df, t) : t \in 1..Len(df)} \cup {Seen(df', Len(df'))}
  <2>6. told \in Seq(Said) /\ Len(told) = Len(df) /\ Seen(df', Len(df')) \in Said
    <3> HIDE DEF Seen
    <3> QED BY <1>1, <2>1
  <2> HIDE DEF Seen, Said
  <2>7. Append(told, Seen(df', Len(df'))) = [t \in 1..Len(df) + 1 |-> Seen(df', t)]
    <3>1. Append(told, Seen(df', Len(df'))) =
            [t \in 1..Len(df) + 1 |-> IF t = Len(df) + 1 THEN Seen(df', Len(df')) ELSE told[t]]
      BY <1>1, <2>6
    <3>2. ASSUME NEW t \in 1..Len(df) + 1
          PROVE  (IF t = Len(df) + 1 THEN Seen(df', Len(df')) ELSE told[t]) = Seen(df', t)
      BY <1>1, <2>1, <2>3
    <3> QED BY <3>1, <3>2
  <2> QED BY <1>1, <2>2, <2>5, <2>7
<1>4. told' = [t \in 1..Len(df) |-> LatestSignal(Buffer(SubSeq(df, 1, t)))]'
  BY <1>1, <1>3 DEF LatestSignal, SignalsAt
<1> QED BY <1>1, <1>2, <1>4 DEF ResultsOfRows

(* The trade that was open, if it is closed, comes after all others.       *)
LEMMA RowOrder ==
    ASSUME RunInv, NEW bar \in Bar, NextRow(bar)
    PROVE  TradesInOrder'
<1>1. /\ trades \in Seq(Trade) /\ Len(trades) \in Nat /\ DOMAIN trades = 1..Len(trades)
      /\ Len(df) \in Nat /\ Len(df') = Len(df) + 1 /\ entry_time \in 0..Len(df)
      /\ \A k \in 1..Len(trades) :
            /\ trades[k].entry_time \in Nat /\ trades[k].exit_time \in Nat
            /\ trades[k].entry_time < trades[k].exit_time /\ trades[k].exit_time <= Len(df)
      /\ \A j, k \in 1..Len(trades) : j < k => trades[j].exit_time < trades[k].entry_time
      /\ bt # None => 1 <= entry_time /\ \A k \in 1..Len(trades) : trades[k].exit_time < entry_time
  <2>1. \A tr \in Trade : tr.entry_time \in Nat /\ tr.exit_time \in Nat
    BY DEF Trade
  <2> QED BY <2>1, NextTrades, NextRowIs DEF RunInv, TradesInOrder
<1>2. CASE bt # None /\ bt' = None
  <2>1. trades' = Append(trades, Closed) /\ entry_time \in 1..Len(df)
    BY <1>2, NextTrades
  <2>2. Closed.entry_time = entry_time /\ Closed.exit_time = Len(df) + 1
    BY DEF Closed
  <2> DEFINE us == Append(trades, Closed)
  <2>3. /\ DOMAIN us = 1..Len(trades) + 1
        /\ \A k \in 1..Len(trades) : us[k] = trades[k]
        /\ us[Len(trades) + 1] = Closed
    BY <1>1
  <2> HIDE DEF us
  <2>4. ASSUME NEW k \in DOMAIN us
        PROVE  us[k].entry_time < us[k].exit_time /\ us[k].exit_time <= Len(df')
    <3>1. CASE k = Len(trades) + 1
      BY <1>1, <2>1, <2>2, <2>3, <3>1
    <3>2. CASE k \in 1..Len(trades)
      BY <1>1, <2>3, <3>2
    <3> QED BY <1>1, <2>3, <3>1, <3>2
  <2>5. ASSUME NEW j \in DOMAIN us, NEW k \in DOMAIN us, j < k
        PROVE  us[j].exit_time < us[k].entry_time
    <3>1. j \in 1..Len(trades)
      BY <1>1, <2>3, <2>5
    <3>2. CASE k = Len(trades) + 1
      BY <1>1, <1>2, <2>2, <2>3, <3>1, <3>2
    <3>3. CASE k \in 1..Len(trades)
      BY <1>1, <2>3, <2>5, <3>1, <3>3
    <3> QED BY <1>1, <2>3, <3>2, <3>3
  <2> QED BY <1>2, <2>1, <2>4, <2>5 DEF TradesInOrder, us
<1>3. CASE ~(bt # None /\ bt' = None)
  <2>1. trades' = trades
    BY <1>3, NextTrades
  <2>2. entry_time' = IF bt = None /\ bt' # None THEN Len(df) + 1 ELSE entry_time
    BY <1>1 DEF NextRow
  <2>3. bt' # None => 1 <= entry_time' /\ \A k \in 1..Len(trades) : trades[k].exit_time < entry_time'
    BY <1>1, <2>2
  <2>4. \A k \in 1..Len(trades) : trades[k].exit_time <= Len(df')
    BY <1>1
  <2> QED BY <1>1, <2>1, <2>3, <2>4 DEF TradesInOrder
<1> QED BY <1>2, <1>3

(* What the account has after the next row.                                *)
AccountType == [cash : Nat, quantity : Nat, values : Seq(Nat)]

(* It enters, holds, leaves or stays out, as the loop does.                *)
LEMMA NextAccount ==
    ASSUME RunInv, NEW bar \in Bar, NextRow(bar)
    PROVE  /\ account \in AccountType /\ Len(account.values) = Len(df)
           /\ account' \in AccountType /\ Len(account'.values) = Len(df) + 1
           /\ \A t \in 1..Len(df) : account'.values[t] = account.values[t]
           /\ bt = None /\ bt' # None =>
                 /\ account'.cash = account.cash
                 /\ account'.quantity = Quantity(account.cash, EntryFill(bt'.entry_price * Den))
                 /\ account'.values[Len(df) + 1] = Worth(account'.quantity, EntryFill(bt'.entry_price * Den))
           /\ bt # None /\ bt' # None =>
                 /\ account'.cash = account.cash /\ account'.quantity = account.quantity
                 /\ account'.values[Len(df) + 1] = account.quantity * bar.close
           /\ bt # None /\ bt' = None =>
                 /\ account'.cash = AfterFee(Worth(account.quantity, ExitFill(bt_action'.price)))
                 /\ account'.values[Len(df) + 1] = account'.cash
           /\ bt = None /\ bt' = None =>
                 account'.cash = account.cash /\ account'.values[Len(df) + 1] = account.cash
<1> DEFINE bought == Quantity(account.cash, EntryFill(bt_action'.price))
           sold == AfterFee(Worth(account.quantity, ExitFill(bt_action'.price)))
           Has(cash, quantity, value) ==
              [cash |-> cash, quantity |-> quantity, values |-> Append(account.values, value)]
           Shows(a, cash, quantity, value) ==
              /\ a \in AccountType /\ a.cash = cash /\ a.quantity = quantity
              /\ Len(a.values) = Len(df) + 1
              /\ \A t \in 1..Len(df) : a.values[t] = account.values[t]
              /\ a.values[Len(df) + 1] = value
<1>1. account \in AccountType /\ Len(account.values) = Len(df)
  BY DEF RunInv, AccountInv, AccountType
<1>2. account' = IF bt = None /\ bt' # None
                 THEN Has(account.cash, bought, Worth(bought, EntryFill(bt_action'.price)))
                 ELSE IF bt # None /\ bt' = None THEN Has(sold, 0, sold)
                 ELSE IF bt # None THEN Has(account.cash, account.quantity, account.quantity * bar.close)
                 ELSE Has(account.cash, 0, account.cash)
  BY DEF NextRow, Account
<1>3. ASSUME NEW cash \in Nat, NEW quantity \in Nat, NEW value \in Nat
      PROVE  Shows(Has(cash, quantity, value), cash, quantity, value)
  <2>1. account.values \in Seq(Nat)
    BY <1>1 DEF AccountType
  <2> QED BY <1>1, <2>1 DEF AccountType
<1>4. account.cash \in Nat /\ account.quantity \in Nat
  BY <1>1 DEF AccountType
<1> HIDE DEF Has, bought, sold
<1>5. CASE bt = None /\ bt' # None
  <2>1. bt' \in Position /\ bt_action'.price = bt'.entry_price * Den
    BY <1>5, NextRowIs
  <2>2. bt_action'.price \in Nat \ {0}
    <3>1. bt'.entry_price \in Nat \ {0} /\ Den \in Nat \ {0}
      BY <2>1 DEF Position, BacktestAssumption
    <3> HIDE BacktestAssumption
    <3> QED BY <2>1, <3>1, Products
  <2>3. EntryFill(bt_action'.price) \in Nat \ {0}
    BY <2>2, Amounts
  <2>4. bought \in Nat /\ bought = Quantity(account.cash, EntryFill(bt'.entry_price * Den))
    BY <1>4, <2>1, <2>3, Amounts DEF bought
  <2>5. Worth(bought, EntryFill(bt_action'.price)) \in Nat
    BY <2>3, <2>4, Amounts
  <2>6. account' = Has(account.cash, bought, Worth(bought, EntryFill(bt_action'.price)))
    BY <1>2, <1>5
  <2>7. Shows(account', account.cash, bought, Worth(bought, EntryFill(bt_action'.price)))
    <3> HIDE DEF Shows
    <3> QED BY <1>3, <1>4, <2>4, <2>5, <2>6
  <2> QED BY <1>1, <1>5, <2>1, <2>4, <2>7
<1>6. CASE bt # None /\ bt' = None
  <2>1. bt_action'.price \in Nat
    BY <1>6, NextRowIs DEF Actions
  <2>2. sold \in Nat
    BY <1>4, <2>1, Amounts DEF sold
  <2>3. account' = Has(sold, 0, sold)
    BY <1>2, <1>6
  <2>4. Shows(account', sold, 0, sold)
    <3> HIDE DEF Shows
    <3> QED BY <1>3, <2>2, <2>3
  <2> QED BY <1>1, <1>6, <2>4 DEF sold
<1>7. CASE bt # None /\ bt' # None
  <2>1. bar.close \in Nat
    BY Numbers DEF Bar
  <2>2. account.quantity * bar.close \in Nat
    BY <1>4, <2>1, Products
  <2>3. account' = Has(account.cash, account.quantity, account.quantity * bar.close)
    BY <1>2, <1>7
  <2>4. Shows(account', account.cash, account.quantity, account.quantity * bar.close)
    <3> HIDE DEF Shows
    <3> QED BY <1>3, <1>4, <2>2, <2>3
  <2> QED BY <1>1, <1>7, <2>4
<1>8. CASE bt = None /\ bt' = None
  <2>1. account' = Has(account.cash, 0, account.cash)
    BY <1>2, <1>8
  <2>2. Shows(account', account.cash, 0, account.cash)
    <3> HIDE DEF Shows
    <3> QED BY <1>3, <1>4, <2>1
  <2> QED BY <1>1, <1>8, <2>2
<1> QED BY <1>5, <1>6, <1>7, <1>8

(* The first row shows what is there before any trade, or what the capital *)
(* bought: something.                                                      *)
LEMMA BoughtIsWorth ==
    ASSUME NEW p \in Prices
    PROVE  Worth(Quantity(Capital, EntryFill(p * Den)), EntryFill(p * Den)) > 0
<1>1. /\ p \in Nat \ {0} /\ Den \in Nat \ {0} /\ CostDen \in Nat \ {0} /\ SlipNum \in Nat
      /\ Capital \in Nat /\ CostDen + SlipNum \in Nat
  BY StrategyRunAssumption DEF BacktestAssumption
<1> DEFINE q == Quantity(Capital, EntryFill(p * Den))
           u == Den * CostDen
           f == EntryFill(p * Den)
<1>2. p * Den \in Nat \ {0}
  <2> HIDE BacktestAssumption
  <2> QED BY <1>1, Products
<1>3. f \in Nat \ {0}
  BY <1>2, Amounts
<1>4. q \in Nat /\ q > 0
  BY <1>1, <1>3, Amounts, CapitalAssumption
<1>5. \A a, b, c, s \in Nat : a > 0 => (a * b) * (c + s) >= b * c
  BY SMT
<1>6. f >= u
  BY <1>1, <1>5 DEF EntryFill
<1>7. u \in Nat \ {0}
  <2> HIDE BacktestAssumption
  <2> QED BY <1>1, Products
<1> HIDE DEF q, f, u
<1>8. \A a, b, d \in Nat : a > 0 /\ b >= d /\ d > 0 => a * b >= d
  BY SMT
<1>9. q * f >= u /\ q * f \in Nat
  BY <1>3, <1>4, <1>6, <1>7, <1>8, Products
<1>10. (q * f) \div u > 0
  <2>1. \A a, b \in Nat : b > 0 /\ a >= b => a \div b > 0
    BY SMT
  <2> QED BY <1>7, <1>9, <2>1
<1> QED BY <1>10 DEF Worth, q, f, u

(* What the account shows of each row after the next.                      *)
LEMMA NextMarked ==
    ASSUME RunInv, NEW bar \in Bar, NextRow(bar), NEW t \in 1..Len(df) + 1
    PROVE  MarkedValue(t)' = IF bt # None /\ bt' = None THEN account'.values[t]
                             ELSE IF t <= Len(df) THEN MarkedValue(t) ELSE account.cash
<1>1. /\ Len(df) \in Nat /\ Len(df') = Len(df) + 1 /\ entry_time \in 0..Len(df)
      /\ entry_time' = IF bt = None /\ bt' # None THEN Len(df) + 1 ELSE entry_time
  BY NextRowIs, NextTrades DEF NextRow
<1>2. CASE bt # None /\ bt' = None
  BY <1>2 DEF MarkedValue
<1>3. CASE bt = None /\ bt' # None
  BY <1>1, <1>3, NextAccount DEF MarkedValue
<1>4. CASE bt # None /\ bt' # None
  BY <1>1, <1>4, NextAccount DEF MarkedValue
<1>5. CASE bt = None /\ bt' = None
  BY <1>1, <1>5, NextAccount DEF MarkedValue
<1> QED BY <1>2, <1>3, <1>4, <1>5

(* A trade takes two rows: up to the first, the account has the capital.   *)
LEMMA FirstTrade ==
    ASSUME RunInv, \A k \in DOMAIN trades : trades[k].exit_time <= 1
    PROVE  account.cash = Capital
<1>1. trades \in Seq(Trade) /\ account.cash = Compounded(trades)[Len(trades)]
  BY DEF RunInv, StrategyInv, AccountInv
<1>2. Len(trades) = 0
  <2> SUFFICES ASSUME Len(trades) # 0 PROVE FALSE
    OBVIOUS
  <2>1. 1 \in DOMAIN trades /\ trades[1] \in Trade
    BY <1>1
  <2>2. /\ trades[1].entry_time \in Nat /\ trades[1].exit_time \in Nat /\ trades[1].entry_time >= 1
    BY <2>1 DEF Trade
  <2>3. trades[1].entry_time < trades[1].exit_time /\ trades[1].exit_time <= 1
    BY <2>1 DEF RunInv, TradesInOrder
  <2> QED BY <2>2, <2>3
<1> QED BY <1>1, <1>2, CompoundedIs

(* The account has made the trades, and holds what the loop does.          *)
LEMMA RowAccount ==
    ASSUME RunInv, NEW bar \in Bar, NextRow(bar)
    PROVE  AccountInv'
<1>1. /\ Len(df) \in Nat /\ Len(df') = Len(df) + 1 /\ entry_time \in 0..Len(df)
      /\ df' \in Seq(Bar) /\ df'[Len(df) + 1] = bar /\ \A t \in 1..Len(df) : df'[t] = df[t]
      /\ entry_time' = IF bt = None /\ bt' # None THEN Len(df) + 1 ELSE entry_time
      /\ df' # <<>> /\ df \in Seq(Bar)
  <2>1. /\ Len(df) \in Nat /\ Len(df') = Len(df) + 1 /\ df' \in Seq(Bar) /\ df \in Seq(Bar)
        /\ df'[Len(df) + 1] = bar /\ \A t \in 1..Len(df) : df'[t] = df[t]
    BY NextRowIs
  <2>2. entry_time' = IF bt = None /\ bt' # None THEN Len(df) + 1 ELSE entry_time
    BY <2>1 DEF NextRow
  <2> QED BY <2>1, <2>2, NextTrades
<1>2. /\ trades \in Seq(Trade) /\ account.cash = Compounded(trades)[Len(trades)]
      /\ Len(account.values) = Len(df)
      /\ bt # None =>
            /\ account.quantity = Quantity(account.cash, EntryFill(bt.entry_price * Den))
            /\ account.values[entry_time] = Worth(account.quantity, EntryFill(bt.entry_price * Den))
            /\ \A t \in entry_time + 1..Len(df) : account.values[t] = account.quantity * df[t].close
            /\ entry_time \in 1..Len(df)
            /\ \A k \in DOMAIN trades : trades[k].exit_time < entry_time
      /\ \A k \in DOMAIN trades : trades[k].exit_time \in Nat /\ trades[k].exit_time <= Len(df)
      /\ df # <<>> => MarkedValue(1) > 0
  <2>1. \A tr \in Trade : tr.exit_time \in Nat
    BY DEF Trade
  <2> QED BY <1>1, <2>1 DEF RunInv, StrategyInv, AccountInv, TradesInOrder
<1>3. account'.cash = Compounded(trades')[Len(trades')]
  <2>1. CASE bt # None /\ bt' = None
    <3>1. /\ Closed \in Trade /\ trades' = Append(trades, Closed) /\ Len(trades') = Len(trades) + 1
      BY <1>2, <2>1, NextTrades
    <3>2. Compounded(trades')[Len(trades')] = TradeCost(Closed, account.cash).equity_after
      BY <1>2, <3>1, CompoundedAppend
    <3>3. TradeCost(Closed, account.cash).equity_after = AfterFee(Worth(account.quantity, ExitFill(bt_action'.price)))
      BY <1>2, <2>1 DEF TradeCost, Closed
    <3> QED BY <2>1, <3>2, <3>3, NextAccount
  <2>2. CASE ~(bt # None /\ bt' = None)
    BY <1>2, <2>2, NextTrades, NextAccount
  <2> QED BY <2>1, <2>2
<1>4. ASSUME bt' # None
      PROVE  /\ account'.quantity = Quantity(account'.cash, EntryFill(bt'.entry_price * Den))
             /\ account'.values[entry_time'] = Worth(account'.quantity, EntryFill(bt'.entry_price * Den))
             /\ \A t \in entry_time' + 1..Len(df') :
                   account'.values[t] = account'.quantity * df'[t].close
  <2>1. CASE bt = None
    BY <1>1, <1>4, <2>1, NextAccount
  <2>2. CASE bt # None
    <3>1. bt'.entry_price = bt.entry_price /\ entry_time' = entry_time
      BY <1>1, <1>4, <2>2, NextRowIs
    <3>2. /\ account'.cash = account.cash /\ account'.quantity = account.quantity
          /\ account'.values[Len(df) + 1] = account.quantity * bar.close
          /\ \A t \in 1..Len(df) : account'.values[t] = account.values[t]
      BY <1>4, <2>2, NextAccount
    <3>3. ASSUME NEW t \in entry_time + 1..Len(df')
          PROVE  account'.values[t] = account.quantity * df'[t].close
      <4>1. CASE t = Len(df) + 1
        BY <1>1, <3>2, <4>1
      <4>2. CASE t # Len(df) + 1
        <5>1. t \in entry_time + 1..Len(df) /\ t \in 1..Len(df)
          BY <1>1, <4>2
        <5> QED BY <1>1, <1>2, <2>2, <3>2, <5>1
      <4> QED BY <4>1, <4>2
    <3> QED BY <1>2, <2>2, <3>1, <3>2, <3>3
  <2> QED BY <2>1, <2>2
<1>5. MarkedValue(1)' > 0
  <2>1. CASE Len(df) = 0
    <3>1. \A k \in DOMAIN trades : trades[k].exit_time <= 1
      BY <1>2, <2>1
    <3>2. MarkedValue(1)' = account.cash
      BY <1>1, <1>2, <2>1, NextMarked
    <3> QED BY <3>1, <3>2, FirstTrade, StrategyRunAssumption
  <2>2. CASE Len(df) # 0
    <3>1. MarkedValue(1) > 0 /\ 1 \in 1..Len(df)
      BY <1>1, <1>2, <2>2
    <3>2. CASE ~(bt # None /\ bt' = None)
      BY <1>1, <3>1, <3>2, NextMarked
    <3>3. CASE bt # None /\ bt' = None
      <4>1. MarkedValue(1)' = account.values[1]
        BY <1>1, <3>1, <3>3, NextMarked, NextAccount
      <4>2. CASE entry_time = 1
        <5>1. \A k \in DOMAIN trades : trades[k].exit_time <= 1
          BY <1>2, <3>3, <4>2
        <5>2. account.values[1] = Worth(Quantity(Capital, EntryFill(bt.entry_price * Den)),
                                        EntryFill(bt.entry_price * Den))
          BY <1>2, <3>3, <4>2, <5>1, FirstTrade
        <5>3. bt.entry_price \in Prices
          BY <3>3, NextRowIs DEF Position
        <5> QED BY <4>1, <5>2, <5>3, BoughtIsWorth
      <4>3. CASE entry_time # 1
        BY <1>1, <1>2, <3>1, <3>3, <4>1, <4>3 DEF MarkedValue
      <4> QED BY <4>2, <4>3
    <3> QED BY <3>2, <3>3
  <2> QED BY <2>1, <2>2
<1>6. bt' = None => Last(account'.values) = account'.cash
  BY <1>1, NextAccount DEF Last
<1>7. account' \in AccountType /\ Len(account'.values) = Len(df')
  BY <1>1, NextAccount
<1> QED BY <1>1, <1>3, <1>4, <1>5, <1>6, <1>7 DEF AccountInv, AccountType

(* What is written for the trades of before, and for the row after.        *)
LEMMA WrittenBefore ==
    ASSUME RunInv
    PROVE  /\ trades \in Seq(Trade) /\ Len(trades) \in Nat /\ Len(df) \in Nat /\ entry_time \in 0..Len(df)
           /\ \A k \in 1..Len(trades) :
                 /\ trades[k].entry_time \in Nat /\ trades[k].exit_time \in Nat
                 /\ trades[k].entry_time < trades[k].exit_time /\ trades[k].exit_time <= Len(df)
                 /\ bt # None => trades[k].exit_time < entry_time
           /\ bt # None => 1 <= entry_time
           /\ \A k \in 1..Len(trades) + 1 :
                 /\ Cursor(trades, k) \in Nat \ {0} /\ Cursor(trades, k) <= Len(df) + 1
                 /\ bt # None => Cursor(trades, k) <= entry_time
                 /\ \A t \in WrittenFor(df, trades, k) : t \in 1..Len(df)
           /\ \A k \in 1..Len(trades) : \A t \in WrittenFor(df, trades, k) : t <= trades[k].exit_time
           /\ WrittenFor(df, trades, Len(trades) + 1) = Cursor(trades, Len(trades) + 1)..Len(df)
           /\ Flat(ApplyCosts(trades), Len(trades) + 1) = account.cash
<1>1. /\ trades \in Seq(Trade) /\ Len(trades) \in Nat /\ Len(df) \in Nat /\ entry_time \in 0..Len(df)
      /\ bt # None => 1 <= entry_time
      /\ account.cash = Compounded(trades)[Len(trades)]
      /\ DOMAIN trades = 1..Len(trades)
  BY DEF RunInv, StrategyInv, AccountInv, TradesInOrder
<1>2. ASSUME NEW k \in 1..Len(trades)
      PROVE  /\ trades[k].entry_time \in Nat /\ trades[k].exit_time \in Nat
             /\ trades[k].entry_time < trades[k].exit_time /\ trades[k].exit_time <= Len(df)
             /\ bt # None => trades[k].exit_time < entry_time
  <2>1. trades[k] \in Trade
    BY <1>1
  <2>2. trades[k].entry_time \in Nat /\ trades[k].exit_time \in Nat
    BY <2>1 DEF Trade
  <2> QED BY <1>1, <2>2 DEF RunInv, TradesInOrder
<1>3. ASSUME NEW k \in 1..Len(trades) + 1
      PROVE  /\ Cursor(trades, k) \in Nat \ {0} /\ Cursor(trades, k) <= Len(df) + 1
             /\ bt # None => Cursor(trades, k) <= entry_time
  <2>1. CASE k = 1
    BY <1>1, <2>1 DEF Cursor
  <2>2. CASE k # 1
    <3>1. k - 1 \in 1..Len(trades)
      BY <1>1, <2>2
    <3>2. Cursor(trades, k) = trades[k - 1].exit_time + 1
      BY <2>2 DEF Cursor
    <3> QED BY <1>1, <1>2, <3>1, <3>2
  <2> QED BY <2>1, <2>2
<1>4. ASSUME NEW k \in 1..Len(trades), NEW t \in WrittenFor(df, trades, k)
      PROVE  t <= trades[k].exit_time /\ t \in 1..Len(df)
  <2>1. t \in (Cursor(trades, k)..trades[k].entry_time) \cup (trades[k].entry_time..trades[k].exit_time)
    BY <1>1, <1>4 DEF WrittenFor
  <2>2. k \in 1..Len(trades) + 1
    BY <1>1
  <2>3. trades[k].entry_time >= 1
    <3>1. trades[k] \in Trade
      BY <1>1
    <3> QED BY <3>1 DEF Trade
  <2> QED BY <1>1, <1>2, <1>3, <2>1, <2>2, <2>3
<1>5. WrittenFor(df, trades, Len(trades) + 1) = Cursor(trades, Len(trades) + 1)..Len(df)
  BY <1>1 DEF WrittenFor
<1>6. ASSUME NEW k \in 1..Len(trades) + 1, NEW t \in WrittenFor(df, trades, k)
      PROVE  t \in 1..Len(df)
  <2>1. CASE k = Len(trades) + 1
    BY <1>1, <1>3, <1>5, <1>6, <2>1
  <2>2. CASE k # Len(trades) + 1
    <3>1. k \in 1..Len(trades)
      BY <1>1, <2>2
    <3> QED BY <1>4, <1>6, <3>1
  <2> QED BY <2>1, <2>2
<1>7. Flat(ApplyCosts(trades), Len(trades) + 1) = account.cash
  BY <1>1, CostsAre
<1> QED BY <1>1, <1>2, <1>3, <1>4, <1>5, <1>6, <1>7

(* Each row is written, also the next; if the loop does not leave on it, ...*)
LEMMA RowWrittenOpen ==
    ASSUME RunInv, NEW bar \in Bar, NextRow(bar), ~(bt # None /\ bt' = None),
           NEW t \in 1..Len(df) + 1
    PROVE  /\ \E k \in 1..Len(trades) + 1 : t \in WrittenFor(df', trades, k)
           /\ \A k \in 1..Len(trades) + 1 : t \in WrittenFor(df', trades, k) =>
                 MarkedValue(t)' = Written(df', trades, ApplyCosts(trades), k, t)
<1> DEFINE m == Len(trades)
<1>1. /\ m \in Nat /\ Len(df) \in Nat /\ Len(df') = Len(df) + 1
      /\ \A i \in 1..Len(df) : df'[i] = df[i]
  BY NextRowIs, WrittenBefore
<1>2. /\ \A k \in 1..m : WrittenFor(df', trades, k) = WrittenFor(df, trades, k)
      /\ WrittenFor(df', trades, m + 1) = Cursor(trades, m + 1)..Len(df) + 1
  BY <1>1 DEF WrittenFor
<1>3. CASE t = Len(df) + 1
  <2>1. t \in WrittenFor(df', trades, m + 1)
    BY <1>1, <1>2, <1>3, WrittenBefore
  <2>2. ASSUME NEW k \in 1..m + 1, t \in WrittenFor(df', trades, k)
        PROVE  MarkedValue(t)' = Written(df', trades, ApplyCosts(trades), k, t)
    <3>1. k = m + 1
      <4> SUFFICES ASSUME k \in 1..m PROVE FALSE
        BY <1>1
      <4> QED BY <1>1, <1>2, <1>3, <2>2, WrittenBefore
    <3>2. Written(df', trades, ApplyCosts(trades), k, t) = account.cash
      BY <1>1, <3>1, WrittenBefore DEF Written
    <3> QED BY <1>1, <1>3, <3>2, NextMarked
  <2> QED BY <1>1, <2>1, <2>2
<1>4. CASE t # Len(df) + 1
  <2>1. t \in 1..Len(df) /\ t \in DOMAIN df
    BY <1>1, <1>4 DEF RunInv, StrategyInv
  <2>2. ASSUME NEW k \in 1..m + 1
        PROVE  t \in WrittenFor(df', trades, k) <=> t \in WrittenFor(df, trades, k)
    <3>1. CASE k \in 1..m
      BY <1>2, <3>1
    <3>2. CASE k = m + 1
      <4>1. WrittenFor(df, trades, m + 1) = Cursor(trades, m + 1)..Len(df) /\ Cursor(trades, m + 1) \in Nat
        BY <1>1, WrittenBefore
      <4> QED BY <1>1, <1>2, <2>1, <3>2, <4>1
    <3> QED BY <1>1, <3>1, <3>2
  <2>3. ASSUME NEW k \in 1..m + 1
        PROVE  Written(df', trades, ApplyCosts(trades), k, t) = Written(df, trades, ApplyCosts(trades), k, t)
    BY <1>1, <2>1 DEF Written
  <2>4. MarkedValue(t)' = MarkedValue(t)
    BY <1>1, <2>1, NextMarked
  <2> QED BY <2>1, <2>2, <2>3, <2>4 DEF RunInv, RowsAreWritten
<1> QED BY <1>3, <1>4

(* ... or if it does, with the trade that was open.                        *)
LEMMA RowWrittenClosed ==
    ASSUME RunInv, NEW bar \in Bar, NextRow(bar), bt # None, bt' = None,
           NEW t \in 1..Len(df) + 1
    PROVE  /\ \E k \in 1..Len(trades') + 1 : t \in WrittenFor(df', trades', k)
           /\ \A k \in 1..Len(trades') + 1 : t \in WrittenFor(df', trades', k) =>
                 MarkedValue(t)' = Written(df', trades', ApplyCosts(trades'), k, t)
<1> DEFINE m == Len(trades)
           us == Append(trades, Closed)
           old == ApplyCosts(trades)
           new == ApplyCosts(us)
<1>1. /\ m \in Nat /\ Len(df) \in Nat /\ Len(df') = Len(df) + 1 /\ trades \in Seq(Trade)
      /\ \A i \in 1..Len(df) : df'[i] = df[i]
      /\ Closed \in Trade /\ trades' = us /\ entry_time \in 1..Len(df)
  BY NextRowIs, NextTrades, WrittenBefore
<1>2. /\ Len(us) = m + 1 /\ us[m + 1] = Closed /\ \A k \in 1..m : us[k] = trades[k]
      /\ us \in Seq(Trade)
  BY <1>1
<1>3. Closed.entry_time = entry_time /\ Closed.exit_time = Len(df) + 1 /\ Closed.entry_price = bt.entry_price * Den
  BY DEF Closed
<1> HIDE DEF us
<1>4. ASSUME NEW k \in 1..m + 1
      PROVE  Cursor(us, k) = Cursor(trades, k)
  <2>1. k # 1 => k - 1 \in 1..m
    BY <1>1
  <2> QED BY <1>2, <2>1 DEF Cursor
<1>5. Cursor(us, m + 2) = Len(df) + 2
  BY <1>1, <1>2, <1>3 DEF Cursor
<1>6. ASSUME NEW k \in 1..m
      PROVE  WrittenFor(df', us, k) = WrittenFor(df, trades, k)
  <2>1. k \in 1..m + 1 /\ ~(k > Len(us)) /\ ~(k > m)
    BY <1>1, <1>2
  <2> QED BY <1>2, <1>4, <2>1 DEF WrittenFor
<1>7. /\ WrittenFor(df', us, m + 1) = (Cursor(trades, m + 1)..entry_time) \cup (entry_time..Len(df) + 1)
      /\ WrittenFor(df', us, m + 2) = (Len(df) + 2)..(Len(df) + 1)
  BY <1>1, <1>2, <1>3, <1>4, <1>5 DEF WrittenFor
<1>8. /\ \A k \in 1..m : new[k] = old[k]
      /\ \A k \in 1..m + 1 : Flat(new, k) = Flat(old, k)
      /\ new[m + 1].quantity = account.quantity /\ new[m + 1].equity_after = account'.cash
  <2>1. \A k \in 0..m : Compounded(us)[k] = Compounded(trades)[k]
    BY <1>1, CompoundedAppend DEF us
  <2>2. ASSUME NEW k \in 1..m
        PROVE  new[k] = old[k]
    <3>1. old[k] = TradeCost(trades[k], Compounded(trades)[k - 1])
      BY <1>1, CostsAre
    <3>2. new[k] = TradeCost(us[k], Compounded(us)[k - 1])
      <4>1. k \in 1..Len(us)
        BY <1>1, <1>2
      <4> QED BY <1>2, <4>1, CostsAre
    <3>3. us[k] = trades[k] /\ k - 1 \in 0..m
      BY <1>1, <1>2
    <3> QED BY <2>1, <3>1, <3>2, <3>3
  <2>3. ASSUME NEW k \in 1..m + 1
        PROVE  Flat(new, k) = Flat(old, k)
    <3>1. Flat(old, k) = Compounded(trades)[k - 1]
      BY <1>1, CostsAre
    <3>2. Flat(new, k) = Compounded(us)[k - 1]
      <4>1. k \in 1..Len(us) + 1
        BY <1>1, <1>2
      <4> QED BY <1>2, <4>1, CostsAre
    <3>3. k - 1 \in 0..m
      BY <1>1
    <3> QED BY <2>1, <3>1, <3>2, <3>3
  <2>4. new[m + 1] = TradeCost(Closed, account.cash)
    <3>1. new[m + 1] = TradeCost(us[m + 1], Compounded(us)[(m + 1) - 1])
      <4>1. m + 1 \in 1..Len(us)
        BY <1>1, <1>2
      <4> QED BY <1>2, <4>1, CostsAre
    <3>2. (m + 1) - 1 = m /\ m \in 0..m
      BY <1>1
    <3>3. account.cash = Compounded(trades)[m]
      BY DEF RunInv, AccountInv
    <3> QED BY <1>2, <2>1, <3>1, <3>2, <3>3
  <2>5. account.quantity = Quantity(account.cash, EntryFill(bt.entry_price * Den))
    BY DEF RunInv, AccountInv
  <2>6. new[m + 1].quantity = account.quantity
    BY <1>3, <2>4, <2>5 DEF TradeCost
  <2>7. new[m + 1].equity_after = AfterFee(Worth(account.quantity, ExitFill(bt_action'.price)))
    BY <2>4, <2>5 DEF TradeCost, Closed
  <2> QED BY <2>2, <2>3, <2>6, <2>7, NextAccount
<1> HIDE DEF new, old
<1>9. MarkedValue(t)' = IF t = Len(df) + 1 THEN account'.cash ELSE account.values[t]
  <2>1. MarkedValue(t)' = account'.values[t]
    BY NextMarked
  <2> QED BY <1>1, <2>1, NextAccount
<1>10. \E k \in 1..Len(us) + 1 : t \in WrittenFor(df', us, k)
  <2>1. CASE t \in (Cursor(trades, m + 1)..entry_time) \cup (entry_time..Len(df) + 1)
    <3>1. m + 1 \in 1..Len(us) + 1
      BY <1>1, <1>2
    <3> QED BY <1>7, <2>1, <3>1
  <2>2. CASE t \notin (Cursor(trades, m + 1)..entry_time) \cup (entry_time..Len(df) + 1)
    <3>1. t \in 1..Len(df) /\ t \in DOMAIN df /\ t < Cursor(trades, m + 1)
      <4>1. Cursor(trades, m + 1) \in Nat /\ Cursor(trades, m + 1) <= entry_time /\ m + 1 \in 1..m + 1
        BY <1>1, WrittenBefore
      <4>2. t < entry_time
        BY <1>1, <2>2
      <4>3. t < Cursor(trades, m + 1)
        BY <1>1, <2>2, <4>1, <4>2
      <4> QED BY <1>1, <4>2, <4>3 DEF RunInv, StrategyInv
    <3>2. PICK k \in 1..m + 1 : t \in WrittenFor(df, trades, k)
      BY <3>1 DEF RunInv, RowsAreWritten
    <3>3. k # m + 1
      BY <1>1, <3>1, <3>2, WrittenBefore
    <3>4. k \in 1..m /\ k \in 1..Len(us) + 1
      BY <1>1, <1>2, <3>2, <3>3
    <3> QED BY <1>6, <3>2, <3>4
  <2> QED BY <2>1, <2>2
<1>11. ASSUME NEW k \in 1..Len(us) + 1, t \in WrittenFor(df', us, k)
       PROVE  MarkedValue(t)' = Written(df', us, new, k, t)
  <2>1. CASE k \in 1..m
    <3>1. t \in WrittenFor(df, trades, k) /\ t \in 1..Len(df) /\ t <= trades[k].exit_time
          /\ t < entry_time /\ t \in DOMAIN df /\ k \in 1..m + 1
      BY <1>1, <1>6, <1>11, <2>1, WrittenBefore DEF RunInv, StrategyInv
    <3>2. MarkedValue(t) = Written(df, trades, old, k, t)
      BY <3>1 DEF RunInv, RowsAreWritten, old
    <3>3. MarkedValue(t) = account.values[t]
      BY <1>1, <3>1 DEF MarkedValue
    <3>4. Written(df', us, new, k, t) = Written(df, trades, old, k, t)
      BY <1>1, <1>2, <1>8, <2>1, <3>1 DEF Written
    <3>5. t # Len(df) + 1
      BY <1>1, <3>1
    <3> QED BY <1>9, <3>2, <3>3, <3>4, <3>5
  <2>2. CASE k = m + 1
    <3>1. t \in (Cursor(trades, m + 1)..entry_time) \cup (entry_time..Len(df) + 1)
      BY <1>7, <1>11, <2>2
    <3>2. CASE t < entry_time
      <4>1. t \in Cursor(trades, m + 1)..Len(df) /\ t \in 1..Len(df) /\ t \in DOMAIN df
        BY <1>1, <3>1, <3>2 DEF RunInv, StrategyInv
      <4>2. t \in WrittenFor(df, trades, m + 1)
        BY <4>1, WrittenBefore
      <4>3. MarkedValue(t) = Written(df, trades, old, m + 1, t)
        BY <1>1, <4>1, <4>2 DEF RunInv, RowsAreWritten, old
      <4>4. Written(df, trades, old, m + 1, t) = Flat(old, m + 1)
        BY <1>1 DEF Written
      <4>5. Written(df', us, new, k, t) = Flat(new, m + 1)
        BY <1>1, <1>2, <1>3, <2>2, <3>2 DEF Written
      <4>6. MarkedValue(t) = account.values[t]
        BY <1>1, <3>2 DEF MarkedValue
      <4> QED BY <1>1, <1>8, <1>9, <4>1, <4>3, <4>4, <4>5, <4>6
    <3>3. CASE t = Len(df) + 1
      BY <1>1, <1>2, <1>3, <1>8, <1>9, <2>2, <3>3 DEF Written
    <3>4. CASE t = entry_time
      <4>1. account.values[entry_time] = Worth(account.quantity, EntryFill(bt.entry_price * Den))
        BY DEF RunInv, AccountInv
      <4> QED BY <1>1, <1>2, <1>3, <1>8, <1>9, <2>2, <3>4, <4>1 DEF Written
    <3>5. CASE t > entry_time /\ t # Len(df) + 1
      <4>1. t \in entry_time + 1..Len(df) /\ t \in 1..Len(df)
        BY <1>1, <3>5
      <4>2. account.values[t] = account.quantity * df[t].close
        BY <4>1 DEF RunInv, AccountInv
      <4> QED BY <1>1, <1>2, <1>3, <1>8, <1>9, <2>2, <3>5, <4>1, <4>2 DEF Written
    <3> QED BY <1>1, <3>2, <3>3, <3>4, <3>5
  <2>3. CASE k = m + 2
    BY <1>1, <1>7, <1>11, <2>3
  <2> QED BY <1>1, <1>2, <2>1, <2>2, <2>3
<1> QED BY <1>1, <1>10, <1>11 DEF new

(* Either way all rows are, and with what the account shows.               *)
LEMMA RowWritten ==
    ASSUME RunInv, NEW bar \in Bar, NextRow(bar)
    PROVE  RowsAreWritten'
<1>1. DOMAIN df' = 1..Len(df) + 1
  BY NextRowIs
<1>2. CASE bt # None /\ bt' = None
  BY <1>1, <1>2, RowWrittenClosed DEF RowsAreWritten
<1>3. CASE ~(bt # None /\ bt' = None)
  <2>1. trades' = trades
    BY <1>3, NextTrades
  <2> QED BY <1>1, <1>3, <2>1, RowWrittenOpen DEF RowsAreWritten
<1> QED BY <1>2, <1>3

(* What is before the first row.                                           *)
LEMMA RunInvAtFirst == RunInit => RunInv
<1> SUFFICES ASSUME RunInit PROVE RunInv
  OBVIOUS
<1>1. /\ bt = None /\ bt_action = None /\ definition \in Definitions /\ status = "new"
      /\ df = <<>> /\ told = <<>> /\ entry_time = 0 /\ trades = <<>>
      /\ account = [cash |-> Capital, quantity |-> 0, values |-> <<>>]
  BY DEF RunInit, BtInit
<1>2. <<>> \in Seq(Bar) /\ <<>> \in Seq(Trade) /\ <<>> \in Seq(Nat) /\ Len(<<>>) = 0 /\ DOMAIN <<>> = {}
  OBVIOUS
<1>3. StrategyInv
  BY <1>1, <1>2 DEF StrategyInv
<1>4. ResultsOfRows
  <2>1. told = [t \in DOMAIN df |-> LatestSignal(Buffer(SubSeq(df, 1, t)))]
    BY <1>1, <1>2
  <2>2. 0 <= MaxCandles
    BY StrategyRunAssumption
  <2> QED BY <1>1, <1>2, <2>1, <2>2 DEF ResultsOfRows
<1>5. TradesInOrder
  BY <1>1, <1>2 DEF TradesInOrder
<1>6. AccountInv
  BY <1>1, <1>2, CompoundedIs, StrategyRunAssumption DEF AccountInv
<1>7. RowsAreWritten
  BY <1>1, <1>2 DEF RowsAreWritten
<1> QED BY <1>3, <1>4, <1>5, <1>6, <1>7 DEF RunInv

(* A definition is validated, and its indicators refused, before the first *)
(* row: only the status changes.                                           *)
LEMMA RunInvStatus ==
    ASSUME RunInv, df = <<>>, status' \in {"rejected", "running", "failed"},
           status' \in {"running", "failed"} => Valid(definition),
           status' = "failed" => ~Computable,
           UNCHANGED <<bt, bt_action, definition, df, data, trades, trade_costs, curve, told,
                       entry_time, account>>
    PROVE  RunInv'
<1>1. definition \in Definitions /\ (Computable' <=> Computable)
  BY DEF RunInv, ResultsOfRows, Computable
<1>2. StrategyInv'
  <2>1. Valid(definition) => \A tree \in Trees(definition) :
            OperandRefs(tree) \subseteq DOMAIN Data(definition.indicators, df)
    BY <1>1, ColumnsAreThere
  <2> QED BY <2>1 DEF RunInv, StrategyInv
<1>3. ResultsOfRows'
  <2>1. Valid(definition)' <=> Valid(definition)
    OBVIOUS
  <2>2. told' = [t \in DOMAIN df |-> LatestSignal(Buffer(SubSeq(df, 1, t)))]'
    BY DEF RunInv, ResultsOfRows
  <2> QED BY <1>1, <2>1, <2>2 DEF RunInv, ResultsOfRows
<1>4. TradesInOrder'
  BY DEF RunInv, TradesInOrder
<1>5. \A t : MarkedValue(t)' = MarkedValue(t)
  BY DEF MarkedValue
<1>6. AccountInv'
  BY <1>5 DEF RunInv, AccountInv
<1>7. RowsAreWritten'
  BY <1>5 DEF RunInv, RowsAreWritten
<1> QED BY <1>2, <1>3, <1>4, <1>6, <1>7 DEF RunInv

LEMMA RunInvValidated == RunInv /\ Validate => RunInv'
<1> SUFFICES ASSUME RunInv, Validate PROVE RunInv'
  OBVIOUS
<1>1. /\ status = "new" /\ status' = IF Valid(definition) THEN "running" ELSE "rejected"
      /\ UNCHANGED <<bt, bt_action, definition, df, data, trades, trade_costs, curve, told, entry_time, account>>
  BY DEF Validate, btVars, result
<1>2. df = <<>>
  BY <1>1 DEF RunInv, ResultsOfRows
<1> QED BY <1>1, <1>2, RunInvStatus

LEMMA RunInvRaised == RunInv /\ IndicatorRaises => RunInv'
<1> SUFFICES ASSUME RunInv, IndicatorRaises PROVE RunInv'
  OBVIOUS
<1>1. /\ status = "running" /\ ~Computable /\ status' = "failed"
      /\ UNCHANGED <<bt, bt_action, definition, df, data, trades, trade_costs, curve, told, entry_time, account>>
  BY DEF IndicatorRaises, btVars, result
<1>2. df = <<>> /\ Valid(definition)
  BY <1>1 DEF RunInv, ResultsOfRows
<1> QED BY <1>1, <1>2, RunInvStatus

(* A stutter changes nothing.                                              *)
LEMMA RunInvUnchanged == RunInv /\ UNCHANGED runVars => RunInv'
<1> SUFFICES ASSUME RunInv, UNCHANGED runVars PROVE RunInv'
  OBVIOUS
<1>1. UNCHANGED <<bt, bt_action, definition, status, df, data, trades, trade_costs, curve, told, entry_time, account>>
  BY DEF runVars, btVars, result
<1>2. \A t : MarkedValue(t)' = MarkedValue(t)
  BY <1>1 DEF MarkedValue
<1>3. StrategyInv' /\ TradesInOrder'
  BY <1>1 DEF RunInv, StrategyInv, TradesInOrder, Computable
<1>4. ResultsOfRows'
  <2>1. \A rows : LatestSignal(rows)' = LatestSignal(rows)
    BY <1>1 DEF LatestSignal, SignalsAt
  <2>2. told' = [t \in DOMAIN df |-> LatestSignal(Buffer(SubSeq(df, 1, t)))]'
    BY <1>1, <2>1 DEF RunInv, ResultsOfRows, LatestSignal, SignalsAt
  <2> QED BY <1>1, <2>2 DEF RunInv, ResultsOfRows, Computable
<1>5. AccountInv'
  BY <1>1, <1>2 DEF RunInv, AccountInv
<1>6. RowsAreWritten'
  BY <1>1, <1>2 DEF RunInv, RowsAreWritten
<1> QED BY <1>3, <1>4, <1>5, <1>6 DEF RunInv

(* A result is always that of the rows so far, its trades come one after   *)
(* the other, and an account that trades candle by candle has made them:   *)
(* what backtest and build_equity_curve make of all rows at the end.       *)
THEOREM RunInvariant == RunSpec => []RunInv
<1>1. RunInv /\ [RunNext]_runVars => RunInv'
  <2>1. ASSUME RunInv, NEW bar \in Bar, NextRow(bar)
        PROVE  RunInv'
    BY <2>1, RowTypes, RowResults, RowOrder, RowAccount, RowWritten DEF RunInv
  <2> QED BY <2>1, RunInvValidated, RunInvRaised, RunInvUnchanged DEF RunNext
<1> QED BY <1>1, RunInvAtFirst, PTL DEF RunSpec

(* What a bot is told of a row, over the rows that its feed keeps, is what *)
(* a backtest over all makes of it, if they are the rows that the          *)
(* conditions look at (latest_signal and run_strategy).                    *)
THEOREM ToldAsBacktested == RunSpec => []LatestIsBatch
BY RunInvariant, ToldIsBatch, PTL

-----------------------------------------------------------------------------
(* The equity curve has a number for each row: what the account shows.     *)
LEMMA CurveIs ==
    ASSUME RunInv, df # <<>>
    PROVE  /\ df \in Seq(Bar) /\ Len(df) \in Nat \ {0} /\ DOMAIN df = 1..Len(df)
           /\ trades \in Seq(Trade) /\ trade_costs = ApplyCosts(trades)
           /\ curve \in Seq(Nat) /\ Len(curve) = Len(df) /\ DOMAIN curve = 1..Len(df)
           /\ \A t \in 1..Len(df) : curve[t] = MarkedValue(t) /\ curve[t] \in Nat
           /\ curve[1] > 0
<1>1. /\ df \in Seq(Bar) /\ Len(df) \in Nat \ {0} /\ DOMAIN df = 1..Len(df)
      /\ trades \in Seq(Trade) /\ Len(trades) \in Nat /\ trade_costs = ApplyCosts(trades)
      /\ curve = EquityCurve(df, trades, trade_costs)
      /\ account \in AccountType /\ Len(account.values) = Len(df) /\ MarkedValue(1) > 0
  BY DEF RunInv, StrategyInv, ResultsOfRows, AccountInv, AccountType
<1>2. ASSUME NEW t \in 1..Len(df)
      PROVE  curve[t] = MarkedValue(t)
  <2> DEFINE writes == {k \in 1..Len(trades) + 1 : t \in WrittenFor(df, trades, k)}
  <2>1. writes # {}
    BY <1>1 DEF RunInv, RowsAreWritten
  <2>2. writes \subseteq 0..Len(trades) + 1 /\ Len(trades) + 1 \in Nat
    BY <1>1
  <2>3. curve[t] = Written(df, trades, trade_costs, Max(writes), t)
    BY <1>1, <2>1 DEF EquityCurve
  <2>4. Max(writes) \in writes
    <3> HIDE DEF writes
    <3> QED BY <2>1, <2>2, MaxIs
  <2> QED BY <1>1, <2>3, <2>4 DEF RunInv, RowsAreWritten
<1>3. ASSUME NEW t \in 1..Len(df)
      PROVE  MarkedValue(t) \in Nat
  BY <1>1 DEF MarkedValue, AccountType
<1>4. DOMAIN curve = 1..Len(df) /\ curve = [t \in 1..Len(df) |-> curve[t]]
  BY <1>1 DEF EquityCurve
<1>5. curve \in Seq(Nat) /\ Len(curve) = Len(df)
  BY <1>1, <1>2, <1>3, <1>4
<1>6. 1 \in 1..Len(df)
  BY <1>1
<1> QED BY <1>1, <1>2, <1>3, <1>4, <1>5, <1>6

(* Some numbers can be summed up.                                          *)
SumUp(f, gains, n) == f = [k \in 0..n |-> IF k = 0 THEN 0 ELSE f[k - 1] + gains[k]]

(* There is such a sum for any of them: the recursion is defined.          *)
LEMMA SumExists ==
    ASSUME NEW n \in Nat, NEW gains
    PROVE  \E f : SumUp(f, gains, n)
<1> DEFINE Have == {m \in 0..n : \E f : SumUp(f, gains, m)}
<1>1. 0 \in Have
  <2> DEFINE g == [k \in 0..0 |-> 0]
  <2>1. SumUp(g, gains, 0)
    BY DEF SumUp
  <2>2. \E f : SumUp(f, gains, 0)
    <3> HIDE DEF g
    <3> QED BY <2>1
  <2> QED BY <2>2
<1>2. ASSUME NEW m \in 1..n, m - 1 \in Have
      PROVE  m \in Have
  <2>1. PICK f : SumUp(f, gains, m - 1)
    BY <1>2
  <2> DEFINE g == [k \in 0..m |-> IF k = m THEN f[m - 1] + gains[m] ELSE f[k]]
  <2>2. ASSUME NEW k \in 0..m
        PROVE  g[k] = IF k = 0 THEN 0 ELSE g[k - 1] + gains[k]
    <3>1. CASE k = m
      <4>1. g[m] = f[m - 1] + gains[m] /\ g[m - 1] = f[m - 1] /\ m # 0
        OBVIOUS
      <4> QED BY <3>1, <4>1
    <3>2. CASE k # m
      <4>1. k \in 0..m - 1 /\ g[k] = f[k] /\ (k # 0 => k - 1 \in 0..m - 1 /\ k - 1 # m /\ g[k - 1] = f[k - 1])
        BY <3>2
      <4>2. f[k] = IF k = 0 THEN 0 ELSE f[k - 1] + gains[k]
        BY <2>1, <4>1 DEF SumUp
      <4> QED BY <4>1, <4>2
    <3> QED BY <3>1, <3>2
  <2>3. g = [k \in 0..m |-> IF k = 0 THEN 0 ELSE g[k - 1] + gains[k]]
    <3>1. g = [k \in 0..m |-> g[k]]
      OBVIOUS
    <3> HIDE DEF g
    <3> QED BY <2>2, <3>1
  <2>4. \E h : SumUp(h, gains, m)
    <3> HIDE DEF g
    <3> QED BY <2>3 DEF SumUp
  <2> QED BY <2>4
<1>3. \A k \in 0..n : k \in Have
  <2> HIDE DEF Have
  <2> QED BY <1>1, <1>2, InductionUpTo
<1> QED BY <1>3

(* What the trades gained or lost: its last sum.                           *)
PnlAbs(k) == trade_costs[k].equity_after - trade_costs[k].equity_before
Gains(sign) == [k \in 1..Len(trade_costs) |-> Max({0, sign * PnlAbs(k)})]

(* Gross is the last of the sums of what its LET defines.                  *)
LEMMA GrossIs ==
    ASSUME NEW sign, Len(trade_costs) \in Nat
    PROVE  \E f : SumUp(f, Gains(sign), Len(trade_costs)) /\ Gross(sign) = f[Len(trade_costs)]
<1> DEFINE n == Len(trade_costs)
           Sum(f) == f = [k \in 0..n |-> IF k = 0 THEN 0 ELSE f[k - 1] + Max({0, sign * PnlAbs(k)})]
<1>1. ASSUME NEW f
      PROVE  Sum(f) <=> SumUp(f, Gains(sign), n)
  <2>1. \A k \in 0..n : k # 0 => Gains(sign)[k] = Max({0, sign * PnlAbs(k)})
    BY DEF Gains
  <2>2. [k \in 0..n |-> IF k = 0 THEN 0 ELSE f[k - 1] + Gains(sign)[k]]
          = [k \in 0..n |-> IF k = 0 THEN 0 ELSE f[k - 1] + Max({0, sign * PnlAbs(k)})]
    BY <2>1
  <2> QED BY <2>2 DEF SumUp
<1>2. \E f : Sum(f)
  <2>1. \E f : SumUp(f, Gains(sign), n)
    BY SumExists
  <2> HIDE DEF Sum
  <2> QED BY <1>1, <2>1
<1>3. Gross(sign) = (CHOOSE f : Sum(f))[n]
  BY DEF Gross, PnlAbs
<1>4. Sum(CHOOSE f : Sum(f))
  <2> HIDE DEF Sum
  <2> QED BY <1>2
<1> HIDE DEF Sum
<1> QED BY <1>1, <1>3, <1>4

(* What the trades gained is the equity after them, less the capital.      *)
LEMMA GainsAddUp ==
    ASSUME trades \in Seq(Trade), trade_costs = ApplyCosts(trades)
    PROVE  Compounded(trades)[Len(trades)] = Capital + Gross(1) - Gross(-1)
<1> DEFINE n == Len(trades)
           equity == Compounded(trades)
<1>1. n \in Nat /\ Len(trade_costs) = n
  BY CostsAre
<1>2. PICK up : SumUp(up, Gains(1), n) /\ Gross(1) = up[n]
  BY <1>1, GrossIs
<1>3. PICK down : SumUp(down, Gains(-1), n) /\ Gross(-1) = down[n]
  BY <1>1, GrossIs
<1> DEFINE T == {k \in 0..n : up[k] \in Int /\ down[k] \in Int /\ equity[k] = Capital + up[k] - down[k]}
<1>4. 0 \in T
  BY <1>1, <1>2, <1>3, CompoundedIs, StrategyRunAssumption DEF SumUp
<1>5. ASSUME NEW k \in 1..n, k - 1 \in T
      PROVE  k \in T
  <2>1. k \in 0..n /\ k - 1 \in 0..n /\ k # 0
    BY <1>1
  <2>2. equity[k] \in Int /\ equity[k - 1] \in Int
    BY <2>1, CompoundedType
  <2>3. PnlAbs(k) = equity[k] - equity[k - 1]
    BY CostsAre DEF PnlAbs
  <2> HIDE DEF equity
  <2>4. /\ up[k] = up[k - 1] + Max({0, 1 * PnlAbs(k)})
        /\ down[k] = down[k - 1] + Max({0, (-1) * PnlAbs(k)})
    BY <1>1, <1>2, <1>3, <2>1 DEF SumUp, Gains
  <2>5. PnlAbs(k) \in Int
    BY <2>2, <2>3
  <2>6. /\ Max({0, 1 * PnlAbs(k)}) = IF PnlAbs(k) > 0 THEN PnlAbs(k) ELSE 0
        /\ Max({0, (-1) * PnlAbs(k)}) = IF PnlAbs(k) > 0 THEN 0 ELSE 0 - PnlAbs(k)
    BY <2>5, MaxOfTwo
  <2>7. up[k - 1] \in Int /\ down[k - 1] \in Int /\ equity[k - 1] = Capital + up[k - 1] - down[k - 1]
    BY <1>5
  <2>8. up[k] \in Int /\ down[k] \in Int /\ equity[k] = Capital + up[k] - down[k]
    <3> DEFINE gain == PnlAbs(k)
    <3>1. Capital \in Int
      BY StrategyRunAssumption
    <3>2. /\ up[k] = up[k - 1] + (IF gain > 0 THEN gain ELSE 0)
          /\ down[k] = down[k - 1] + (IF gain > 0 THEN 0 ELSE 0 - gain)
      BY <2>4, <2>6
    <3>3. gain \in Int /\ gain = equity[k] - equity[k - 1]
      BY <2>3, <2>5
    <3> HIDE DEF gain, equity
    <3>4. PICK u \in Int : u = up[k - 1]
      BY <2>7
    <3>5. PICK d \in Int : d = down[k - 1]
      BY <2>7
    <3>6. PICK e \in Int : e = equity[k - 1]
      BY <2>2
    <3>7. PICK f \in Int : f = equity[k]
      BY <2>2
    <3>8. e = Capital + u - d /\ gain = f - e
      BY <2>7, <3>3, <3>4, <3>5, <3>6, <3>7
    <3>9. CASE gain > 0
      <4>1. up[k] = u + (f - e)
        BY <3>2, <3>4, <3>8, <3>9
      <4>2. down[k] = d
        BY <3>2, <3>5, <3>9
      <4> QED BY <3>1, <3>7, <3>8, <4>1, <4>2
    <3>10. CASE ~(gain > 0)
      <4>1. up[k] = u
        BY <3>2, <3>4, <3>10
      <4>2. down[k] = d - (f - e)
        BY <3>2, <3>5, <3>8, <3>10
      <4> QED BY <3>1, <3>7, <3>8, <4>1, <4>2
    <3> QED BY <3>9, <3>10
  <2> QED BY <2>1, <2>8
<1>6. \A k \in 0..n : k \in T
  <2> HIDE DEF T, n
  <2> QED BY <1>1, <1>4, <1>5, InductionUpTo
<1> QED BY <1>1, <1>2, <1>3, <1>6

(* The two conjuncts of CurveIsMarked, in a state of the invariant.        *)
LEMMA CurveMarks == RunInv => CurveIsMarked
<1> SUFFICES ASSUME RunInv PROVE CurveIsMarked
  OBVIOUS
<1>1. \A t \in DOMAIN df : curve[t] = MarkedValue(t)
  BY CurveIs DEF RunInv, StrategyInv
<1>2. ASSUME df # <<>>
      PROVE  Last(curve) = Capital + Gross(1) - Gross(-1)
  <2>1. Last(curve) = MarkedValue(Len(df)) /\ Len(df) \in Nat \ {0}
    BY <1>2, CurveIs DEF Last
  <2>2. MarkedValue(Len(df)) = account.cash
    <3>1. entry_time \in 0..Len(df) /\ Len(account.values) = Len(df)
          /\ (bt = None => Last(account.values) = account.cash)
      BY <1>2 DEF RunInv, StrategyInv, AccountInv
    <3> QED BY <2>1, <3>1 DEF MarkedValue, Last
  <2>3. account.cash = Compounded(trades)[Len(trades)]
    BY DEF RunInv, AccountInv
  <2> QED BY <1>2, <2>1, <2>2, <2>3, CurveIs, GainsAddUp
<1> QED BY <1>1, <1>2 DEF CurveIsMarked

(* build_equity_curve writes, from the trades of the whole run, what an    *)
(* account that trades candle by candle shows; and its last point is the   *)
(* capital with all gains and losses of compute_trade_stats.               *)
THEOREM CurveIsThatOfAccount == RunSpec => []CurveIsMarked
BY RunInvariant, CurveMarks, PTL

-----------------------------------------------------------------------------
(* Products keep and reveal order.                                         *)
LEMMA ProductsInOrder ==
    /\ \A a, b, c \in Nat : a <= b => a * c <= b * c
    /\ \A a, b, c \in Nat : c > 0 /\ a * c <= b * c => a <= b
    /\ \A a, b, c \in Nat : a * b = b * a /\ (a * b) * c = a * (b * c)
<1>1. \A a, b, c \in Nat : a <= b => a * c <= b * c
  BY SMT
<1>2. ASSUME NEW a \in Nat, NEW b \in Nat, NEW c \in Nat, c > 0, a * c <= b * c
      PROVE  a <= b
  <2> SUFFICES ASSUME b + 1 <= a PROVE FALSE
    OBVIOUS
  <2>1. (b + 1) * c <= a * c
    BY <1>1
  <2> QED BY <1>2, <2>1
<1>3. \A a, b, c \in Nat : a * b = b * a /\ (a * b) * c = a * (b * c)
  BY SMT
<1> QED BY <1>1, <1>2, <1>3

(* Of falls a from A, b from B and c from C: one that is as deep as a      *)
(* second, which is as deep as a third, is as deep as the third.           *)
LEMMA DeeperThan ==
    ASSUME NEW a \in Nat, NEW A \in Nat, NEW b \in Nat, NEW B \in Nat, NEW c \in Nat, NEW C \in Nat,
           B > 0, a * B >= b * A, b * C >= c * B
    PROVE  a * C >= c * A
<1>1. (a * B) * C >= (b * A) * C
  BY ProductsInOrder, Products
<1>2. (b * C) * A >= (c * B) * A
  BY ProductsInOrder, Products
<1>3. /\ (a * B) * C = (a * C) * B /\ (b * A) * C = (b * C) * A /\ (c * B) * A = (c * A) * B
      /\ a * C \in Nat /\ c * A \in Nat /\ (a * C) * B \in Nat /\ (b * C) * A \in Nat /\ (c * A) * B \in Nat
  BY ProductsInOrder, Products
<1>4. (c * A) * B <= (a * C) * B
  BY <1>1, <1>2, <1>3
<1> QED BY <1>3, <1>4, ProductsInOrder

(* If the fall from p to q is as deep as that from m to t, it is as deep   *)
(* as that to t from i, which is not above m.                              *)
LEMMA NotSoDeep ==
    ASSUME NEW p \in Nat, NEW q \in Nat, NEW m \in Nat, NEW t \in Nat, NEW i \in Nat,
           i <= m, (p - q) * m >= (m - t) * p
    PROVE  (i - t) * p <= (p - q) * i
<1>1. (p - q) * m = p * m - q * m /\ (m - t) * p = m * p - t * p /\ p * m = m * p
  BY SMT
<1>2. p * m \in Nat /\ q * m \in Nat /\ t * p \in Nat /\ q * i \in Nat /\ p * i \in Nat
  BY Products
<1>3. q * m <= t * p
  BY <1>1, <1>2
<1>4. q * i <= q * m
  BY ProductsInOrder
<1>5. (i - t) * p = i * p - t * p /\ (p - q) * i = p * i - q * i /\ p * i = i * p
  BY SMT
<1>6. q * m \in Nat /\ i * p \in Nat
  BY Products
<1> QED BY <1>2, <1>3, <1>4, <1>5, <1>6

(* The highest of the values of a series up to a point.                    *)
LEMMA HighestIs ==
    ASSUME NEW n \in Nat, NEW series, \A i \in 1..n : series[i] \in Nat, NEW t \in 1..n
    PROVE  \E j \in 1..t : /\ Max({series[i] : i \in 1..t}) = series[j]
                           /\ \A i \in 1..t : series[i] <= series[j]
<1> DEFINE Tops(k) == {j \in 1..k : \A i \in 1..k : series[i] <= series[j]}
           T == {k \in 0..n : k > 0 => Tops(k) # {}}
<1>1. 0 \in T
  OBVIOUS
<1>2. ASSUME NEW k \in 1..n, k - 1 \in T
      PROVE  k \in T
  <2>1. series[k] \in Nat /\ \A i \in 1..k - 1 : i \in 1..n /\ series[i] \in Nat
    OBVIOUS
  <2>2. CASE k = 1
    <3>1. 1 \in Tops(1)
      BY <2>1, <2>2
    <3> HIDE DEF Tops
    <3> QED BY <2>2, <3>1
  <2>3. CASE k > 1
    <3>1. PICK j \in Tops(k - 1) : TRUE
      BY <1>2, <2>3
    <3>2. j \in 1..k - 1 /\ \A i \in 1..k - 1 : series[i] <= series[j]
      OBVIOUS
    <3>3. CASE series[k] <= series[j]
      <4>1. j \in Tops(k)
        BY <2>1, <3>2, <3>3
      <4> HIDE DEF Tops
      <4> QED BY <4>1
    <3>4. CASE ~(series[k] <= series[j])
      <4>1. k \in Tops(k)
        BY <2>1, <3>2, <3>4
      <4> HIDE DEF Tops
      <4> QED BY <4>1
    <3> QED BY <3>3, <3>4
  <2> QED BY <2>2, <2>3
<1>3. t \in T
  <2>1. \A k \in 0..n : k \in T
    <3> HIDE DEF T
    <3> QED BY <1>1, <1>2, InductionUpTo
  <2> HIDE DEF T
  <2> QED BY <2>1
<1>4. PICK j \in 1..t : \A i \in 1..t : series[i] <= series[j]
  BY <1>3
<1> DEFINE Values == {series[i] : i \in 1..t}
<1>5. series[j] \in Values /\ \A v \in Values : v \in Nat /\ v <= series[j]
  BY <1>4
<1>6. Max(Values) = series[j]
  <2> HIDE DEF Values
  <2> QED BY <1>5 DEF Max
<1> QED BY <1>4, <1>6

(* Of some falls, each from a height above 0, one is the deepest.          *)
LEMMA DeepestIs ==
    ASSUME NEW n \in Nat \ {0}, NEW fall, NEW height,
           \A i \in 1..n : fall[i] \in Nat /\ height[i] \in Nat \ {0}
    PROVE  \E t \in 1..n : \A i \in 1..n : fall[t] * height[i] >= fall[i] * height[t]
<1> DEFINE Deepest(k) == {t \in 1..k : \A i \in 1..k : fall[t] * height[i] >= fall[i] * height[t]}
           T == {k \in 0..n : k > 0 => Deepest(k) # {}}
<1>1. 0 \in T
  OBVIOUS
<1>2. ASSUME NEW k \in 1..n, k - 1 \in T
      PROVE  k \in T
  <2>1. \A i \in 1..k : i \in 1..n /\ fall[i] \in Nat /\ height[i] \in Nat /\ height[i] > 0
    OBVIOUS
  <2>2. \A i, j \in 1..k : fall[i] * height[j] \in Nat
    BY <2>1, Products
  <2>3. CASE k = 1
    <3>1. 1 \in Deepest(1)
      BY <2>2, <2>3
    <3> HIDE DEF Deepest
    <3> QED BY <2>3, <3>1
  <2>4. CASE k > 1
    <3>1. PICK t \in Deepest(k - 1) : TRUE
      BY <1>2, <2>4
    <3>2. t \in 1..k - 1 /\ \A i \in 1..k - 1 : fall[t] * height[i] >= fall[i] * height[t]
      OBVIOUS
    <3>3. CASE fall[t] * height[k] >= fall[k] * height[t]
      <4>1. t \in Deepest(k)
        BY <3>2, <3>3
      <4> HIDE DEF Deepest
      <4> QED BY <4>1
    <3>4. CASE ~(fall[t] * height[k] >= fall[k] * height[t])
      <4>1. fall[k] * height[t] >= fall[t] * height[k]
        BY <2>2, <3>2, <3>4
      <4>2. ASSUME NEW i \in 1..k
            PROVE  fall[k] * height[i] >= fall[i] * height[k]
        <5>1. CASE i = k
          BY <2>2, <5>1
        <5>2. CASE i # k
          <6>1. i \in 1..k - 1 /\ fall[t] * height[i] >= fall[i] * height[t]
            BY <3>2, <5>2
          <6>2. k \in 1..k /\ t \in 1..k
            BY <3>2
          <6> QED BY <2>1, <4>1, <6>1, <6>2, DeeperThan
        <5> QED BY <5>1, <5>2
      <4>3. k \in Deepest(k)
        BY <4>2
      <4> HIDE DEF Deepest
      <4> QED BY <4>3
    <3> QED BY <3>3, <3>4
  <2> QED BY <2>3, <2>4
<1>3. n \in T
  <2> HIDE DEF T
  <2> QED BY <1>1, <1>2, InductionUpTo
<1> QED BY <1>3

(* The trough is the deepest fall from what was highest before.            *)
LEMMA TroughIs ==
    ASSUME RunInv, df # <<>>
    PROVE  /\ Trough \in 1..Len(df)
           /\ \A t \in 1..Len(df) :
                 /\ RunningMax(t) \in Nat /\ RunningMax(t) > 0
                 /\ \A i \in 1..t : curve[i] <= RunningMax(t)
                 /\ (RunningMax(Trough) - curve[Trough]) * RunningMax(t)
                       >= (RunningMax(t) - curve[t]) * RunningMax(Trough)
<1> DEFINE n == Len(df)
<1>1. /\ n \in Nat \ {0} /\ DOMAIN curve = 1..n /\ curve[1] > 0
      /\ \A i \in 1..n : curve[i] \in Nat
  BY CurveIs
<1>2. ASSUME NEW t \in 1..n
      PROVE  /\ RunningMax(t) \in Nat /\ RunningMax(t) > 0
             /\ \A i \in 1..t : curve[i] <= RunningMax(t)
  <2>1. PICK j \in 1..t : RunningMax(t) = curve[j] /\ \A i \in 1..t : curve[i] <= curve[j]
    BY <1>1, HighestIs DEF RunningMax
  <2>2. 1 \in 1..t /\ j \in 1..n
    BY <1>1
  <2> QED BY <1>1, <2>1, <2>2
<1> DEFINE height == [i \in 1..n |-> RunningMax(i)]
           fall == [i \in 1..n |-> RunningMax(i) - curve[i]]
           Troughs == {t \in DOMAIN curve : \A i \in DOMAIN curve :
              (RunningMax(t) - curve[t]) * RunningMax(i) >= (RunningMax(i) - curve[i]) * RunningMax(t)}
<1>3. \A i \in 1..n : fall[i] \in Nat /\ height[i] \in Nat \ {0}
  BY <1>1, <1>2
<1>4. PICK t \in 1..n : \A i \in 1..n : fall[t] * height[i] >= fall[i] * height[t]
  <2> HIDE DEF fall, height
  <2> QED BY <1>1, <1>3, DeepestIs
<1>5. t \in Troughs
  BY <1>1, <1>4
<1>6. Troughs \subseteq Nat
  BY <1>1
<1>7. Trough = Min(Troughs)
  BY DEF Trough
<1>8. Trough \in Troughs
  <2> HIDE DEF Troughs
  <2> QED BY <1>5, <1>6, <1>7, MinIs
<1> QED BY <1>1, <1>2, <1>8

(* The peak is the highest before the trough.                              *)
LEMMA PeakIs ==
    ASSUME RunInv, df # <<>>
    PROVE  Peak \in 1..Trough /\ curve[Peak] = RunningMax(Trough)
<1> DEFINE n == Len(df)
           Peaks == {t \in 1..Trough : \A i \in 1..Trough : curve[t] >= curve[i]}
<1>1. n \in Nat \ {0} /\ Trough \in 1..n /\ \A i \in 1..n : curve[i] \in Nat
  BY CurveIs, TroughIs
<1>2. PICK j \in 1..Trough : RunningMax(Trough) = curve[j] /\ \A i \in 1..Trough : curve[i] <= curve[j]
  BY <1>1, HighestIs DEF RunningMax
<1>3. \A i \in 1..Trough : i \in 1..n /\ curve[i] \in Nat
  BY <1>1
<1>4. j \in Peaks /\ Peaks \subseteq Nat
  BY <1>1, <1>2, <1>3
<1>5. Peak = Min(Peaks)
  BY DEF Peak
<1>6. Peak \in Peaks
  <2> HIDE DEF Peaks
  <2> QED BY <1>4, <1>5, MinIs
<1> QED BY <1>2, <1>3, <1>6

(* The two conjuncts of DrawdownIsWorst, in a state of the invariant.      *)
LEMMA DrawdownFromCurve == RunInv => DrawdownIsWorst
<1> SUFFICES ASSUME RunInv, df # <<>>
             PROVE  /\ \A i \in DOMAIN df : \A t \in i..Len(df) :
                          (curve[i] - curve[t]) * curve[Peak] <= (curve[Peak] - curve[Trough]) * curve[i]
                    /\ \A t \in Peak..Len(df) :
                          curve[t] > curve[Peak] => \E r \in Recovered : r <= t
  BY DEF DrawdownIsWorst
<1>1. /\ Len(df) \in Nat /\ DOMAIN df = 1..Len(df) /\ Len(curve) = Len(df)
      /\ \A i \in 1..Len(df) : curve[i] \in Nat
  BY CurveIs
<1>2. Trough \in 1..Len(df) /\ Peak \in 1..Trough /\ Peak \in 1..Len(df) /\ curve[Peak] = RunningMax(Trough)
  BY <1>1, TroughIs, PeakIs
<1>3. ASSUME NEW i \in DOMAIN df, NEW t \in i..Len(df)
      PROVE  (curve[i] - curve[t]) * curve[Peak] <= (curve[Peak] - curve[Trough]) * curve[i]
  <2>1. t \in 1..Len(df) /\ i \in 1..t /\ i \in 1..Len(df)
    BY <1>1
  <2>2. /\ RunningMax(t) \in Nat /\ curve[i] <= RunningMax(t)
        /\ (curve[Peak] - curve[Trough]) * RunningMax(t) >= (RunningMax(t) - curve[t]) * curve[Peak]
    BY <1>2, <2>1, TroughIs
  <2>3. curve[Peak] \in Nat /\ curve[Trough] \in Nat /\ curve[t] \in Nat /\ curve[i] \in Nat
    BY <1>1, <1>2, <2>1
  <2> QED BY <2>2, <2>3, NotSoDeep
<1>4. ASSUME NEW t \in Peak..Len(df), curve[t] > curve[Peak]
      PROVE  \E r \in Recovered : r <= t
  <2>1. t \in 1..Len(df) /\ curve[t] \in Nat /\ curve[Peak] \in Nat
    BY <1>1, <1>2
  <2>2. t >= Trough
    <3> SUFFICES ASSUME t < Trough PROVE FALSE
      BY <1>2, <2>1
    <3>1. t \in 1..Trough
      BY <1>2, <2>1
    <3>2. curve[t] <= RunningMax(Trough)
      BY <1>2, <3>1, TroughIs
    <3> QED BY <1>2, <1>4, <2>1, <3>2
  <2>3. t \in Recovered
    BY <1>1, <1>2, <1>4, <2>1, <2>2 DEF Recovered
  <2> QED BY <2>1, <2>3
<1> QED BY <1>3, <1>4

(* No fall of the curve is deeper than that which compute_drawdown shows,  *)
(* in proportion to where it started, and nothing is higher than its peak  *)
(* until the recovery that it shows.                                       *)
THEOREM DrawdownIsTheWorst == RunSpec => []DrawdownIsWorst
BY RunInvariant, DrawdownFromCurve, PTL

-----------------------------------------------------------------------------
(* The live interpreter.  A restart may lower highest_since_entry, hence   *)
(* the trailing stop, and nothing else; so of all reasons to exit only     *)
(* that one can be missed.                                                 *)
USE LiveAssumption

(* What the bot does on a candle has the types it should, and what it      *)
(* saves is the position it entered.                                       *)
LEMMA LiveType ==
    ASSUME TypeOK, SavedEntry, NEW c \in Candle, AsBacktested(c) \/ NotAsBacktested(c)
    PROVE  /\ position' \in Position \cup {None} /\ saved' \in Position \cup {None}
           /\ action' \in Actions \cup {None}
           /\ SavedEntry'
<1>1. c.close \in Prices /\ c.high \in Prices /\ c.close * Den \in Nat
  BY ScaledPrices DEF Candle
<1>2. ASSUME position # None
      PROVE  /\ Watched(c) \in Position /\ Watched(c).entry_price = position.entry_price
             /\ position.highest <= Watched(c).highest
             /\ StopLossPrice(Watched(c)) \in Nat /\ TakeProfitPrice(Watched(c)) \in Nat
             /\ TrailingStopPrice(Watched(c)) \in Nat
  <2>1. position \in Position
    BY <1>2 DEF TypeOK
  <2>2. /\ Watched(c) \in Position /\ Watched(c).entry_price = position.entry_price
        /\ position.highest <= Watched(c).highest
    BY <1>1, <2>1, HigherIs, Numbers DEF Watched, Position
  <2> QED BY <2>2, ScaledPrices
<1>3. ASSUME NEW reason \in {"stop_loss", "take_profit", "trailing_stop", "exit_signal",
                            "hard_stop_loss"}, NEW price \in Nat, Close(reason, price)
      PROVE  /\ position' = None /\ saved' = None /\ action' \in Actions
  BY <1>3 DEF Close, Actions, Act
<1>4. CASE HardStopLoss(c) \/ StopLoss(c) \/ TakeProfit(c) \/ TrailingStop(c) \/ ExitSignal(c)
  <2>1. /\ position' = None /\ saved' = None /\ action' \in Actions
    BY <1>1, <1>2, <1>3, <1>4 DEF HardStopLoss, HardStopHit, StopLoss, TakeProfit, TrailingStop,
       ExitSignal, Holding
  <2> QED BY <2>1 DEF SavedEntry
<1>5. CASE Hold(c)
  <2>1. position # None /\ position' = Watched(c) /\ saved' = saved /\ action' = None
    BY <1>5 DEF Hold, Holding
  <2>2. /\ position \in Position /\ saved \in Position /\ saved.highest \in Nat
        /\ position.highest \in Nat /\ Watched(c).highest \in Nat
    BY <1>2, <2>1, Numbers DEF TypeOK, SavedEntry, Position
  <2>3. saved.entry_price = position.entry_price /\ saved.highest <= position.highest
    BY <2>1 DEF SavedEntry
  <2> QED BY <1>2, <2>1, <2>2, <2>3, NoneAssumption DEF SavedEntry
<1>6. CASE StayOut(c) \/ Rejected(c)
  BY <1>6 DEF StayOut, Rejected, TypeOK, SavedEntry
<1>7. ASSUME NEW fill \in Prices, Enter(c, fill)
      PROVE  /\ position' \in Position /\ saved' = position' /\ action' \in Actions
             /\ SavedEntry'
  <2>1. /\ position' = [entry_price |-> fill, highest |-> fill] /\ saved' = position'
        /\ action' = Act("enter", c.close * Den)
    BY <1>7 DEF Enter
  <2>2. position' \in Position /\ action' \in Actions
    BY <1>1, <2>1 DEF Position, Actions, Act
  <2>3. position'.highest \in Nat
    BY <2>2, Numbers DEF Position
  <2> QED BY <2>1, <2>2, <2>3, NoneAssumption DEF SavedEntry
<1> QED BY <1>1, <1>4, <1>5, <1>6, <1>7 DEF AsBacktested, NotAsBacktested

(* An action is not None.                                                  *)
LEMMA ActIsSome ==
    ASSUME NEW reason \in {"enter", "stop_loss", "take_profit", "trailing_stop", "exit_signal",
                           "hard_stop_loss"}, NEW price \in Nat
    PROVE  Act(reason, price) # None /\ Act(reason, price).reason = reason
BY NoneAssumption DEF Act, Actions

(* While both hold the same trade: if run_strategy goes on holding it so   *)
(* does the bot, and the bot does what run_strategy does, but for a hard   *)
(* stop-loss on a candle that stops out, and a trailing stop that a        *)
(* restart has lowered.                                                    *)
LEMMA InTrade ==
    ASSUME TypeOK, InStep, ~apart, bt # None, NEW c \in Candle, BtCandle(c), AsBacktested(c)
    PROVE  /\ bt' # None =>
                 /\ position' # None /\ position'.entry_price = bt'.entry_price
                 /\ position'.highest <= bt'.highest
                 /\ ~restarted => position'.highest = bt'.highest
           /\ \/ action' = bt_action'
              \/ /\ action' # None /\ action'.reason = "hard_stop_loss"
                 /\ bt_action'.reason = "stop_loss" /\ action'.price <= bt_action'.price
              \/ restarted /\ bt_action' # None /\ bt_action'.reason = "trailing_stop"
<1> DEFINE p == [bt EXCEPT !.highest = Higher(@, c.high)]
           q == Watched(c)
<1>1. /\ bt_action' = ExitOf(p, c)
      /\ bt' = IF ExitOf(p, c) = None THEN p ELSE None
  BY DEF BtCandle, BtEntry, BtHolding
<1>2. /\ position # None /\ bt \in Position /\ position \in Position
      /\ position.entry_price = bt.entry_price /\ position.highest <= bt.highest
      /\ ~restarted => position.highest = bt.highest
  BY DEF InStep, TypeOK
<1>3. c.high \in Prices /\ c.low \in Nat /\ c.close \in Nat /\ c.low <= c.close
  BY Numbers DEF Candle
<1>4. p \in Position /\ q \in Position /\ q.entry_price = p.entry_price
  BY <1>2, <1>3, HigherIs DEF Position, Watched
<1>5. q.highest <= p.highest /\ (~restarted => q.highest = p.highest)
  BY <1>2, <1>3, HigherIs DEF Position, Watched
<1>6. position.entry_price = p.entry_price
  BY <1>2, <1>4 DEF Position
<1> HIDE DEF p, q
<1>7. /\ StopLossPrice(q) = StopLossPrice(p) /\ TakeProfitPrice(q) = TakeProfitPrice(p)
      /\ StopLossPrice(p) \in Nat /\ TakeProfitPrice(p) \in Nat
      /\ TrailingStopPrice(q) \in Nat /\ TrailingStopPrice(p) \in Nat
  BY <1>4, ScaledPrices DEF StopLossPrice, TakeProfitPrice
<1>8. TrailingStopPrice(q) <= TrailingStopPrice(p)
  <2>1. q.highest \in Nat /\ p.highest \in Nat
    BY <1>4, Numbers DEF Position
  <2> QED BY <1>5, <2>1, Monotone, Numbers DEF TrailingStopPrice
<1>9. ~restarted => TrailingStopPrice(q) = TrailingStopPrice(p)
  BY <1>5 DEF TrailingStopPrice
<1>10. c.low * Den <= c.close * Den /\ c.low * Den \in Nat /\ c.close * Den \in Nat
  BY <1>3, Monotone, Numbers, ScaledPrices DEF Candle
<1>11. HardStopHit(c) <=> c.close * Den <= StopLossPrice(p)
  BY <1>2, <1>6 DEF HardStopHit, StopLossPrice
<1>12. CASE HardStopLoss(c)
  <2>1. /\ action' = Act("hard_stop_loss", c.close * Den)
        /\ c.close * Den <= StopLossPrice(p)
    BY <1>11, <1>12 DEF HardStopLoss, Close
  <2>2. c.low * Den <= StopLossPrice(p)
    BY <1>7, <1>10, <2>1
  <2>3. ExitOf(p, c) = Act("stop_loss", StopLossPrice(p))
    BY <2>2 DEF ExitOf
  <2>4. Act("hard_stop_loss", c.close * Den) \in Actions /\ Act("stop_loss", StopLossPrice(p)) \in Actions
    BY <1>7, <1>10 DEF Act, Actions
  <2> QED BY <1>1, <2>1, <2>3, <2>4, NoneAssumption DEF Act
<1>13. CASE StopLoss(c)
  <2>1. c.low * Den <= StopLossPrice(p) /\ action' = Act("stop_loss", StopLossPrice(p))
    BY <1>7, <1>13 DEF StopLoss, HitsStop, Close, q
  <2> QED BY <1>1, <2>1, ActIsSome, <1>7 DEF ExitOf
<1>14. CASE TakeProfit(c)
  <2>1. /\ ~(c.low * Den <= StopLossPrice(p)) /\ c.high * Den >= TakeProfitPrice(p)
        /\ action' = Act("take_profit", TakeProfitPrice(p))
    BY <1>7, <1>14 DEF TakeProfit, HitsStop, HitsTake, Close, q
  <2> QED BY <1>1, <2>1, ActIsSome, <1>7 DEF ExitOf
<1>15. CASE TrailingStop(c)
  <2>1. /\ ~(c.low * Den <= StopLossPrice(p)) /\ ~(c.high * Den >= TakeProfitPrice(p))
        /\ c.low * Den <= TrailingStopPrice(q)
        /\ action' = Act("trailing_stop", TrailingStopPrice(q))
    BY <1>7, <1>15 DEF TrailingStop, HitsStop, HitsTake, HitsTrail, Close, q
  <2>2. ExitOf(p, c) = Act("trailing_stop", TrailingStopPrice(p))
    BY <1>7, <1>8, <1>10, <2>1 DEF ExitOf
  <2>3. ExitOf(p, c) # None /\ ExitOf(p, c).reason = "trailing_stop"
    BY <1>7, <2>2, ActIsSome
  <2> QED BY <1>1, <1>9, <2>1, <2>2, <2>3
<1>16. CASE ExitSignal(c)
  <2>1. /\ ~(c.low * Den <= StopLossPrice(p)) /\ ~(c.high * Den >= TakeProfitPrice(p))
        /\ ~(c.low * Den <= TrailingStopPrice(q)) /\ c.exit
        /\ action' = Act("exit_signal", c.close * Den)
    BY <1>7, <1>16 DEF ExitSignal, HitsStop, HitsTake, HitsTrail, Close, q
  <2>2. CASE c.low * Den <= TrailingStopPrice(p)
    <3>1. ExitOf(p, c) = Act("trailing_stop", TrailingStopPrice(p)) /\ restarted
      BY <1>9, <2>1, <2>2 DEF ExitOf
    <3> QED BY <1>1, <1>7, <3>1, ActIsSome
  <2>3. CASE ~(c.low * Den <= TrailingStopPrice(p))
    BY <1>1, <1>10, <2>1, <2>3, ActIsSome DEF ExitOf
  <2> QED BY <2>2, <2>3
<1>17. CASE Hold(c)
  <2>1. /\ ~(c.low * Den <= StopLossPrice(p)) /\ ~(c.high * Den >= TakeProfitPrice(p))
        /\ ~(c.low * Den <= TrailingStopPrice(q)) /\ ~c.exit
        /\ action' = None /\ position' = q
    BY <1>7, <1>17 DEF Hold, HitsStop, HitsTake, HitsTrail, q
  <2>2. CASE c.low * Den <= TrailingStopPrice(p)
    <3>1. ExitOf(p, c) = Act("trailing_stop", TrailingStopPrice(p)) /\ restarted
      BY <1>9, <2>1, <2>2 DEF ExitOf
    <3> QED BY <1>1, <1>7, <3>1, ActIsSome
  <2>3. CASE ~(c.low * Den <= TrailingStopPrice(p))
    <3>1. ExitOf(p, c) = None
      BY <2>1, <2>3 DEF ExitOf
    <3>2. q # None
      BY <1>4, NoneAssumption
    <3> QED BY <1>1, <1>4, <1>5, <2>1, <3>1, <3>2
  <2> QED BY <2>2, <2>3
<1> QED BY <1>2, <1>12, <1>13, <1>14, <1>15, <1>16, <1>17 DEF AsBacktested, StayOut, Enter

(* While both are flat they enter together, at the same price.             *)
LEMMA WhileFlat ==
    ASSUME bt = None, position = None, NEW c \in Candle, BtCandle(c), AsBacktested(c)
    PROVE  /\ bt' = position' /\ action' = bt_action'
           /\ bt' \in {None, [entry_price |-> c.close, highest |-> c.close]}
BY DEF BtCandle, BtEntry, BtHolding, AsBacktested, HardStopLoss, HardStopHit, StopLoss,
   TakeProfit, TrailingStop, ExitSignal, Hold, Holding, StayOut, Enter

(* The invariant holds at first.                                           *)
LEMMA InitInv == Init => LiveInv
<1> SUFFICES ASSUME Init PROVE LiveInv
  OBVIOUS
<1>1. TypeOK
  <2>1. 0 \in 0..MaxFaults
    BY LiveAssumption
  <2> QED BY <2>1 DEF Init, BtInit, TypeOK
<1>2. InStep /\ SavedEntry
  BY DEF Init, BtInit, InStep, SavedEntry
<1> QED BY <1>1, <1>2 DEF LiveInv

(* Every step keeps the types and what is saved.                           *)
LEMMA StepType == LiveInv /\ [Next]_vars => TypeOK' /\ SavedEntry'
<1> SUFFICES ASSUME TypeOK, SavedEntry, [Next]_vars PROVE TypeOK' /\ SavedEntry'
  BY DEF LiveInv
<1>1. bt \in Position \cup {None}
  BY DEF TypeOK
<1>2. ASSUME NEW c \in Candle, CandleCloses(c) \/ OrderDiffers(c)
      PROVE  TypeOK' /\ SavedEntry'
  <2>1. /\ BtCandle(c) /\ (AsBacktested(c) \/ NotAsBacktested(c)) /\ KeepsRestarted
        /\ faults' \in 0..MaxFaults
    BY <1>2 DEF CandleCloses, OrderDiffers, Fault, TypeOK
  <2>2. apart' \in BOOLEAN
    BY <1>2 DEF CandleCloses, OrderDiffers
  <2> QED BY <1>1, <2>1, <2>2, BtType, LiveType DEF TypeOK, KeepsRestarted
<1>3. ASSUME NEW c \in Candle, CandleMissed(c)
      PROVE  TypeOK' /\ SavedEntry'
  <2>1. /\ BtCandle(c) /\ UNCHANGED <<position, saved, action, restarted>>
        /\ faults' \in 0..MaxFaults /\ apart' \in BOOLEAN
    BY <1>3 DEF CandleMissed, Fault, TypeOK, liveVars
  <2> QED BY <1>1, <2>1, BtType DEF TypeOK, SavedEntry
<1>4. ASSUME NEW c \in Candle, CandleSeenAgain(c)
      PROVE  TypeOK' /\ SavedEntry'
  <2>1. /\ AsBacktested(c) \/ NotAsBacktested(c)
        /\ KeepsRestarted /\ UNCHANGED <<bt, bt_action>>
        /\ faults' \in 0..MaxFaults /\ apart' \in BOOLEAN
    BY <1>4 DEF CandleSeenAgain, Fault, TypeOK, btVars
  <2> QED BY <2>1, LiveType DEF TypeOK, KeepsRestarted
<1>5. CASE Restart
  <2>1. /\ position' = saved /\ saved' = saved /\ action' = None
        /\ UNCHANGED <<bt, bt_action, apart>>
        /\ restarted' \in BOOLEAN /\ faults' \in 0..MaxFaults
    BY <1>5 DEF Restart, Fault, TypeOK, btVars
  <2>2. saved # None => saved.highest \in Nat
    BY Numbers DEF TypeOK, Position
  <2> QED BY <2>1, <2>2 DEF TypeOK, SavedEntry
<1>6. CASE UNCHANGED vars
  BY <1>6 DEF vars, btVars, liveVars, TypeOK, SavedEntry
<1> QED BY <1>2, <1>3, <1>4, <1>5, <1>6 DEF Next

(* When both are flat there is nothing in which they could differ.         *)
LEMMA FlatInStep == BothFlat => InStep
BY DEF BothFlat, InStep

(* Every step keeps the invariant.                                         *)
LEMMA StepInv == LiveInv /\ [Next]_vars => LiveInv'
<1> SUFFICES ASSUME LiveInv, [Next]_vars PROVE InStep'
  BY StepType DEF LiveInv
<1>1. TypeOK /\ TypeOK' /\ InStep /\ SavedEntry
  BY StepType DEF LiveInv
<1>2. ASSUME NEW c \in Candle, CandleCloses(c)
      PROVE  InStep'
  <2>1. /\ BtCandle(c) /\ AsBacktested(c) /\ restarted' = (restarted /\ position' # None)
        /\ apart' = (~BothFlat' /\ (apart \/ bt' = None))
    BY <1>2 DEF CandleCloses, KeepsRestarted
  <2>2. SUFFICES ASSUME ~apart, bt' # None PROVE InStep'
    BY <2>1 DEF InStep, BothFlat
  <2>3. CASE bt = None
    <3>1. position = None
      BY <1>1, <2>2, <2>3 DEF InStep
    <3>2. /\ bt' = position'
          /\ bt' = [entry_price |-> c.close, highest |-> c.close]
      BY <2>1, <2>2, <2>3, <3>1, WhileFlat
    <3>3. bt'.highest \in Nat
      BY <1>1, <2>2, Numbers DEF TypeOK, Position
    <3> QED BY <2>2, <3>2, <3>3 DEF InStep
  <2>4. CASE bt # None
    <3>1. /\ position' # None /\ position'.entry_price = bt'.entry_price
          /\ position'.highest <= bt'.highest
          /\ ~restarted => position'.highest = bt'.highest
      BY <1>1, <2>1, <2>2, <2>4, InTrade
    <3> QED BY <2>1, <2>2, <3>1 DEF InStep
  <2> QED BY <2>3, <2>4
<1>3. ASSUME NEW c \in Candle, OrderDiffers(c) \/ CandleMissed(c) \/ CandleSeenAgain(c)
      PROVE  InStep'
  <2>1. apart' = ~BothFlat'
    BY <1>3 DEF OrderDiffers, CandleMissed, CandleSeenAgain
  <2> QED BY <2>1 DEF InStep, BothFlat
<1>4. CASE Restart
  <2>1. /\ position' = saved /\ UNCHANGED <<bt, apart>> /\ restarted' = (position # None)
    BY <1>4 DEF Restart, btVars
  <2>2. SUFFICES ASSUME ~apart PROVE InStep'
    BY <2>1 DEF InStep
  <2>3. CASE bt = None
    BY <1>1, <2>1, <2>2, <2>3 DEF InStep, SavedEntry
  <2>4. CASE bt # None
    <3>1. /\ position # None /\ saved # None /\ saved.entry_price = bt.entry_price
          /\ saved.highest <= position.highest /\ position.highest <= bt.highest
      BY <1>1, <2>2, <2>4 DEF InStep, SavedEntry
    <3>2. saved.highest \in Nat /\ position.highest \in Nat /\ bt.highest \in Nat
      BY <1>1, <2>4, <3>1, Numbers DEF TypeOK, Position
    <3>3. saved.highest <= bt.highest
      BY <3>1, <3>2
    <3>4. restarted'
      BY <2>1, <3>1
    <3>5. bt' # None /\ position' # None /\ position' = saved /\ bt' = bt
      BY <2>1, <2>4, <3>1
    <3> QED BY <3>1, <3>3, <3>4, <3>5 DEF InStep
  <2> QED BY <2>3, <2>4
<1>5. CASE UNCHANGED vars
  BY <1>1, <1>5 DEF vars, btVars, liveVars, InStep
<1> QED BY <1>2, <1>3, <1>4, <1>5 DEF Next

(* The inductive invariant, for any strategy, prices, orders and restarts. *)
THEOREM LiveInvariant == Spec => []LiveInv
<1> QED BY InitInv, StepInv, PTL DEF Spec

(* The bot holds what run_strategy holds: same trade, same entry price,    *)
(* and but for restarts the same highest price.                            *)
THEOREM BotHoldsWhatWasBacktested == Spec => []InStep
<1>1. LiveInv => InStep
  BY DEF LiveInv
<1> QED BY <1>1, LiveInvariant, PTL

(* The bot opens and closes the trades of run_strategy, on the same        *)
(* candles, for the same reasons and prices, with the exceptions named in  *)
(* SameTrades.                                                             *)
THEOREM BotTradesWhatWasBacktested == Spec => SameTrades
<1> DEFINE Same == ~apart /\ faults' = faults =>
                      \/ action' = bt_action'
                      \/ /\ action' # None /\ action'.reason = "hard_stop_loss"
                         /\ bt_action'.reason = "stop_loss"
                         /\ action'.price <= bt_action'.price
                      \/ /\ restarted /\ bt_action' # None
                         /\ bt_action'.reason = "trailing_stop"
<1>1. LiveInv /\ [Next]_vars => [Same]_vars
  <2> SUFFICES ASSUME LiveInv, Next, ~apart, faults' = faults
               PROVE  Same
    OBVIOUS
  <2>1. TypeOK /\ InStep /\ faults \in 0..MaxFaults
    BY DEF LiveInv, TypeOK
  <2>2. ~Fault
    BY <2>1 DEF Fault
  <2>3. PICK c \in Candle : CandleCloses(c)
    BY <2>2 DEF Next, OrderDiffers, CandleMissed, CandleSeenAgain, Restart
  <2>4. BtCandle(c) /\ AsBacktested(c)
    BY <2>3 DEF CandleCloses
  <2>5. CASE bt = None
    BY <2>1, <2>4, <2>5, WhileFlat DEF InStep
  <2>6. CASE bt # None
    BY <2>1, <2>4, <2>6, InTrade
  <2> QED BY <2>5, <2>6
<1> QED BY <1>1, LiveInvariant, PTL DEF Spec, SameTrades
=============================================================================
