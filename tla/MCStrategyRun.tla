----------------------------- MODULE MCStrategyRun -----------------------------
(* One definition for each indicator, and operators and trees of each kind. *)
EXTENDS StrategyRun

Ref(column) == [ref |-> column]
Number(n) == [value |-> n]
Compared(left, op, right) == [type |-> "comparison", left |-> left, op |-> op, right |-> right]
Is(left, op, right) == <<Compared(left, op, right)>>
Logical(op, conditions) == [type |-> "logical", op |-> op, conditions |-> conditions]
Indicator(name, alias, params) == [name |-> name, alias |-> alias, params |-> params]
Period(n) == [period |-> n]
Definition(indicators, entry, exit) ==
    [indicators |-> indicators, entry_conditions |-> entry, exit_conditions |-> exit]
EntryOnly(indicators, entry) == [indicators |-> indicators, entry_conditions |-> entry]

Close == Ref("close")
Sma == Indicator("sma", "fast", Period(2))

MCDefinitions == {
    Definition(<<Sma>>, Is(Close, "crosses_above", Ref("fast")), Is(Close, "lt", Ref("fast"))),
    Definition(<<Sma, Indicator("sma", "slow", Period(3))>>,
               <<Compared(Ref("fast"), "gte", Ref("slow")), Compared(Close, "eq", Number(3)),
                 Logical("or", <<1, 2>>)>>,
               <<Compared(Ref("slow"), "crosses_below", Close), Logical("not", <<1>>)>>),
    Definition(<<Indicator("bbands", "bb", Period(3))>>,
               <<Compared(Close, "lte", Ref("bb_upper")), Compared(Close, "ne", Ref("bb_middle")),
                 Logical("and", <<1, 2>>)>>,
               Is(Close, "gt", Ref("bb_middle"))),
    EntryOnly(<<Indicator("ema", "e", Period(2)), Indicator("rsi", "r", Period(2))>>,
               <<Compared(Close, "gte", Ref("e")), Compared(Ref("r"), "gt", Number(50)),
                 Logical("and", <<1, 2>>)>>),
    Definition(<<Indicator("macd", "m", [fast_period |-> 1, slow_period |-> 2, signal_period |-> 1])>>,
               Is(Ref("m_macd"), "gt", Number(0)), Is(Ref("m_hist"), "lt", Ref("m_signal"))),
    Definition(<<Sma>>,
               <<Compared(Close, "eq", Number(5)), Compared(Close, "lt", Ref("fast")),
                 Logical("or", <<1, 2>>), Logical("not", <<3>>)>>,
               Is(Close, "ne", Ref("fast"))),
    \* Valid, with windows of no candle: a mean that is never there, and some that raise.
    Definition(<<Indicator("sma", "fast", Period(0))>>,
               Is(Close, "ne", Ref("fast")), Is(Ref("fast"), "crosses_below", Close)),
    EntryOnly(<<Sma, Indicator("ema", "e", Period(0))>>, Is(Close, "gte", Ref("e"))),
    EntryOnly(<<Indicator("macd", "m", [signal_period |-> 0])>>, Is(Ref("m_macd"), "gt", Number(0))),
    EntryOnly(<<Indicator("bbands", "bb", Period(-1))>>, Is(Close, "lte", Ref("bb_upper"))),
    \* Not valid: a column that is not there, a parameter, a name and an alias used twice.
    Definition(<<Sma>>, Is(Close, "gt", Ref("fast")), Is(Close, "lt", Ref("slow"))),
    EntryOnly(<<Indicator("sma", "fast", [window |-> 2])>>, Is(Close, "gt", Ref("fast"))),
    EntryOnly(<<Indicator("wma", "fast", Period(2))>>, Is(Close, "gt", Number(2))),
    EntryOnly(<<Sma, Sma>>, Is(Close, "gt", Ref("fast")))}
=============================================================================
