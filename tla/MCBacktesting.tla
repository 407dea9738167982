--------------------------- MODULE MCBacktesting ---------------------------
(* An instance of Backtesting.                                             *)
EXTENDS Backtesting

\* A market of consecutive intervals, from its closes; one opens where the
\* one before closed.
Market(closings) ==
  [t \in DOMAIN closings |->
     LET open  == closings[IF t = 1 THEN 1 ELSE t - 1]
         close == closings[t]
     IN  [open |-> open, close |-> close, volume |-> close,
          low |-> Min({open, close}), high |-> Max({open, close})]]

Call(name, market, start, end) ==
  [program |-> name, market |-> market, start |-> start, end |-> end]

\* Intervals with trades: none, some, and some before the start or at the end.
Gaps == {{}, {2}, {3, 4}, {1, 3, 4}, {1, 2, 3, 4, 5}}

MCAsked ==
  {Call("backtest", Market(closings), 1, 4) : closings \in [1..3 -> {1, 2}]}
  \cup {Call("backtest", [t \in gap |-> [close |-> 1]], 2, 5) : gap \in Gaps}
  \cup {Call("validate", Market(closings), 1, 7) :
          closings \in {c \in [1..6 -> {2, 3, 4}] : c[1] = 3}}
  \cup {Call("validate", Market(<<3>>), 2, 4)}

-----------------------------------------------------------------------------
\* The relative strength is a percentage, and the averages lie within what
\* they average, except for a signal line that was started with 0.
Extremes == [1..4 -> {1, 2, 4}]

ASSUME IndicatorsInRange ==
  \A closings \in Extremes :
    LET candles == Market(closings)
        closes4 == {closings[i] : i \in 1..4}
        within(a) == isNaN(a) \/ (AtMost(<<Min(closes4), 1>>, a)
                                  /\ AtMost(a, <<Max(closes4), 1>>))
        percent(a) == AtMost(Zero, a) /\ AtMost(a, <<100, 1>>)
    IN  \A i \in 1..4 :
          /\ percent(CustomRSI(candles, 2)[i])
          /\ percent(CustomStochasticOscillator(candles, 2).k[i])
          /\ percent(CustomStochasticOscillator(candles, 2).d[i])
          /\ within(CustomSMA(candles, 2)[i])
          /\ within(CustomEMA(candles, 2)[i])
          /\ within(CustomBollingerBands(candles, 3, 1)[i].middle)

ASSUME DecideIsPSHPossible ==
  \A trend \in Trend : {PSHDecide(trend, x) : x \in PSHIndicators} = PSHPossible(trend)
=============================================================================
