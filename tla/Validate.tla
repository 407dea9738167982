------------------------------ MODULE Validate ------------------------------
(***************************************************************************)
(* programs/backtesting/validate.go: signals are computed from all candles *)
(* of a period at once, and backtest walks through them with an account    *)
(* that is all money or all coins.  Its indicators are those of            *)
(* indicator.go, written once more; candles are at their index in data,    *)
(* which stands for their date.  What is printed is left out.              *)
(***************************************************************************)
EXTENDS Indicators, PSH

CONSTANTS
  ShortWindow, LongWindow, RSIPeriod, BollingerPeriod, BollingerMultiplier,
  MACDShortWindow, MACDLongWindow, MACDSignalWindow, StochPeriod,
  Threshold,       \* of a trend, in percent a month
  InitialBalance

ASSUME ValidateAssumption ==
  /\ {ShortWindow, LongWindow, RSIPeriod, BollingerPeriod, BollingerMultiplier,
      MACDShortWindow, MACDLongWindow, MACDSignalWindow, StochPeriod,
      Threshold, InitialBalance} \subseteq Nat \ {0}

VARIABLES
  validate,    \* where main is
  data,        \* the candles
  trends, indicators,  \* of each of them
  signals,     \* the signals backtest has yet to follow
  balance, position, buyPrice, maxBalance  \* fractions

validateVars == <<validate, data, trends, indicators, signals,
                  balance, position, buyPrice, maxBalance>>
analysis     == <<data, trends, indicators>>
funds        == <<balance, position, buyPrice, maxBalance>>

-----------------------------------------------------------------------------
(* The indicators and what generateSignals compares of them.               *)

calculateMovingAverages(candles, shortWindow, longWindow) ==
  [short |-> CustomSMA(candles, shortWindow), long |-> CustomSMA(candles, longWindow)]

calculateRSI(candles, period)          == CustomRSI(candles, period)
calculateEMA(candles, window)          == CustomEMA(candles, window)
calculateEMAFromSlice(values, window)  == CustomEMAFromSlice(values, window)
calculateStochasticOscillator(candles, period) == CustomStochasticOscillator(candles, period)

calculateMACD(candles, shortWindow, longWindow, signalWindow) ==
  LET short == calculateEMA(candles, shortWindow)
      long  == calculateEMA(candles, longWindow)
      macd  == [i \in DOMAIN candles |-> Minus(short[i], long[i])]
  IN  [macd |-> macd, signal |-> calculateEMAFromSlice(macd, signalWindow)]

calculateBollingerBands(candles, period, multiplier) ==
  CustomBollingerBands(candles, period, multiplier)

detectMonthlyTrends(candles, threshold) == DetectMonthlyTrendsDF(candles, threshold)

IndicatorsOf(candles) ==
  [ma    |-> calculateMovingAverages(candles, ShortWindow, LongWindow),
   rsi   |-> calculateRSI(candles, RSIPeriod),
   bands |-> calculateBollingerBands(candles, BollingerPeriod, BollingerMultiplier),
   macd  |-> calculateMACD(candles, MACDShortWindow, MACDLongWindow, MACDSignalWindow),
   stoch |-> calculateStochasticOscillator(candles, StochPeriod)]

Crossing(a, b, i) ==
  IF Less(b[i], a[i]) /\ AtMost(a[i - 1], b[i - 1]) THEN "golden"
  ELSE IF Less(a[i], b[i]) /\ AtMost(b[i - 1], a[i - 1]) THEN "death"
  ELSE "none"

Sign(n) == IF n > 0 THEN 1 ELSE IF n < 0 THEN -1 ELSE 0

RSIClass(rsi) ==
  IF Less(rsi, <<30, 1>>) THEN 20 ELSE IF rsi = <<30, 1>> THEN 30
  ELSE IF Less(rsi, <<70, 1>>) THEN 50 ELSE IF rsi = <<70, 1>> THEN 70 ELSE 80

\* Mutant: a candle is compared with the ones around it.
LowRisesAround(candles, i) ==
  /\ i > 3 /\ i < Len(candles)
  /\ candles[i - 1].low < candles[i].low /\ candles[i].low < candles[i + 1].low

LowRises(candles, i) ==
  /\ i > 3
  /\ candles[i - 2].low < candles[i - 1].low /\ candles[i - 1].low < candles[i].low

HighFalls(candles, i) ==
  /\ i > 3
  /\ candles[i - 2].high > candles[i - 1].high /\ candles[i - 1].high > candles[i].high

Compared(candles, x, i) ==
  LET c == candles[i] IN
  [ma    |-> Crossing(x.ma.short, x.ma.long, i),
   stoch |-> Crossing(x.stoch.k, x.stoch.d, i),
   macd  |-> IF Less(x.macd.macd[i], x.macd.signal[i]) THEN "below"
             ELSE IF Crossing(x.macd.macd, x.macd.signal, i) = "golden" THEN "crossed"
             ELSE "above",
   rsi   |-> RSIClass(x.rsi[i]),
   body  |-> Sign(c.close - c.open),
   moreVolume |-> c.volume > candles[i - 1].volume,
   lowRises   |-> LowRises(candles, i),
   highFalls  |-> HighFalls(candles, i),
   atLower |-> AtLower(c.close, x.bands[i]),
   atUpper |-> AtUpper(c.close, x.bands[i]),
   middle  |-> Sign(c.close * x.bands[i].middle[2] - x.bands[i].middle[1])]

AveragesDefined(x, i) == ~isNaN(x.ma.short[i]) /\ ~isNaN(x.ma.long[i])

AllDefined(x, i) ==
  /\ AveragesDefined(x, i)
  /\ ~isNaN(x.bands[i].middle)
  /\ ~isNaN(x.macd.macd[i]) /\ ~isNaN(x.macd.signal[i])
  /\ ~isNaN(x.stoch.d[i])

-----------------------------------------------------------------------------
\* One signal a date, and of two the sale.
Signal(i, sell, buy) ==
  IF sell THEN <<[date |-> i, action |-> "SELL"]>>
  ELSE IF buy THEN <<[date |-> i, action |-> "BUY"]>>
  ELSE <<>>

\* A rising market asks for fewer indicators to sell than to buy; the other
\* two ask for all of them.
BullishSignal(x, should, i) ==
  Signal(i, should.sell /\ AveragesDefined(x, i), should.buy /\ AllDefined(x, i))

OtherSignal(x, should, i) ==
  LET all == AllDefined(x, i) IN Signal(i, should.sell /\ all, should.buy /\ all)

generateSignals(candles, x, trend) ==
  LET signal(i) ==
        LET should == PSHDecide(trend[i], Compared(candles, x, i)) IN
        IF trend[i] = "bullish" THEN BullishSignal(x, should, i)
        ELSE OtherSignal(x, should, i)
      upTo[i \in 0..Len(candles)] ==
        IF i <= 1 THEN <<>> ELSE upTo[i - 1] \o signal(i)
  IN  upTo[Len(candles)]

ValidateInit ==
  /\ validate = "load"
  /\ data = <<>> /\ trends = <<>> /\ indicators = <<>> /\ signals = <<>>
  /\ balance = <<InitialBalance, 1>> /\ maxBalance = <<InitialBalance, 1>>
  /\ position = Zero /\ buyPrice = Zero

\* main up to generateSignals. The loop that marks the undefined start of the
\* bands runs past the end of a short period.
Prepare(candles) ==
  /\ validate = "load"
  /\ data' = candles
  /\ trends' = detectMonthlyTrends(candles, Threshold)
  /\ IF Len(candles) < BollingerPeriod - 1
     THEN validate' = "panicked" /\ UNCHANGED indicators
     ELSE validate' = "signals" /\ indicators' = IndicatorsOf(candles)
  /\ UNCHANGED <<signals, funds>>

Generate ==
  /\ validate = "signals"
  /\ signals' = generateSignals(data, indicators, trends)
  /\ validate' = "backtest"
  /\ UNCHANGED <<analysis, funds>>

Fatal ==
  /\ validate = "load"
  /\ validate' = "ended"
  /\ UNCHANGED <<analysis, signals, funds>>

Price(i) == <<data[i].close, 1>>
Reciprocal(a) == Frac(a[2], a[1])

FollowBuy ==
  /\ validate = "backtest" /\ signals # <<>>
  /\ Head(signals).action = "BUY"
  /\ LET price == Price(Head(signals).date) IN
     IF AtMost(price, balance)
     THEN /\ position' = Times(balance, Reciprocal(price))
          /\ buyPrice' = price
          /\ balance' = Zero
          /\ UNCHANGED maxBalance
     ELSE UNCHANGED funds
  /\ signals' = Tail(signals)
  /\ UNCHANGED <<validate, analysis>>

\* Mutant: coins are sold at a loss.
FollowSellAtLoss ==
  /\ validate = "backtest" /\ signals # <<>>
  /\ Head(signals).action = "SELL"
  /\ LET proceeds == Times(position, Price(Head(signals).date)) IN
     IF Less(Zero, position)
     THEN /\ balance' = proceeds
          /\ position' = Zero
          /\ maxBalance' = IF Less(maxBalance, proceeds) THEN proceeds ELSE maxBalance
          /\ UNCHANGED buyPrice
     ELSE UNCHANGED funds
  /\ signals' = Tail(signals)
  /\ UNCHANGED <<validate, analysis>>

\* Coins are sold for more than they were bought for, or kept.
FollowSell ==
  /\ validate = "backtest" /\ signals # <<>>
  /\ Head(signals).action = "SELL"
  /\ LET price    == Price(Head(signals).date)
         proceeds == Times(position, price)
     IN  IF Less(Zero, position) /\ Less(buyPrice, price)
         THEN /\ balance' = proceeds
              /\ position' = Zero
              /\ maxBalance' = IF Less(maxBalance, proceeds) THEN proceeds ELSE maxBalance
              /\ UNCHANGED buyPrice
         ELSE UNCHANGED funds
  /\ signals' = Tail(signals)
  /\ UNCHANGED <<validate, analysis>>

\* What is left is sold with the last candle, if that is a gain; maxBalance
\* does not take part.
FinalSale ==
  /\ validate = "backtest" /\ signals = <<>>
  /\ validate' = "ended"
  /\ IF Less(Zero, position) /\ Less(buyPrice, Price(Len(data)))
     THEN /\ balance' = Times(position, Price(Len(data)))
          /\ position' = Zero
          /\ UNCHANGED <<buyPrice, maxBalance>>
     ELSE UNCHANGED funds
  /\ UNCHANGED <<analysis, signals>>

ValidateStep == Generate \/ FollowBuy \/ FollowSell \/ FinalSale
-----------------------------------------------------------------------------
(* The account of validate's backtest is all money, never less than it     *)
(* started with, or all coins, for which all of the money before was paid: *)
(* no sale is lost, made twice or made below the price that was paid.      *)
(* This says nothing of what coins are worth: coins that are never worth   *)
(* more than was paid are kept, and the balance that is returned is then 0 *)
(* (FinalSale), although the message at line 675 speaks of their value.    *)
AllIn ==
  /\ AtMost(<<InitialBalance, 1>>, maxBalance)
  /\ IF Less(Zero, position)
     THEN balance = Zero /\ Times(position, buyPrice) = maxBalance
     ELSE IF validate = "ended" THEN AtMost(maxBalance, balance)
     ELSE balance = maxBalance

(* A signal is made of the candles up to its own: given the same trends,   *)
(* the signals of a shorter period are the first of the longer one's, and  *)
(* those that follow are of later candles.  (Trends are not causal: they   *)
(* see the whole month.)                                                   *)
SignalsCausal ==
  validate = "signals" =>
    LET all == generateSignals(data, indicators, trends) IN
    \A n \in 1..Len(data) :
      LET candles == SubSeq(data, 1, n)
          some    == generateSignals(candles, IndicatorsOf(candles), trends)
      IN  /\ Len(some) <= Len(all) /\ some = SubSeq(all, 1, Len(some))
          /\ \A m \in DOMAIN all : all[m].date <= n <=> m <= Len(some)
=============================================================================
