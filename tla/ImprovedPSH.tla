---------------------------- MODULE ImprovedPSH ----------------------------
(***************************************************************************)
(* What ImprovedPSHStrategy.OnCandle makes of the indicators of a bar      *)
(* (strategy/2025_01_27_PSH_Improved.go): four signals, which may come     *)
(* together.  An indicator is abstracted to the outcomes of the            *)
(* comparisons the code makes with it: the RSI, Williams %R and stochastic *)
(* RSI to a value between or on their thresholds, a price to its place in  *)
(* the Bollinger bands, from 0 (lower) by 2 (middle) to 4 (upper).         *)
(***************************************************************************)
EXTENDS Integers

Trend == {"bullish", "bearish", "sideways"}
Cross == {"golden", "death", "none"}

Indicators ==
  [ma : Cross, macd : Cross, rsi : {20, 30, 35, 40, 55, 70, 80},
   body : {-1, 0, 1},              \* sign of close - open
   moreVolume : BOOLEAN, strongTrend : BOOLEAN, obvRises : BOOLEAN,
   lowRises : BOOLEAN, highFalls : BOOLEAN,
   williamsR : {-90, -50, -10}, stochRSI : {10, 50, 90}, close : 0..4]

Signals(strongSell, normalSell, strongBuy, normalBuy) ==
  [strongSell |-> strongSell, normalSell |-> normalSell,
   strongBuy |-> strongBuy, normalBuy |-> normalBuy]

Bullish(x) ==
  Signals(FALSE,
          \/ x.ma = "death" \/ x.rsi > 70 \/ x.macd = "death"
          \/ x.highFalls /\ x.body < 0 /\ x.rsi > 40,
          x.obvRises,
          /\ x.ma = "golden" /\ x.macd = "golden" /\ x.rsi < 70
          /\ x.body > 0 /\ x.moreVolume /\ x.strongTrend)

Bearish(x) ==
  Signals(x.williamsR > -20 \/ x.stochRSI > 80,
          x.ma = "death" /\ x.rsi > 70 /\ x.macd = "death",
          FALSE,
          \/ x.ma = "golden" /\ x.rsi < 30 /\ x.close <= 0
          \/ x.lowRises /\ x.body > 0 /\ x.rsi < 30)

Sideways(x) ==
  LET low  == x.rsi < 30 /\ x.close <= 2
      high == x.rsi > 70 /\ x.close >= 2
  IN  Signals(high /\ x.williamsR > -20 /\ x.stochRSI > 80,
              high,
              low /\ x.williamsR < -80 /\ x.stochRSI < 20,
              low)

Decide(trend, x) ==
  CASE trend = "bullish"  -> Bullish(x)
    [] trend = "bearish"  -> Bearish(x)
    [] trend = "sideways" -> Sideways(x)

\* The signals a trend can give, whatever the indicators: the reference for
\* Decide.
Possible(trend) ==
  {s \in [strongSell : BOOLEAN, normalSell : BOOLEAN,
          strongBuy : BOOLEAN, normalBuy : BOOLEAN] :
     /\ ~(s.normalSell /\ s.normalBuy)
     /\ trend = "bullish"  => ~s.strongSell
     /\ trend = "bearish"  => ~s.strongBuy
     /\ trend = "sideways" => /\ s.strongSell => s.normalSell
                              /\ s.strongBuy => s.normalBuy}
=============================================================================
