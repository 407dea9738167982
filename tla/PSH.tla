-------------------------------- MODULE PSH --------------------------------
(***************************************************************************)
(* What PSHStrategy.OnCandle (strategy/2025_01_27_PSH.go) makes of the     *)
(* indicators of a bar, and generateSignals of programs/backtesting/       *)
(* validate.go as well: whether to buy and whether to sell.  Indicators    *)
(* are abstracted to the outcomes of the comparisons made with them, as in *)
(* ImprovedPSH.                                                            *)
(***************************************************************************)
EXTENDS Integers

PSHIndicators ==
  [ma : {"golden", "death", "none"}, stoch : {"golden", "death", "none"},
   macd : {"crossed", "above", "below"},  \* its signal line
   rsi : {20, 30, 50, 70, 80},
   body : {-1, 0, 1},                     \* sign of close - open
   moreVolume : BOOLEAN, lowRises : BOOLEAN, highFalls : BOOLEAN,
   atLower : BOOLEAN, atUpper : BOOLEAN,  \* on or beyond a Bollinger band
   middle : {-1, 0, 1}]                   \* sign of close - middle band

Should(buy, sell) == [buy |-> buy, sell |-> sell]

PSHBullish(x) ==
  Should(/\ x.body > 0 /\ x.rsi < 70
         /\ (x.ma = "golden" /\ x.moreVolume) \/ x.lowRises,
         \/ x.ma = "death" \/ x.rsi > 70
         \/ x.highFalls /\ x.body < 0 /\ x.rsi > 30)

PSHBearish(x) ==
  Should(\/ /\ x.ma = "golden" /\ x.rsi < 70 /\ x.atLower
            /\ x.macd = "crossed" /\ x.stoch = "golden"
         \/ x.lowRises /\ x.body > 0 /\ x.rsi < 70,
         \/ x.ma = "death" \/ x.rsi > 70 \/ x.atUpper
         \/ x.macd = "below" \/ x.stoch = "death"
         \/ x.highFalls /\ x.body < 0 /\ x.rsi > 30)

PSHSideways(x) ==
  Should(x.rsi < 30 /\ x.middle <= 0, x.rsi > 70 /\ x.middle >= 0)

PSHDecide(trend, x) ==
  CASE trend = "bullish"  -> PSHBullish(x)
    [] trend = "bearish"  -> PSHBearish(x)
    [] trend = "sideways" -> PSHSideways(x)

\* What a trend can give, whatever the indicators: the reference for
\* PSHDecide.
PSHPossible(trend) ==
  {s \in [buy : BOOLEAN, sell : BOOLEAN] :
     trend = "sideways" => ~(s.buy /\ s.sell)}
=============================================================================
