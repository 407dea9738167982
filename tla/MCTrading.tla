----------------------------- MODULE MCTrading -----------------------------
(* An instance of Trading. The signals it draws from are those Decide      *)
(* gives, over all indicators each trend looks at.                         *)
EXTENDS Trading

Looked(trend) ==
  {x \in Indicators :
     /\ trend # "bullish"  => ~x.moreVolume /\ ~x.strongTrend /\ ~x.obvRises
                              /\ ~x.highFalls
     /\ trend # "bearish"  => ~x.lowRises
     /\ trend = "bullish"  => x.williamsR = -50 /\ x.stochRSI = 50 /\ x.close = 1
     /\ trend = "sideways" => x.ma = "none" /\ x.macd = "none" /\ x.body = 0}

ASSUME DecideIsPossible ==
  \A trend \in Trend :
    {Decide(trend, x) : x \in Looked(trend)} = Possible(trend)
=============================================================================
