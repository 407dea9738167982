---------------------------- MODULE MCMarketData ----------------------------
(* The bot: one pair and timeframe, the strategy on complete candles and   *)
(* the web page on all.                                                    *)
EXTENDS MarketData, TLC

CONSTANTS k1, p1

OneKey == k1 :> p1

Bot == << [key |-> k1, onCandleClose |-> TRUE],
          [key |-> k1, onCandleClose |-> FALSE] >>
=============================================================================
