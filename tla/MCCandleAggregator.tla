------------------------- MODULE MCCandleAggregator -------------------------
(* Bounds for CandleAggregator.  A timeframe above one second needs none   *)
(* but the horizon; that of one second repeats revisions without end.      *)
EXTENDS CandleAggregator

MaxSent == 5

SentBound == D > 0 \/ Len(finals) < MaxSent
=============================================================================
