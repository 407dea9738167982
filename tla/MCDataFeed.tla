----------------------------- MODULE MCDataFeed -----------------------------
(* An instance of DataFeed: subscriptions of both kinds on one feed.       *)
EXTENDS DataFeed

CONSTANTS k1, k2

On(k, onCandleClose) == [key |-> k, onCandleClose |-> onCandleClose]

Several == <<On(k1, TRUE), On(k2, FALSE), On(k1, FALSE), On(k1, TRUE)>>
=============================================================================
