---------------------------- MODULE MCOrderFeed ----------------------------
(***************************************************************************)
(* Small instances of OrderFeed.                                           *)
(***************************************************************************)
EXTENDS OrderFeed, TLC

CONSTANTS btc, eth, o1, o2, o3, o4, s1, s2, s3, none

MCPair == {btc, eth}

\* Three orders and two subscriptions of one pair, an order of a pair
\* nobody subscribed to.
MCPairOf == [x \in Order \cup Subscription |->
               IF x \in {o4, s3} THEN eth ELSE btc]
=============================================================================
