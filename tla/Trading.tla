------------------------------ MODULE Trading ------------------------------
(***************************************************************************)
(* How the orders of a strategy, PSHStrategy or ImprovedPSHStrategy, reach *)
(* the account: OnCandle reads the position, decides and publishes; the    *)
(* order feed queues its orders; OrderFeedConsumerBroker.OnOrder places    *)
(* one after the other on the exchange and tells its callbacks how it      *)
(* went.  OnCandle runs in the goroutine of the data feed, OnOrder in that *)
(* of the order feed, and the exchange executes an order when it can.      *)
(* Order feed and candles are the subjects of OrderFeed and MarketData;    *)
(* here the one is a bounded queue and the other any sequence of bars.     *)
(*                                                                         *)
(* Coins are counted in won at a price that does not change, and fees are  *)
(* left out; what a price decides (risk and signals) is any outcome.       *)
(***************************************************************************)
EXTENDS Integers, Sequences, ImprovedPSH, PSH

CONSTANTS
  Coins, Won,  \* the account at the start
  Minimum,     \* minimumKRW; the exchange takes no smaller order either
  Capacity,    \* of the order feed's channel
  MaxBars      \* bound: bars handed to the strategy

\* Amounts are halved once a bar.
ASSUME TradingAssumption ==
  /\ {Coins, Won, Minimum, Capacity, MaxBars} \subseteq Nat
  /\ Capacity > 0
  /\ Coins % 2^MaxBars = 0 /\ Won % 2^MaxBars = 0

VARIABLES
  account,   \* external: free and locked coins and won
  open,      \* external: orders accepted and not executed
  strat,     \* the name of the strategy
  strategy,  \* where its OnCandle is
  position,  \* what it read
  settled,   \* history: nothing was under way when it read
  out,       \* orders it has yet to publish
  queue,     \* the order feed's channel
  broker,    \* where OnOrder is
  order,     \* the order it places, if any
  bars,      \* history: number of bars
  issued,    \* history: number of orders decided on
  placed,    \* history: orders the exchange accepted
  refused,   \* history: orders it refused for want of coins or won
  told       \* history: what the callbacks were told

vars == <<account, open, strat, strategy, position, settled, out, queue, broker,
          order, bars, issued, placed, refused, told>>
strategyVars == <<strat, strategy, position, settled, out, bars, issued>>
exchangeVars == <<account, open, placed, refused>>

Position == [coins |-> account.coins + account.coinsLocked,
             won   |-> account.won + account.wonLocked]

Settled == out = <<>> /\ queue = <<>> /\ order = <<>> /\ open = {}

Init ==
  /\ account = [coins |-> Coins, coinsLocked |-> 0, won |-> Won, wonLocked |-> 0]
  /\ open = {}
  /\ strat \in {"PSH", "ImprovedPSH"}
  /\ strategy = "idle" /\ position = Position /\ settled = TRUE
  /\ out = <<>> /\ queue = <<>>
  /\ broker = "idle" /\ order = <<>>
  /\ bars = 0 /\ issued = 0
  /\ placed = <<>> /\ refused = {} /\ told = <<>>

-----------------------------------------------------------------------------
\* The strategy. Position is one request, and what it says is used in steps
\* of their own.
OnCandle ==
  /\ strategy = "idle"
  /\ bars < MaxBars
  /\ bars' = bars + 1
  /\ strategy' = "decide"
  /\ position' = Position
  /\ settled' = Settled
  /\ UNCHANGED <<exchangeVars, strat, out, queue, broker, order, issued, told>>

\* The request fails, or OnCandle returns before it: too few bars, indicators
\* missing.
OnCandleFails ==
  /\ strategy = "idle"
  /\ bars < MaxBars
  /\ bars' = bars + 1
  /\ UNCHANGED <<exchangeVars, strat, strategy, position, settled, out, queue,
                 broker, order, issued, told>>

Half(amount) == amount \div 2

executeSell(amount) == <<[side |-> "sell", amount |-> amount]>>
executeBuy(amount)  == <<[side |-> "buy", amount |-> amount]>>

Sale(s) ==
  IF position.coins = 0 THEN <<>>
  ELSE IF s.strongSell THEN executeSell(position.coins)
  ELSE IF s.normalSell THEN executeSell(Half(position.coins))
  ELSE <<>>

\* Mutant: the normal signal is no alternative to the strong one.
PurchaseBoth(s) ==
  IF position.won < Minimum THEN <<>>
  ELSE (IF s.strongBuy THEN executeBuy(position.won) ELSE <<>>)
       \o (IF s.normalBuy THEN executeBuy(Half(position.won)) ELSE <<>>)

Purchase(s) ==
  IF position.won < Minimum THEN <<>>
  ELSE IF s.strongBuy THEN executeBuy(position.won)
  ELSE IF s.normalBuy THEN executeBuy(Half(position.won))
  ELSE <<>>

\* An order carries its number and whether its position was settled.
Issue(orders) ==
  /\ out' = [i \in DOMAIN orders |->
               [id |-> issued + i, side |-> orders[i].side,
                amount |-> orders[i].amount, settled |-> settled]]
  /\ issued' = issued + Len(orders)
  /\ strategy' = IF orders = <<>> THEN "idle" ELSE "publish"
  /\ UNCHANGED <<exchangeVars, strat, position, settled, queue, broker, order,
                 bars, told>>

\* ImprovedPSHStrategy: stop loss and take profit come before the signals,
\* and alone.
LimitRisk ==
  /\ strategy = "decide" /\ strat = "ImprovedPSH"
  /\ position.coins > 0
  /\ Issue(executeSell(Half(position.coins)))

FollowSignals ==
  /\ strategy = "decide" /\ strat = "ImprovedPSH"
  /\ \E trend \in Trend : \E s \in Possible(trend) : Issue(Sale(s) \o Purchase(s))

\* PSHStrategy: everything or nothing.
FollowPSH ==
  /\ strategy = "decide" /\ strat = "PSH"
  /\ \E trend \in Trend : \E s \in PSHPossible(trend) :
       Issue((IF s.sell /\ position.coins > 0
              THEN executeSell(position.coins) ELSE <<>>)
             \o (IF s.buy /\ position.won >= Minimum
                 THEN executeBuy(position.won) ELSE <<>>))

\* The order feed is running: Publish waits for room in the channel.
Publish ==
  /\ strategy = "publish"
  /\ Len(queue) < Capacity
  /\ queue' = Append(queue, Head(out))
  /\ out' = Tail(out)
  /\ strategy' = IF Tail(out) = <<>> THEN "idle" ELSE "publish"
  /\ UNCHANGED <<exchangeVars, strat, position, settled, broker, order, bars,
                 issued, told>>

-----------------------------------------------------------------------------
\* The broker: OnOrder is called with the next order of the queue.
OnOrder ==
  /\ broker = "idle"
  /\ queue # <<>>
  /\ broker' = "request"
  /\ order' = <<Head(queue)>>
  /\ queue' = Tail(queue)
  /\ UNCHANGED <<strategyVars, exchangeVars, told>>

Affordable(o) ==
  o.amount <= (IF o.side = "sell" THEN account.coins ELSE account.won)

Lock(o) ==
  account' = IF o.side = "sell"
             THEN [account EXCEPT !.coins = @ - o.amount,
                                  !.coinsLocked = @ + o.amount]
             ELSE [account EXCEPT !.won = @ - o.amount,
                                  !.wonLocked = @ + o.amount]

\* Mutant: a request without an answer is made again.
PlaceAndRepeat ==
  /\ broker = "request"
  /\ Affordable(order[1]) /\ order[1].amount >= Minimum
  /\ Len(placed) < 2 * MaxBars
  /\ Lock(order[1])
  /\ open' = open \cup {order[1]}
  /\ placed' = Append(placed, order[1].id)
  /\ broker' \in {"executed", "request"}
  /\ UNCHANGED <<strategyVars, queue, order, refused, told>>

\* CreateOrderMarket: the exchange takes the order, and its answer arrives or
\* is lost.
Place ==
  /\ broker = "request"
  /\ Affordable(order[1]) /\ order[1].amount >= Minimum
  /\ Lock(order[1])
  /\ open' = open \cup {order[1]}
  /\ placed' = Append(placed, order[1].id)
  /\ broker' \in {"executed", "failed"}
  /\ UNCHANGED <<strategyVars, queue, order, refused, told>>

Refuse ==
  /\ broker = "request"
  /\ ~(Affordable(order[1]) /\ order[1].amount >= Minimum)
  /\ refused' = IF Affordable(order[1]) THEN refused ELSE refused \cup {order[1]}
  /\ broker' = "failed"
  /\ UNCHANGED <<strategyVars, account, open, placed, queue, order, told>>

\* The request does not reach the exchange.
RequestFails ==
  /\ broker = "request"
  /\ broker' = "failed"
  /\ UNCHANGED <<strategyVars, exchangeVars, queue, order, told>>

\* Mutants: a failure ends the handler before the callbacks; the callbacks
\* are told of no error.
ReportSuccess ==
  /\ broker \in {"executed", "failed"}
  /\ told' = IF broker = "executed"
             THEN Append(told, [id |-> order[1].id, executed |-> TRUE]) ELSE told
  /\ broker' = "idle"
  /\ order' = <<>>
  /\ UNCHANGED <<strategyVars, exchangeVars, queue>>

ReportNoError ==
  /\ broker \in {"executed", "failed"}
  /\ told' = Append(told, [id |-> order[1].id, executed |-> TRUE])
  /\ broker' = "idle"
  /\ order' = <<>>
  /\ UNCHANGED <<strategyVars, exchangeVars, queue>>

\* The callbacks, and the end of OnOrder.
Report ==
  /\ broker \in {"executed", "failed"}
  /\ told' = Append(told, [id |-> order[1].id, executed |-> (broker = "executed")])
  /\ broker' = "idle"
  /\ order' = <<>>
  /\ UNCHANGED <<strategyVars, exchangeVars, queue>>

-----------------------------------------------------------------------------
\* The exchange executes an open order, whole.
Execute(o) ==
  /\ o \in open
  /\ open' = open \ {o}
  /\ account' = IF o.side = "sell"
                THEN [account EXCEPT !.coinsLocked = @ - o.amount,
                                     !.won = @ + o.amount]
                ELSE [account EXCEPT !.wonLocked = @ - o.amount,
                                     !.coins = @ + o.amount]
  /\ UNCHANGED <<strategyVars, queue, broker, order, placed, refused, told>>

-----------------------------------------------------------------------------
StrategyStep == LimitRisk \/ FollowSignals \/ FollowPSH \/ Publish
BrokerStep   == OnOrder \/ Place \/ Refuse \/ RequestFails \/ Report

Next ==
  \/ OnCandle \/ OnCandleFails \/ StrategyStep
  \/ BrokerStep
  \/ \E o \in open : Execute(o)

\* Both goroutines run on, requests end (they have deadlines), and market
\* orders are executed; bars come or not.
Spec ==
  /\ Init /\ [][Next]_vars
  /\ WF_vars(StrategyStep) /\ WF_vars(BrokerStep)
  /\ WF_vars(\E o \in open : Execute(o))
-----------------------------------------------------------------------------
Side  == {"sell", "buy"}
Order == [id : Nat \ {0}, side : Side, amount : Nat, settled : BOOLEAN]

TypeOK ==
  /\ account \in [coins : Nat, coinsLocked : Nat, won : Nat, wonLocked : Nat]
  /\ open \subseteq Order /\ refused \subseteq Order
  /\ strat \in {"PSH", "ImprovedPSH"}
  /\ strategy \in {"idle", "decide", "publish"}
  /\ position \in [coins : Nat, won : Nat]
  /\ settled \in BOOLEAN
  /\ out \in Seq(Order) /\ queue \in Seq(Order)
  /\ Len(queue) <= Capacity
  /\ broker \in {"idle", "request", "executed", "failed"}
  /\ order \in Seq(Order) /\ Len(order) <= 1
  /\ (order = <<>>) <=> (broker = "idle")
  /\ (strategy = "publish") <=> (out # <<>>)
  /\ bars \in 0..MaxBars
  /\ issued \in Nat
  /\ placed \in Seq(1..issued)
  /\ told \in Seq([id : 1..issued, executed : BOOLEAN])

(* An order is wanting in coins or won only when it was decided on before  *)
(* earlier orders were executed: what the strategy orders for one bar,     *)
(* sale and purchase together, is within the position it read.             *)
RefusedWhenStale == \A o \in refused : ~o.settled

(* The exchange gets the orders in the order they were decided on, a sale  *)
(* before the purchase of the same bar, and none twice, even when the      *)
(* answer to a request is lost.                                            *)
PlacedInOrder ==
  \A i, j \in DOMAIN placed : i < j => placed[i] < placed[j]

(* The callbacks hear of an execution only for an order that the exchange  *)
(* took; they are told of every order once, in the order of the requests.  *)
ToldOfPlaced ==
  \A i \in DOMAIN told :
    /\ told[i].id = i
    /\ told[i].executed => \E j \in DOMAIN placed : placed[j] = told[i].id

(* Every order decided on ends in a call of the callbacks, whatever        *)
(* becomes of its request.                                                 *)
AllReported == \A n \in 1..(2 * MaxBars) : issued >= n ~> Len(told) >= n
=============================================================================
