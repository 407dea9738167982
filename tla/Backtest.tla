------------------------------ MODULE Backtest ------------------------------
(***************************************************************************)
(* programs/backtesting/backtest.go: main hands past candles to the        *)
(* controller as fast as it can; the strategy reads the account and        *)
(* publishes orders, which the order feed's goroutine executes on the same *)
(* account (exchange/backtest.go) at the price main has set last.  Nothing *)
(* of this is locked: every access to the account or the price that the    *)
(* other goroutine may see is a step.  What risk limits and signals decide *)
(* is any outcome, as in Trading; the average price paid is a fraction.    *)
(***************************************************************************)
EXTENDS Integers, Sequences, ImprovedPSH

CONSTANTS
  InitialKRW,
  Minimum,           \* minimumKRW
  Capacity,          \* of the order feed's channel
  BacktestWarmup     \* the rows the strategy wants to see

ASSUME BacktestAssumption ==
  /\ {InitialKRW, Minimum} \subseteq Nat
  /\ {Capacity, BacktestWarmup} \subseteq Nat \ {0}

VARIABLES
  closes,        \* the closes main has loaded
  bar,           \* the candle it is at
  currentPrice,
  Coin, KRW,     \* the account
  AvgBuyPrice,   \* a fraction: [cost |-> n, coins |-> d]
  main,          \* where main is
  coinAmt, krwAmt,  \* what OnCandle has read
  settled,       \* history: no order was under way when it began to read
  out,           \* orders it has yet to publish
  queue,         \* the order feed's channel
  processing,    \* where processOrder is
  order,         \* its order, if any
  qty, pay,      \* its locals: the coins bought, the cost or the proceeds
  refused        \* history: orders the account was too small for

backtestVars == <<closes, bar, currentPrice, Coin, KRW, AvgBuyPrice, main,
                  coinAmt, krwAmt, settled, out, queue, processing, order,
                  qty, pay, refused>>
account    == <<Coin, KRW, AvgBuyPrice>>
mainVars   == <<closes, bar, currentPrice, main, coinAmt, krwAmt, settled, out>>
brokerVars == <<processing, order, qty, pay, refused>>

-----------------------------------------------------------------------------
BacktestInit ==
  /\ closes = <<>> /\ bar = 0 /\ currentPrice = 0
  /\ Coin = 0 /\ KRW = InitialKRW
  /\ AvgBuyPrice = [cost |-> 0, coins |-> 1]
  /\ main = "load"
  /\ coinAmt = 0 /\ krwAmt = 0 /\ settled = TRUE
  /\ out = <<>> /\ queue = <<>>
  /\ processing = "idle" /\ order = <<>>
  /\ qty = 0 /\ pay = [cost |-> 0, coins |-> 1]
  /\ refused = {}

\* With no candles, as after an error, there is nothing to walk through.
Load(loaded) ==
  /\ main = "load"
  /\ closes' = loaded
  /\ main' = "next"
  /\ UNCHANGED <<bar, currentPrice, coinAmt, krwAmt, settled, out, queue,
                 account, brokerVars>>

\* The price is set before the controller is called; the strategy is asked
\* from the warm-up on.
NextCandle ==
  /\ main = "next" /\ bar < Len(closes)
  /\ bar' = bar + 1
  /\ currentPrice' = closes[bar + 1]
  /\ main' = IF bar + 1 < BacktestWarmup THEN "next" ELSE "position"
  /\ UNCHANGED <<closes, coinAmt, krwAmt, settled, out, queue, account,
                 brokerVars>>

\* BacktestBroker.Position
ReadCoin ==
  /\ main = "position"
  /\ coinAmt' = Coin
  /\ settled' = (queue = <<>> /\ order = <<>>)
  /\ main' = "quote"
  /\ UNCHANGED <<closes, bar, currentPrice, krwAmt, out, queue, account,
                 brokerVars>>

ReadKRW ==
  /\ main = "quote"
  /\ krwAmt' = KRW
  /\ main' = "decide"
  /\ UNCHANGED <<closes, bar, currentPrice, coinAmt, settled, out, queue,
                 account, brokerVars>>

Half(amount) == amount \div 2

executeSell(quantity) == <<[side |-> "sell", amount |-> quantity, settled |-> settled]>>
executeBuy(amount) == <<[side |-> "buy", amount |-> amount, settled |-> settled]>>

Sale(s) ==
  IF coinAmt = 0 THEN <<>>
  ELSE IF s.strongSell THEN executeSell(coinAmt)
  ELSE IF s.normalSell THEN executeSell(Half(coinAmt))
  ELSE <<>>

\* Mutant: the normal signal is no alternative to the strong one.
PurchaseBoth(s) ==
  IF krwAmt < Minimum THEN <<>>
  ELSE (IF s.strongBuy THEN executeBuy(krwAmt) ELSE <<>>)
       \o (IF s.normalBuy THEN executeBuy(Half(krwAmt)) ELSE <<>>)

Purchase(s) ==
  IF krwAmt < Minimum THEN <<>>
  ELSE IF s.strongBuy THEN executeBuy(krwAmt)
  ELSE IF s.normalBuy THEN executeBuy(Half(krwAmt))
  ELSE <<>>

Issue(orders) ==
  /\ out' = orders
  /\ main' = IF orders = <<>> THEN "next" ELSE "publish"
  /\ UNCHANGED <<closes, bar, currentPrice, coinAmt, krwAmt, settled, queue,
                 account, brokerVars>>

LimitRisk ==
  /\ main = "decide"
  /\ coinAmt > 0
  /\ Issue(executeSell(Half(coinAmt)))

FollowSignals ==
  /\ main = "decide"
  /\ \E trend \in Trend : \E s \in Possible(trend) : Issue(Sale(s) \o Purchase(s))

Publish ==
  /\ main = "publish"
  /\ Len(queue) < Capacity
  /\ queue' = Append(queue, Head(out))
  /\ out' = Tail(out)
  /\ main' = IF Tail(out) = <<>> THEN "next" ELSE "publish"
  /\ UNCHANGED <<closes, bar, currentPrice, coinAmt, krwAmt, settled, account,
                 brokerVars>>

\* main prints the account and ends, whatever is still queued.
Finish ==
  /\ main = "next" /\ bar = Len(closes)
  /\ main' = "done"
  /\ UNCHANGED <<closes, bar, currentPrice, coinAmt, krwAmt, settled, out,
                 queue, account, brokerVars>>

-----------------------------------------------------------------------------
\* The order feed's goroutine calls processOrder with the next order.
TakeOrder ==
  /\ processing = "idle" /\ queue # <<>>
  /\ order' = <<Head(queue)>>
  /\ queue' = Tail(queue)
  /\ processing' = Head(queue).side
  /\ UNCHANGED <<mainVars, account, qty, pay, refused>>

\* Mutant: a refusal is the end of the goroutine.
RefuseForGood ==
  /\ refused' = refused \cup {order[1]}
  /\ order' = <<>>
  /\ processing' = "ended"
  /\ UNCHANGED <<mainVars, queue, account, qty, pay>>

Refuse ==
  /\ refused' = refused \cup {order[1]}
  /\ order' = <<>>
  /\ processing' = "idle"
  /\ UNCHANGED <<mainVars, queue, account, qty, pay>>

\* A purchase: what the money buys at the current price, if there is enough,
Buy ==
  /\ processing = "buy"
  /\ IF KRW < order[1].amount THEN Refuse
     ELSE /\ qty' = order[1].amount \div currentPrice
          /\ processing' = "bought"
          /\ UNCHANGED <<mainVars, queue, account, order, pay, refused>>

\* Mutant: the cost is that of the coins there are afterwards.
CostAfterwards ==
  /\ processing = "bought"
  /\ pay' = [cost |-> AvgBuyPrice.cost * (Coin + qty)
                      + AvgBuyPrice.coins * currentPrice * qty,
             coins |-> AvgBuyPrice.coins]
  /\ processing' = "priced"
  /\ UNCHANGED <<mainVars, queue, account, order, qty, refused>>

\* the cost of all coins, with the price read once more,
Cost ==
  /\ processing = "bought"
  /\ pay' = [cost |-> AvgBuyPrice.cost * Coin
                      + AvgBuyPrice.coins * currentPrice * qty,
             coins |-> AvgBuyPrice.coins]
  /\ processing' = "priced"
  /\ UNCHANGED <<mainVars, queue, account, order, qty, refused>>

\* the coins, the money,
AddCoins ==
  /\ processing = "priced"
  /\ Coin' = Coin + qty
  /\ processing' = "owing"
  /\ UNCHANGED <<mainVars, queue, KRW, AvgBuyPrice, order, qty, pay, refused>>

Spend ==
  /\ processing = "owing"
  /\ KRW' = KRW - order[1].amount
  /\ processing' = "paid"
  /\ UNCHANGED <<mainVars, queue, Coin, AvgBuyPrice, order, qty, pay, refused>>

\* and the average price of what there is now.
Average ==
  /\ processing = "paid"
  /\ AvgBuyPrice' = [cost |-> pay.cost, coins |-> pay.coins * Coin]
  /\ order' = <<>>
  /\ processing' = "idle"
  /\ UNCHANGED <<mainVars, queue, Coin, KRW, qty, pay, refused>>

\* A sale: if there are enough coins, the proceeds at the current price,
Sell ==
  /\ processing = "sell"
  /\ IF Coin < order[1].amount THEN Refuse
     ELSE /\ pay' = [cost |-> order[1].amount * currentPrice, coins |-> 1]
          /\ processing' = "selling"
          /\ UNCHANGED <<mainVars, queue, account, order, qty, refused>>

\* the coins
TakeCoins ==
  /\ processing = "selling"
  /\ Coin' = Coin - order[1].amount
  /\ processing' = "sold"
  /\ UNCHANGED <<mainVars, queue, KRW, AvgBuyPrice, order, qty, pay, refused>>

\* and the money.
Receive ==
  /\ processing = "sold"
  /\ KRW' = KRW + pay.cost
  /\ order' = <<>>
  /\ processing' = "idle"
  /\ UNCHANGED <<mainVars, queue, Coin, AvgBuyPrice, qty, pay, refused>>

MainStep ==
  NextCandle \/ ReadCoin \/ ReadKRW \/ LimitRisk \/ FollowSignals \/ Publish \/ Finish

\* The program ends with main.
BrokerStep ==
  /\ main # "done"
  /\ TakeOrder \/ Buy \/ Cost \/ AddCoins \/ Spend \/ Average
     \/ Sell \/ TakeCoins \/ Receive

BacktestNext ==
  (\E loaded \in Seq(Nat \ {0}) : Load(loaded)) \/ MainStep \/ BrokerStep

BacktestSpec == BacktestInit /\ [][BacktestNext]_backtestVars
-----------------------------------------------------------------------------
\* The account never goes below zero, although orders are decided on before
\* earlier ones are executed and on an account that is being written.
Solvent == Coin >= 0 /\ KRW >= 0

\* The average price paid lies between the lowest and the highest price so
\* far, although the price changes between two uses of it.
AverageOfPrices ==
  AvgBuyPrice.cost > 0 =>
    \E i, j \in 1..bar :
      /\ closes[i] * AvgBuyPrice.coins <= AvgBuyPrice.cost
      /\ AvgBuyPrice.cost <= closes[j] * AvgBuyPrice.coins

(* processOrder keeps the simulated account sound.                         *)
AccountSound == Solvent /\ AverageOfPrices

(* An order the account is too small for was decided on while an earlier   *)
(* one was under way: of one reading of the account, sale and purchase     *)
(* together never ask too much, whatever main and the broker interleave.   *)
RefusedWhenBehind == \A o \in refused : ~o.settled
=============================================================================
