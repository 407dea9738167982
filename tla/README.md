# Raccoon: TLA+ specifications

Raccoon is a trading bot written in Go: it receives one-second candles of a
trading pair from the Upbit exchange over a websocket, folds them into bars,
hands the bars to a strategy and to a web page, and passes the strategy's orders
back to the exchange. This directory holds TLA+ modules of its concurrent parts,
TLC configurations that check them on small instances, and TLAPS proofs for every
value of their constants. `PROJECT.json` maps every definition to the lines of
`src/` it stands for.

## 1. The system

### 1.1 Components

| component | code | state it keeps | operations |
| --- | --- | --- | --- |
| Upbit websocket stream | `exchange/upbit.go` 484-748, 906-915 | `ctx`, `wg`, `wsConn`, `wsRunning` (under `wsMu`), `aggregatorMap` | `CandlesSubscription`, `Start`, `Stop`, `wsRunIfNeeded`, `runWebsocket`, `handleCandle1s`, `broadcastErr` |
| candle aggregator | `exchange/upbit.go` 41-52, 539-545, 751-904, `utils/tools/tool.go` | `buffer` (one candle per second), `currentKey`, `duration` | `initCurrentKey`, `push1sCandle`, `buildPartialCandle`, `aggregateBuffer`, `removeOldSeconds` |
| data feed | `feed/data_feed.go` | `Feeds`, `DataFeeds`, `SubscriptionsByFeed`, a context | `Subscribe`, `Preload`, `Connect`, `Start`, `Stop`, one goroutine per feed |
| order feed | `feed/order_feed.go` | `OrderFeeds` with a buffered channel each, `SubscriptionsByFeedKey`, an `RWMutex`, a context | `Subscribe`, `Publish`, `Start`, `Stop`, one goroutine per pair |
| raccoon, main | `bot/raccoon.go`, `main.go` | the parts and their wiring | `SetupSubscriptions`, `Start`, `Stop` |
| strategy controller | `strategy/controller.go`, `model/series.go` | the dataframe, `started` | `OnCandle`, `updateDataFrame`, `Sample` |
| PSH strategies | `strategy/2025_01_27_PSH*.go` | none | `Indicators`, `OnCandle` |
| order feed consumer | `consumer/order_feed.go` | callbacks | `OnOrder` |
| Upbit REST client | `exchange/upbit.go` 68-482, 916-1210 | `assetsInfo` | account, orders, candles by limit and by period |
| backtests | `exchange/backtest.go`, `programs/backtesting/` | `backtest.go`: a simulated account and the current price, shared by main and the order feed's goroutine; `validate.go`: balance, position, highest balance | `Position`, `processOrder`, the walk over the candles; `generateSignals`, `backtest` |
| web server | `webserver/webserver.go` | bars, indicators, orders (under `mu`); clients (under `sseMu`) | `OnCandle`, `OnIndicators`, `OnOrder`, `broadcastSSE`, `sseHandler` |
| telegram notifier | `notification/telegram.go` | none | `SendNotification`, `OrderNotifier` |
| tools, utilities | `utils/` | a trailing stop, a scheduler | pure helpers for the rest |
| data feed consumer | `consumer/data_feed.go` | none | `OnCandle` passes a bar to the controller |
| indicators | `indicator/` | none | averages, oscillators and bands of a list of candles; monthly trends |

### 1.2 How they interact

```
 Upbit.Start ----------+
 CandlesSubscription --+--> wsRunIfNeeded --> runWebsocket --> handleCandle1s
                                                   |             | push1sCandle
                                              broadcastErr       v  (one aggregator per key)
                                                   |   errCh   candleCh        (unbuffered)
                                                   +------+-------+
                                                          v
                                          DataFeedSubscription.Start, one goroutine per feed
                                                          |  calls, one after the other
                                     Controller.OnCandle -+- WebServer.OnCandle
                                              |
                                     Strategy.OnCandle -> OrderFeedSubscription.Publish
                                                          |  buffered channel, one goroutine per pair
                                 OrderFeedConsumerBroker.OnOrder -+- WebServer.OnOrder
                                              |
                                     Upbit.CreateOrderMarket, callbacks (telegram)
```

Everything from `candleCh` to the web page runs in the goroutine of one feed, and
everything from the order channel to the exchange in the goroutine of one pair.
`main` starts the exchange, then the data feed, the order feed and the
controller, and on a signal stops the data feed, the order feed and the exchange,
in that order.

### 1.3 What is hard here, and what makes each part correct

* **Order feed.** Publishers, subscribers and the delivery goroutine share one
  `RWMutex`; a `Publish` keeps the read lock while it waits for room, a waiting
  `Subscribe` keeps new readers out, and a `select` picks at random among its ready
  branches. Correct means: an accepted order reaches every consumer once, in the
  order of acceptance; nobody waits for ever; `Stop` ends everything.
* **Candle aggregator.** The exchange sends a second again and again while it runs,
  may be silent for several intervals, and a bar must be closed exactly once, with
  the last revision of each of its seconds. The buffer must not grow. `CandlesSubscription`
  enters the aggregator into the map, sets its key and pushes the candle of the running interval, with a
  request in between, while the websocket already pushes to it.
* **Websocket.** `Start` and each `CandlesSubscription` spawn a goroutine that may
  run it; `wg.Add` is called by that goroutine; connections are lost and dialled
  again; `Stop` closes channels that goroutines may be about to send to.
* **Data feed.** Subscribers share a goroutine and want different candles; errors
  come as candles; `Stop` may find a goroutine anywhere.
* **The bot.** A bar passes three goroutines without a buffer between them, and the
  order in which the parts stop decides whether anyone is left waiting.
* **Strategy and account.** A position is read before the orders of the last
  candle have reached the exchange; a request may fail, or its answer be lost. Correct
  means: what one bar orders is within the position it read, the exchange gets each order once and in
  order, and the callbacks hear of each.
* **Controller.** Late bars, bars that come again and empty candles must not
  shift the rows the strategy computes with; `started` is set by another goroutine.
* **Web server.** A page connects while bars arrive; two goroutines store and broadcast under two
  locks; a clean-up goroutine closes a channel others send to; a client may read slowly or never.
* **Backtests.** `CandlesByPeriod` joins pages at their ends. `backtest.go` executes
  orders in one goroutine on an account and a price another one uses, without a lock.
  `validate.go` computes all signals before it walks: one that sees a later candle would
  make the result too good.

`PROJECT.json` lists the hazards one by one, each at its line.

## 2. The modules

| module | models | state that corresponds to the code | history variables |
| --- | --- | --- | --- |
| `OrderQueue` | what users of an order feed rely on: a queue per pair that every consumer reads from where it subscribed | - | - |
| `OrderFeed` | `feed/order_feed.go` | `subs`, `feeds`, `data`/`parked`/`closed` (a Go channel: its buffer, the senders that sleep in it, oldest first, and whether it is closed), the lock as the places of its holders (`pubPc`, `subPc`, `recvPc`) | `sent`, `handled`, `joined`, `got`, `issued` |
| `CandleAggregator` | an aggregator and the sends of `handleCandle1s` | `stage` (where `CandlesSubscription` is), `buffer`, `currentKey`; a bar is the set of the candles it aggregates | `partial`, `finals`, `last`, `newest`, `base`, `late`, `closedAt` |
| `UpbitStream` | the websocket, with any result of `push1sCandle` | `cancelled`, `wsRunning`, `wsConn`, `registered` (keys of `aggregatorMap`), per goroutine `pc`, `conn`, `codes`, `retries`, `todo`, `outbox`; `errs` (goroutines of `broadcastErr`) | `nread`, `failures`, `sent` |
| `DataFeed` | `feed/data_feed.go` | `connected`, `nsub`, per feed `at`, `item`, `left` (the subscriptions it has yet to call) | `since`, `got`, `taken` |
| `ImprovedPSH`, `PSH` | the signals the two strategies' `OnCandle` make of the indicators of a bar | none | - |
| `Trading` | from a strategy's `OnCandle` over the order feed and `OrderFeedConsumerBroker.OnOrder` to the account | `strat` (which of the two strategies), locals of `OnCandle` (`position`, `out`) and `OnOrder` (`order`) and where they are, `queue` (the order feed's channel); the exchange's `account` and `open` orders | `settled`, `bars`, `issued`, `placed`, `refused`, `told` |
| `MarketData` | `Raccoon.Start` and `Stop` over instances of `UpbitStream` and `DataFeed`, whose channel ends it joins | `main` | - |
| `Controller` | `strategy/controller.go` | `Dataframe`, `started` | `seen`, `given`, `decided` |
| `WebServer` | `webserver/webserver.go` | `candlesticks`, `indicators`, `orders`; `sseClients` with `channel` and `closed`; `mu` and `sseMu` as the places of their holders (`stage`, `at`, `readers`); `gone` (a request's context) | `missed` |
| `Dashboard` | the bot from a bar to the page: a feed's goroutine calling controller and web server, the order feed's calling the web server, `main` preloading before both, over `Controller` and `WebServer` | `todo`, `item` | `past`, `bar`, `taken`, `issued`, `told` |
| `CandlePages` | `CandlesByPeriod` | `toTime`, `allCandles` | `asked` (the call, and the market it asks about) |
| `Backtest` | `programs/backtesting/backtest.go` with `exchange/backtest.go` | `closes`, `bar`, `currentPrice`, the account (`Coin`, `KRW`, `AvgBuyPrice`), locals of `OnCandle` and of `processOrder`, `queue` | `settled`, `refused` |
| `Indicators` | `indicator/indicator.go` | none | - |
| `Validate` | `programs/backtesting/validate.go`, over `Indicators` and `PSH` | `data`, `trends`, `indicators`, `signals`, `balance`, `position`, `buyPrice`, `maxBalance` | - |
| `Backtesting` | either program from its `CandlesByPeriod` on, over `CandlePages`, `Backtest` and `Validate` | - | - |
| `MC*` | bounds and small instances for TLC | | |
| `*Proofs` | TLAPS proofs | | |

How the code is cut into steps: whatever a goroutine does between two
synchronisations (a lock, a channel operation, a `wg` call, a network call) is one
action. A `select` is one action per branch, with no preference among the ready
ones. Where a program would die of a panic, a variable (`panicked`, `crashed`)
records it and nothing moves after it.

Abstractions worth knowing when reading the modules:

* `OrderFeed`. `sync.RWMutex` is modelled by what it promises: a pending writer
  keeps new readers out and waits for those that are in. An order handed to a
  channel with a sleeping receiver is the same as one that passes through the
  buffer. The channel `Err` has no sender anywhere and is left out. Orders are
  published after the subscriptions of `Raccoon.SetupSubscriptions`; those of `Late`
  may come at any time.
* `CandleAggregator`. Prices are functions of the set of candles in a bar; an
  empty set is the bar with no volume that the code does not send. `TruncateKST`
  counts from Seoul's midnight. Time does not run back (the candle is truncated to its second, and the
  exchange sends them in order), and a second is revised, never withdrawn. `CandlesSubscription` is three
  steps (`Register`, `InitKey`, `Preload`), and each push of the websocket is one: that two goroutines write the
  buffer and the key without a lock, which may stop the program, is left out. The websocket waits with a
  bar to send until `CandlesSubscription` has returned (`HeldUp`). The machine's clock, from which the key is set, is not behind the exchange's.
* `UpbitStream`. The network fails at most `MaxFailures` times on its own; a read
  on a connection somebody closed fails always. The ping goroutine only makes a dead
  connection fail, which a read may do at any time. `CandlesSubscription` writes a
  map another goroutine ranges over: the loop may or may not meet the new key.
* `DataFeed`. A subscription's list is compared with what its feed took by naming the
  places of the candles it wants (`Due`) and an increasing map onto them (`Lists`), which
  says the same as a `SelectSeq` and can be proved about; `MarketData` does so with what
  was sent (`SameAt`). `loadSync` only makes `Start` wait and is left out. After
  `Upbit.Stop` the error channel is always ready with `nil`, which changes nothing.
* `WebServer`. An event is its kind, its place on the time axis and a number of its own. The page's
  script puts a bar or the indicators of a time in the place of what it shows there and adds an order to the
  others (`Draw`; of several bars of one time the last stays, `Lasts`). A page is the set of what is drawn: an order that
  comes twice, from snapshot and channel or after a lost connection, is then drawn twice (`webserver.go:397`), which the set
  does not count. Writing to a connection ends when the client likes.
* `Dashboard`. The bot attaches no web server to its controller (3.3), so `Attached` says
  whether one is: the run of the page's properties sets it to check `OnIndicators` as well.
  `Controller` assumes a warm-up of at least two rows (the strategies ask for 80): with one, the empty
  row of an error would be a sample of its own. A decision issues up to two orders, as `ImprovedPSH` may.
* `CandlePages`. A candle is its time; what the pages bring is a bag, since `allCandles` is sorted
  at the end. Only intervals with trades have a candle, and their prices are positive (`BacktestingAssumption`).
* `Backtest`. No step has two accesses to what the other goroutine writes or reads: main's
  readings of coins and money, `processOrder`'s readings of the price and its writings of coins, money and average are steps
  of their own. Amounts are integers (what the money buys is rounded down), the average price is a fraction.
* `Indicators`, `Validate`. Numbers are exact fractions, `NaN` is 0/0, rounding is left out; a
  standard deviation is compared by its square. A loop that sums is a fold over its window (`PlusOver`), one that
  carries a value along (`previousEMA`, `upTo`) a recursive function of the index. The walk of `validate` is one loop without
  concurrency.
* `Trading`. Coins are counted in won at a price that does not change, the trade
  fraction is the default of one half, and fees with the rounding of prices are left out: the
  properties compare amounts that the code derives from one position. A risk limit
  (stop loss, take profit) and the signals are any outcome the position allows; the
  signals a trend may give are those of `ImprovedPSH!Possible` and `PSH!PSHPossible`, which the assumptions `DecideIsPossible`
  (MCTrading) and `DecideIsPSHPossible` (MCBacktesting) compare with `Decide` and `PSHDecide` over all outcomes of the indicators' comparisons. The exchange is
  external: it refuses an order without enough free coins or won or below its minimum, locks what
  an accepted order needs, and executes it later and whole. A request may fail before it
  reaches the exchange, or lose its answer after it did; the HTTP client has a
  deadline and makes no second attempt. The order feed is running.

## 3. What TLC checks

| run | properties | instance |
| --- | --- | --- |
| `order_feed` | `Conserved`, `DeliveredInOrder`, `Lockstep`, `PublishReturns`, `AcceptedDelivered`, `StopEndsDelivery`, `ImplementsQueue` | two publishers, two orders of a pair and one of a pair nobody subscribed to, capacity 1, one consumer from the start and one that comes late |
| `candle_bars` | `FinalIsFinal`, `FinalsInOrder`, `NothingForgotten`, `BufferPruned`, `PartialIsCurrent`, `SecondsPassedOn` | bars of 3 seconds, 10 seconds over two midnights, two revisions; and the `1s` timeframe (duration 0), at most 5 candles |
| `stream` | `OneStream`, `SentInOrder`, `NoCandleAfterClose` | two timeframes of a pair and `Start`, two messages, one failure, `Stop` at any time |
| `data_feed` | `GetsItsCandles`, `ServedInTurn`, `StopEndsFeeds` | two feeds, four subscriptions of both kinds, a preloaded candle, two candles or errors |
| `market_data` | `StreamReachesSubscription`, `BarsFlow`, `ReturnsUnlessHeld`, `StreamEnds` | the bot's two subscriptions, two messages or error messages, a preloaded candle, `Stop` at any time |
| `trading` | `RefusedWhenStale`, `PlacedInOrder`, `ToldOfPlaced`, `AllReported` | either strategy, coins and won worth 8 each, a minimum of 2, two bars of up to two orders, capacity 2 |
| `dashboard` | `TypeOK`, `DataframeFaithful`, `DecidesOnLatest`, `NothingMissed`, `NeverSentToClosed`, `CallsReturn`, `GoneForgotten` | no or two past bars, then two candles or errors, two orders, a warm-up of two rows, a connection that comes, goes and comes again, a channel for two events |
| `backtesting` | `PeriodComplete`, `AccountSound`, `RefusedWhenBehind`, `AllIn`, `SignalsCausal`, `ProgramEnds` | pages of two candles over markets with and without gaps; `backtest.go` over three candles with prices 1 and 2, 64 won, capacity 1; `validate.go` over every market of six closes among 2, 3 and 4 that starts with 3, and over a period without candles |

The types of the other modules are proved (section 4).

Each property has a mutant in `PROJECT.json`: a change of one definition that a
plausible bug would make and under which TLC finds the property violated.

### 3.1 Why the bounds are enough

* Capacity 1 makes a channel full, so that publishers sleep, wake and are cancelled; two
  publishers are enough for one to sleep while the other holds or waits for the
  lock; a larger buffer only delays this, and the proofs cover every size.
* Three seconds per bar give an interval a first, an inner and a last second; the
  horizon holds three whole intervals, so that the stream can be silent over one;
  `Day` is a multiple of `D`, as it is for every timeframe the bot supports that
  is shorter than a day.
* Two timeframes and `Start` are three goroutines that compete for the websocket; one
  of the timeframes can register while the other's loop runs. With two messages and a
  failure the second message may come over a new connection.
* In `market_data` the network fails only once `Upbit.Stop` has closed the connection; reads then fail, sleep and
  dial again, which is what a stop has to end. Failures before a stop only repeat this.
* Two subscriptions of the same kind and one of the other kind are needed to
  compare what subscribers of a feed get; a second feed shows that they do not mix.
* One connection is registered, served, lost, cleaned up and made again, which is every
  order of its handler, its clean-up goroutine and the two writers; connections share nothing but
  the locks. Two candles fill its channel of two when orders join them, so an event is
  dropped; the two orders may be those of one decision; two past bars reach the warm-up before the first live one.
* Pages of two candles over markets of up to five put the start and the end of a period, a
  gap and an empty page at every place of a page. 64 won are halved with every half order and stay above the
  minimum of two; capacity 1 (100 in the code) makes main wait for the broker. Six candles and windows of
  up to three let every indicator be undefined, start and slide; months of three candles give two trends.
* Two bars let the second position be read while the orders of the first are published,
  queued, requested or open, which is every way it can be stale; a balance of 8 halves twice and still reaches
  below the minimum.

The bounds are `Horizon`, `MaxSent`, `MaxRead`, `MaxFailures`, `MaxTaken`, `History`,
`MaxBars`, `MaxCandles`, `MaxOrders` and the finite sets of orders and calls (`Asked`). Deadlock is not checked: in every
instance the bot may stop or run out of messages. That nobody waits for ever is
what the liveness properties say.

### 3.2 Fairness

Weak fairness on the steps of a goroutine says that Go's scheduler runs whoever can
run. It is assumed for every goroutine and for the calls `Raccoon.Start` always makes,
and for nothing the environment decides: publishing, stopping, subscribing late, messages
and failures of the network. A dial and a read end because they have deadlines (the dialler's handshake timeout,
`SetReadDeadline` at `upbit.go:634` and 689), so they are part of their goroutine's steps. The write of the subscription
at `upbit.go:656` has none: that one small message after a dial is accepted or refused
rests on the operating system's TCP, not on the code. `UpbitStream`
has no liveness of its own; in `MarketData` its channels are received from by the data
feed, which ends first in a stop, so that a goroutine may hold a bar for nobody. `ReturnsUnlessHeld` and `StreamEnds`
name this as their only exception, and `market_data_stop` finds it (3.3).
`Trading` assumes that the exchange executes market orders.
`Dashboard` is fair to the bot's goroutines, the handlers included, and not to clients: one
may stop reading in the middle of the snapshot, which `CallsReturn` and `GoneForgotten` name as their only exception
(the handler holds `mu` while it writes).
`Backtesting` is fair to requests and to the two goroutines of `backtest.go`; `validate`
has one loop, of which no liveness is claimed.
For `StopEndsFeeds` the random choice of a `select` is needed, as strong fairness of its context branch
(`Done`): the choice is random, so a branch that is ready again and again is taken with probability one.
`StopEndsDelivery` holds in the bounded instance because the other branch runs out of messages.

### 3.3 Where the code and what is said of it disagree

| run | property | what TLC finds |
| --- | --- | --- |
| `order_feed_after_stop` | `QuietAfterStop` | an order published after `Stop` is delivered, or its `Publish` panics on the channel the goroutine closed |
| `candle_first_second` | `BarsWhole` | a complete bar lacks the second its interval starts with, which is then deleted, while the comments at `upbit.go:779` and 857 say it is part of the bar |
| `data_feed_complete` | `CompleteOnly` | an error is handed as an empty candle to subscriptions that asked for complete candles, contrary to `data_feed.go:30` and `raccoon.go:63` |
| `market_data_stop` | `StopReturns` | `Raccoon.Stop` ends the receivers of the bars before it waits for the goroutine that sends them, and may not return |

The models show more of this kind that no run is spent on: the candle `CandlesSubscription` fetches may take the place of a newer first second, or
come when its interval is closed and stay in the buffer (`PartialIsCurrent` and `BufferPruned` name these as their exceptions);
the buffer of the `1s` timeframe is never pruned (`upbit.go:754`); nobody sets `Controller.WebServer`, so no indicator
reaches the page `README.md:23` promises them to (`Attached`); a page draws an order twice that is stored between its
registration and its snapshot, or that it had before its connection was lost (`webserver.go:397`); `retries` is declared after the label `connect`, so a stream whose reads fail is dialled
again for ever, while one whose dial fails is given up at once; a `Publish` that waits on a
full channel, a `Subscribe` that waits for the lock and the delivery goroutine that needs it
block one another until `Stop`, though `feed/order_feed.go:48` buffers the channel to keep
`Publish` from blocking (`PublishReturns` states it as the only exception; the bot subscribes before it starts); an order decided on
while earlier ones are under way may exceed the account and be refused (`RefusedWhenStale` says
that only such orders are); a goroutine of
`broadcastErr` that outlives `Stop` sends to a closed channel and panics (`SendErr`
after `StopChannels`); a pair subscribed to while the websocket runs is not
asked for until the connection is lost (`WriteSubscription` takes the keys of
that moment); the empty candle of an error becomes a row when there is none yet (`DataframeFaithful` says so).
Of the backtests: `backtest.go` prints its result while orders are still queued (`Finish`);
a page that fails throws away the pages before it (`PageFails`); the candle at the end of the period is kept by the filter
at `upbit.go:476` but never fetched, since a page holds candles before its `to` (`PeriodComplete` allows it to be missing); `validate.go:675` speaks of a balance with the
value of the position ("포지션 가치 반영"), but coins that could only be sold at a loss are not counted: the balance returned is
then 0, a return of -100% (`AllIn` claims nothing of what coins are worth); and the
final sale does not enter the highest balance (`FinalSale`); trends look at their whole month,
later candles included (`validate.go:65`, `DetectMonthlyTrendsDF`); a signal line
starts from 0 when the MACD is not defined in its first window (`indicator.go:143`, `CustomEMAFromSlice`);
with fewer candles than the bands' period less one `validate` panics (`Prepare`).

## 4. What is proved

The proofs hold for all constants that satisfy the modules' assumptions
(`OrderFeedAssumption`, `CandleAssumption`, `StreamAssumption`, `FeedAssumption`, `MarketAssumption`,
`TradingAssumption`, `ControllerAssumption`, `WebServerAssumption`, `DashboardAssumption`, `PagesAssumption`,
`BacktestAssumption`, `MonthAssumption`, `ValidateAssumption`, `BacktestingAssumption`). Every invariant a passing run checks, and the
refinement `ImplementsQueue`, is a theorem.

**`OrderFeedProofs`.** The invariant is `DeliveryInv`: `Conserved` (what a channel accepted
is, in this order, what is delivered, what is in the goroutine's hands and what is
buffered), `Placed` (a subscription that is done has one place in its pair's list) and
`Progress` (consumers before the loop's position are one order ahead). None of
the properties is inductive alone: `DeliveredInOrder` needs `Progress` to know which
order the next call is, and `Progress` needs `Placed` to know that a call advances one
consumer. A second invariant, `OnceInv`, follows an order from `Publish` to
its channel: it is held by at most one publisher until it is accepted, and by
none afterwards. From the two follow `OrdersConserved`, `DeliveryOrdered`, `DeliveryUnique`,
`DeliveryLockstep` and `FeedImplementsQueue`: `PublishSend` and `ReceiveAndUnpark` are an
`Accept` of the queue, the body of `Subscribe` a `Subscribe`, a call of a consumer a `Receive`, and all other
steps stutter.

**`CandleAggregatorProofs`.** `Window` relates the buffer to all that was pushed: the running
interval and what lies ahead of it is complete in the buffer, but for a first second whose place the fetched candle has taken,
and a closed interval lies behind the newest candle; the fetched candle is the only one in the buffer the websocket did not push. It holds through the
three steps of `CandlesSubscription`. With it, closing a bar takes the final revision of
every second, so `FinalsAreFinal`, `FinalsOrdered`, `NoSecondForgotten`,
`BufferStaysPruned` and `PartialsAreCurrent` hold for every duration and any stream.
`SecondsArePassedOn` is the same for the timeframe without a duration, with the invariant `Seconds`:
no candle passed on is ahead of the newest one.

**`UpbitStreamProofs`.** The invariant `Exclusion` is `OneStream` (an active goroutine excludes
every other one) with `StreamInv` (`wsRunning` is set while there is one; candles
are held in `handleCandle1s` only; past `wg.Wait` no goroutine is beyond the loop's
look at the context); it gives `StreamExclusive` and `ClosedAfterLastCandle`. This is
the argument why the late `wg.Add` does no harm to candles. `ChannelsInOrder` takes `OrderInv` on top of both: the
message in hand is the newest one, what a goroutine still holds for a channel follows on what was sent to it
(`FollowsOn`), and a key its loop has yet to visit has got nothing of this message (`Unvisited`).

**`DataFeedProofs`.** `FeedInv` is `TypeOK` with `SetUp` (before `Start` no goroutine hands out a candle, and
a subscription has all that was preloaded since it was made), `Calling` (only a candle that is handed out has subscriptions
left to call) and `InStep`: two like subscriptions have got the same, or the candle in
hand lies between them. `ServedInTurn` says nothing of what is in hand and is not
inductive; `InStep` is, because the earlier subscription is called first. Hence `SubscriptionsInTurn`.
`SubscriptionsComplete` needs `CandleInv`: before `Start` a subscription has got what its feed took since, one for one
(`Direct`); afterwards a candle that is received is at once due and held, and a call moves it from what is held to
what is got, so the increasing map of `Lists` is extended by one place at a time.

**`MarketDataProofs`.** The bot's market data is proved over both instances together. `MarketInv` is
`StreamReachesSubscription` with what is needed of its two sides: the websocket holds bars of messages it has read
(`StreamPart`), a feed's goroutine calls only subscriptions of its feed, and only while a candle is handed out (`FeedPart`),
and before `Start` nothing of the stream is anywhere (`Quiet`). Hence `StreamReachesAll`. `StreamImplemented` is the
refinement `Spec => Stream!Spec`: each step of the bot is a step of `UpbitStream`, where a send may be taken at any time, or a stutter; and `StreamKeepsItsPromises` carries `OneStream`, `SentInOrder` and `NoCandleAfterClose` over, citing
the lemmas of `UpbitStreamProofs` through an instance of that module; `FeedKeepsItsPromises` does so with
`DataFeedProofs`. For the feed no step simulation is claimed: each move the bot makes of it is checked against its invariant. From
`StreamReachesAll` and `SentInOrder` follows `SubscriptionsInStreamOrder`: the order of the messages is
kept from the websocket's goroutine to the last consumer.

**`TradingProofs`.** Three invariants, each for any amounts, capacity and number of bars, and for both strategies.
`PlaceInv` numbers the orders along the way from the callbacks back to `OnCandle` (`Numbered`), bounds what the exchange has
seen (`Requested`) and says what is locked for (`Locked`: the locked amount is the cardinality of the units
of the open orders, a sum that the prover can follow). With it `OrdersPlacedInOrder` and `CallbacksTold` follow in `OrderInv`.
`FitInv` carries `RefusalsStale`: an order of a settled position stays affordable until it is requested
(`StillFits`), for nothing but orders of the same position, of the other side, comes before it (`Apart`, `SettledFirst`), and executions
only add to what is free. `TypeCorrect` includes that no amount of the account goes below zero.

**`DashboardProofs`.** The invariant `Inv` has a part for each question. `RowInv` says what the rows are: the bars
given to the controller, one row a bar, an error a row only when there is none (`DataframeIsFaithful`). `BarInv` orders what is given
after what was decided: `main` starts the controller when the past bars are through, so a bar that is decided on is later than the
rows before it (`EachBarDecidedOnce`). `StoreInv` and `CallInv` number the events along the way from a feed to the
store: an event is stored after those of its kind before it, and what is broadcast is stored. `PlaceInv` gives each event
on a page or in a channel its place among those, and `NoneMissed` says that drawing the channel and what the writers still hold on a
connected page gives the newest of all that is stored, each order among them; a page whose handler has not sent the snapshot yet counts as
drawn, because the snapshot will be at least as new as now. The last is what makes the window between registering a
client and its snapshot harmless (`PagesMissNothing`). `ClosedInv` (a channel is closed after its client is
forgotten, under the same lock) gives `NoSendToClosed`.

**`BacktestingProofs`.** `ProgramsImplement`: the programs implement `CandlePages` and `Backtest`,
so what is proved of a part holds in the program.

* While `CandlesByPeriod` goes on, it holds the candles from `toTime` to the end once
  (`PagesInv`), and a page is an interval that ends at `toTime` (`PageIsInterval`): hence `PeriodsComplete`, each
  candle before the end once, for every market, period and page limit.
* `BacktestInv` is `BacktestType`, `Covered` (there is a price before there are orders; what
  is being paid is there), `StillFits` and `RefusedWhenBehind`, with `SettledFirst` beside it. The account is read in two
  steps while orders may be executed: `StillFits` holds because a reading counts as settled only when the
  queue was empty, and main itself publishes the next order (`RefusalsBehind`). `AverageInv` follows the steps
  of a purchase, in which cost and coins are out of step, for `AccountIsSound`: nothing is below zero, and the average
  lies between prices of the market.
* `FundsInv` carries `AccountIsAllIn`: the account of `validate.go` is in lowest terms, the coins are worth their cost at the
  price paid (`BoughtForAll`), and what is sold for more gives more (`SoldForMore`). The fractions need that `gcd` is the
  greatest common divisor (`GcdFacts`).
* `SignalsAreCausal`: each indicator of a shorter list of candles is the start of that of a longer one (`SMAStarts`,
  `EMAStarts`, `MACDStarts`, `RSIStarts`, `StochStarts`, `BandsStart`, `IndicatorsStart`), a comparison reads no later place
  (`SignalSame`), and a later candle only appends signals of its own date (`AppendedAhead`). The invariant is only that
  the signals are made of the indicators of all candles.

**What loops compute.** The library's theorems for induction take an operator as a parameter, which the installed provers
cannot instantiate. The proofs use the least number instead: a nonempty set of
numbers has a least element (`Least`, from `NatLessThanWellFounded` and `WFMin`), so what holds at first and
passes on holds throughout (`Induct`); a loop that carries a value along has one result
(`LoopExists`, `LoopOnly`, `IsLoop`), which is the recursive function of the model; and two folds whose steps agree
are the same choice (`SumSame`, `PlusSame`). No module of the project declares a `RECURSIVE` operator.

Model-checked only: liveness (`PublishReturns`, `AcceptedDelivered`,
`StopEndsDelivery`, `ReturnsUnlessHeld`, `StreamEnds`, `StopEndsFeeds`, `BarsFlow`, `AllReported`, `CallsReturn`,
`GoneForgotten`, `ProgramEnds`), which is beyond the prover, and that `PSHDecide` and `Decide` stay within what
`Possible` and `PSHPossible` allow, which are assumptions TLC evaluates over all outcomes of the comparisons.

## 5. Plan and what is not modelled

Next, in this order:

1. A step simulation of `DataFeed` by `MarketData`, and of `Controller` and `WebServer` by `Dashboard`.
2. An abstract specification of the account for `Trading` and `Backtest`, which share their argument.
3. The bot as a whole: `OrderFeed` between `Dashboard` and `Trading`. Each pair of neighbours is
   composed now (`MarketData`, `Dashboard`, `Trading`); all of it at once is out of TLC's reach.

Not modelled: the remaining calls of the REST client, which are one request each whose answer is
converted; signing and HTTP; `talib.go`, one call of go-talib per function; the supertrend, the trailing stop and the
scheduler, which the bot does not use; the telegram notifier, one HTTP request
per message (that it has no deadline, and runs in the order feed's goroutine, is in the list of hazards); the layout of
the page; logging and generic helpers; data types and test doubles.
