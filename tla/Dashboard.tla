----------------------------- MODULE Dashboard -----------------------------
(***************************************************************************)
(* What the bot does with a bar once the data feed has it: the goroutine   *)
(* of the feed calls the controller (Controller) with complete bars and    *)
(* errors and the web server (WebServer) with all, one after the other;    *)
(* the goroutine of the order feed calls the web server with the orders    *)
(* of the strategy; main preloads past bars before both run (bot/          *)
(* raccoon.go).                                                            *)
(***************************************************************************)
EXTENDS Controller, WebServer

CONSTANTS
  Preloaded,   \* possible numbers of past bars
  MaxCandles,  \* bound: candles of the feed after them
  MaxOrders    \* bound: orders of the strategy

ASSUME DashboardAssumption ==
  /\ Writer = {"feed", "orders"}
  /\ Preloaded \subseteq Nat /\ {MaxCandles, MaxOrders} \subseteq Nat

VARIABLES
  past,    \* bars preloaded
  bar,     \* external: the interval the exchange is in
  taken,   \* candles the feed has taken
  item,    \* the candle it hands out
  todo,    \* the subscription it calls next
  issued,  \* orders of the strategy, and
  told     \* those the web server was told of

feedVars  == <<past, bar, taken, item, todo>>
orderVars == <<issued, told>>
vars == <<controllerVars, serverVars, feedVars, orderVars>>

-----------------------------------------------------------------------------
Candle(time, complete) == [time |-> time, n |-> taken + 1, complete |-> complete]

Init ==
  /\ ControllerInit /\ ServerInit
  /\ past \in Preloaded
  /\ bar = 1 /\ taken = 0
  /\ item = [time |-> 0, n |-> 0, complete |-> FALSE]
  /\ todo = "none"
  /\ issued = 0 /\ told = 0

\* The feed's goroutine takes the next candle when it is through with the
\* last; so does main with the past ones.
HandOut(candle) ==
  /\ todo = "none" /\ stage["feed"] = "idle"
  /\ item' = candle
  /\ todo' = IF candle.complete \/ candle.time = Never
             THEN "controller" ELSE "web"
  /\ taken' = taken + 1
  /\ UNCHANGED <<controllerVars, serverVars, orderVars, past>>

\* Past bars are marked complete, the one of the running interval as well.
Preload ==
  /\ taken < past
  /\ HandOut(Candle(bar, TRUE))
  /\ bar' = IF taken + 1 = past THEN bar ELSE bar + 1

Live == taken >= past /\ taken < past + MaxCandles

\* A bar that is still forming,
Partial == Live /\ HandOut(Candle(bar, FALSE)) /\ UNCHANGED bar

\* a bar that is complete,
Complete == Live /\ HandOut(Candle(bar, TRUE)) /\ bar' = bar + 1

\* or an error, which comes as the empty candle.
Error == Live /\ HandOut(Candle(Never, FALSE)) /\ UNCHANGED bar

\* DataFeedConsumerStrategy.OnCandle. What the controller draws of a
\* decision is the strategy's indicators at the last row; a decision issues a
\* sale, a purchase, both or neither.
CallController ==
  LET candle == [time |-> item.time, n |-> item.n] IN
  /\ todo = "controller"
  /\ OnCandle(candle)
  /\ todo' = "web"
  /\ IF Attached /\ decided' # decided
     THEN On("feed", [type |-> "indicators", n |-> item.n,
                             x |-> Last(Last(decided')).time])
     ELSE UNCHANGED serverVars
  /\ issued' \in IF decided' = decided THEN {issued}
                 ELSE {n \in issued..(issued + 2) : n <= MaxOrders}
  /\ UNCHANGED <<past, bar, taken, item, told>>

CallWebServer ==
  /\ todo = "web"
  /\ On("feed", [type |-> "candle", x |-> item.time, n |-> item.n])
  /\ todo' = "none"
  /\ UNCHANGED <<controllerVars, orderVars, past, bar, taken, item>>

\* The goroutine of the order feed: its second consumer.
OnOrder ==
  /\ told < issued
  /\ On("orders", [type |-> "order", x |-> told + 1, n |-> told + 1])
  /\ told' = told + 1
  /\ UNCHANGED <<controllerVars, feedVars, issued>>

\* Raccoon.Start: the controller when the feed runs, then the web server.
Start ==
  /\ taken >= past
  /\ taken = past => todo = "none" /\ stage["feed"] = "idle"
  /\ ControllerStart
  /\ UNCHANGED <<serverVars, feedVars, orderVars>>

Writes(w) ==
  /\ Store(w) \/ broadcastSSE(w)
  /\ UNCHANGED <<controllerVars, feedVars, orderVars>>

Request(c) ==
  /\ started
  /\ Register(c)
  /\ UNCHANGED <<controllerVars, feedVars, orderVars>>

Handler(c) ==
  /\ RLock(c) \/ Leave(c) \/ Cleanup(c)
     \/ (c \in gone /\ SendStored(c))
  /\ UNCHANGED <<controllerVars, feedVars, orderVars>>

\* Writing to a connection takes as long as its client likes.
ClientReads(c) ==
  /\ (c \notin gone /\ SendStored(c)) \/ Forward(c)
  /\ UNCHANGED <<controllerVars, feedVars, orderVars>>

GoesAway(c) ==
  /\ Disconnect(c)
  /\ UNCHANGED <<controllerVars, feedVars, orderVars>>

FeedStep == CallController \/ CallWebServer

Next ==
  \/ Preload \/ Partial \/ Complete \/ Error \/ FeedStep \/ OnOrder \/ Start
  \/ \E w \in Writer : Writes(w)
  \/ \E c \in Connection : Request(c) \/ Handler(c) \/ ClientReads(c) \/ GoesAway(c)

\* The bot's goroutines run on; candles, orders and clients come or not, and
\* a client reads or not.
Fairness ==
  /\ WF_vars(FeedStep) /\ WF_vars(OnOrder)
  /\ \A w \in Writer : WF_vars(Writes(w))
  /\ \A c \in Connection : WF_vars(Handler(c))

Spec == Init /\ [][Next]_vars /\ Fairness
-----------------------------------------------------------------------------
Events == [type : {"none", "candle", "indicators", "order"}, x : Nat, n : Nat]

TypeOK ==
  /\ Dataframe \in Seq(Row) /\ given \in Seq(Row)
  /\ decided \in Seq(Seq(Row))
  /\ {started, seen, panicked} \subseteq BOOLEAN
  /\ {candlesticks, indicators, orders} \subseteq Seq(Events)
  /\ call \in [Writer -> Events]
  /\ stage \in [Writer -> {"idle", "lock", "broadcast"}]
  /\ readers \subseteq Connection /\ sseClients \subseteq Connection
  /\ closed \subseteq gone /\ gone \subseteq Connection /\ missed \subseteq Connection
  /\ channel \in [Connection -> Seq(Events)]
  /\ \A c \in Connection : Len(channel[c]) <= Capacity
  /\ at \in [Connection -> {"none", "registered", "snapshot", "stream", "end"}]
  /\ page \in [Connection -> SUBSET Events]
  /\ readers = {c \in Connection : at[c] = "snapshot"}
  /\ todo \in {"none", "controller", "web"}
  /\ told \in 0..issued

(* The dataframe is what the feed gave with late candles left out and of   *)
(* each bar the last revision: no row is lost, doubled or out of order. An *)
(* empty candle, which stands for an error, is a row only if it comes      *)
(* before every bar.                                                       *)
DataframeFaithful ==
  /\ RowsAreLastRevisions
  /\ \A i \in DOMAIN Dataframe : Dataframe[i].time = Never => given[1].time = Never

(* The strategy is asked once about a bar, in the order of time, and sees  *)
(* the bar with the ones before it in the dataframe, as many as it wants.  *)
DecidesOnLatest ==
  /\ \A i \in DOMAIN decided :
       /\ Len(decided[i]) = WarmupPeriod
       /\ \E k \in WarmupPeriod..Len(Dataframe) :
            decided[i] = SubSeq(Dataframe, k - WarmupPeriod + 1, k)
  /\ \A i, j \in DOMAIN decided :
       i < j => Last(decided[i]).time < Last(decided[j]).time

\* What is stored and no page has been sent.
Unsent == {call[w] : w \in {w \in Writer : stage[w] = "broadcast"}}

\* Of every bar what came last, with all indicators and orders.
Newest(events) == {e \in events : \A f \in events : Same(e, f) => f.n <= e.n}

Latest == Newest(ToSet(Stored))

(* Between what is stored when a page connects and what is broadcast from  *)
(* then on there is no gap: what a connected page shows, the events on     *)
(* their way to it and those about to be broadcast are every stored bar at *)
(* its last revision, all indicators and every order, at least once, and   *)
(* nothing else, unless the channel was full.                              *)
NothingMissed ==
  \A c \in sseClients \ (missed \cup gone) :
    LET drawn == IF at[c] = "stream" THEN page[c]
                 ELSE DrawAll(page[c], Stored)
    IN  Draw(DrawAll(drawn, channel[c]), Unsent) = Latest

(* An event is never sent to a channel that its connection's clean-up has  *)
(* closed.                                                                 *)
NeverSentToClosed == ~panicked

(* OnCandle, OnIndicators and OnOrder return, and with them the goroutines *)
(* of both feeds go on, unless a client keeps its handler in the snapshot  *)
(* for ever: it holds the lock while it writes.                            *)
CallsReturn ==
  (\A c \in Connection : []<>(at[c] # "snapshot")) =>
    \A w \in Writer : stage[w] = "lock" ~> stage[w] = "idle"

(* A connection that is gone is forgotten, its handler and its channel.    *)
GoneForgotten ==
  (\A c \in Connection : []<>(at[c] # "snapshot")) =>
    \A c \in Connection : c \in gone ~> (at[c] = "end" /\ c \notin sseClients)
=============================================================================
