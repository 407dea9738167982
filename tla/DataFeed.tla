------------------------------ MODULE DataFeed ------------------------------
(***************************************************************************)
(* DataFeedSubscription of feed/data_feed.go: one goroutine for each feed  *)
(* (pair and timeframe) hands what the exchange sends to the feed's        *)
(* subscribers, one after the other.  The exchange is what Connect gets    *)
(* from CandlesSubscription: a channel of candles and one of errors.       *)
(***************************************************************************)
EXTENDS Integers, Sequences, SequencesExt

CONSTANTS
  Key,            \* pair_timeframe
  Subscriptions,  \* the calls of Subscribe the program makes, in order
  History,        \* number of past candles passed to Preload
  MaxTaken        \* bound: what a feed takes from its channels

ASSUME FeedAssumption ==
  /\ Subscriptions \in Seq([key : Key, onCandleClose : BOOLEAN])
  /\ {History, MaxTaken} \subseteq Nat

Sub == DOMAIN Subscriptions

VARIABLES
  nsub,       \* number of subscriptions made
  since,      \* history: candles their feeds had handed out by then
  preloaded,  \* feeds that were preloaded
  connected,  \* feeds of d.DataFeeds
  started,    \* Start has spawned the goroutines
  stopped,    \* d.ctx is done
  at,         \* where the goroutine of a feed is
  item,       \* the candle it hands out
  left,       \* the subscriptions it has yet to hand it to
  got,        \* history: candles given to a subscription
  taken       \* history: candles a feed had to hand out

feedVars == <<nsub, since, preloaded, connected, started, stopped, at, item,
              left, got, taken>>

-----------------------------------------------------------------------------
\* What an error of the exchange makes of a candle: model.Candle{}.
Empty == [msg |-> -1, complete |-> FALSE]

Past(n) == [msg |-> -1 - n, complete |-> TRUE]

\* The feed's subscriptions; their order is that of the calls.
Subscribers(k) == {i \in 1..nsub : Subscriptions[i].key = k}

Feeds == {Subscriptions[i].key : i \in 1..nsub}

Wanted(i, c) == Subscriptions[i].onCandleClose => c.complete

\* The error path does not look at onCandleClose.
Given(i, c) == c = Empty \/ Wanted(i, c)

Init ==
  /\ nsub = 0 /\ since = <<>>
  /\ preloaded = {} /\ connected = {} /\ started = FALSE /\ stopped = FALSE
  /\ at = [k \in Key |-> "none"]
  /\ item = [k \in Key |-> Empty]
  /\ left = [k \in Key |-> {}]
  /\ got = [i \in Sub |-> <<>>]
  /\ taken = [k \in Key |-> <<>>]

\* Subscribe and Preload belong to the setup: both use the map of
\* subscriptions without a lock.
Subscribe ==
  /\ ~started /\ connected = {}
  /\ nsub < Len(Subscriptions)
  /\ nsub' = nsub + 1
  /\ since' = Append(since, Len(taken[Subscriptions[nsub + 1].key]))
  /\ UNCHANGED <<preloaded, connected, started, stopped, at, item, left,
                 got, taken>>

\* Past candles are marked complete and given to every subscription.
Preload(k) ==
  LET past == [n \in 1..History |-> Past(n)] IN
  /\ ~started /\ connected = {}
  /\ k \notin preloaded
  /\ preloaded' = preloaded \cup {k}
  /\ got' = [i \in Sub |-> IF i <= nsub /\ Subscriptions[i].key = k
                           THEN got[i] \o past ELSE got[i]]
  /\ taken' = [taken EXCEPT ![k] = @ \o past]
  /\ UNCHANGED <<nsub, since, connected, started, stopped, at, item, left>>

\* Start connects the feeds in the order of their first subscription...
Connect(k) ==
  /\ ~started
  /\ k \in Feeds \ connected
  /\ \A i \in 1..nsub :
       Subscriptions[i].key \notin connected =>
         \E j \in 1..i : Subscriptions[j].key = k
  /\ connected' = connected \cup {k}
  /\ UNCHANGED <<nsub, since, preloaded, started, stopped, at, item, left,
                 got, taken>>

\* ... and spawns a goroutine for each.
Start ==
  /\ ~started
  /\ nsub > 0 /\ Feeds = connected
  /\ started' = TRUE
  /\ at' = [k \in Key |-> IF k \in connected THEN "select" ELSE "none"]
  /\ UNCHANGED <<nsub, since, preloaded, connected, stopped, item, left, got, taken>>

HandOut(k, c) ==
  /\ at[k] = "select"
  /\ at' = [at EXCEPT ![k] = "deliver"]
  /\ item' = [item EXCEPT ![k] = c]
  /\ left' = [left EXCEPT ![k] = Subscribers(k)]
  /\ taken' = [taken EXCEPT ![k] = Append(@, c)]
  /\ UNCHANGED <<nsub, since, preloaded, connected, started, stopped, got>>

\* Mutant: the next candle is taken before the last one is handed out.
ReceiveEagerly(k, c) ==
  /\ at[k] \in {"select", "deliver"}
  /\ at' = [at EXCEPT ![k] = "deliver"]
  /\ item' = [item EXCEPT ![k] = c]
  /\ left' = [left EXCEPT ![k] = Subscribers(k)]
  /\ taken' = [taken EXCEPT ![k] = Append(@, c)]
  /\ UNCHANGED <<nsub, since, preloaded, connected, started, stopped, got>>

Receive(k, c) == HandOut(k, c)

\* Mutant: the goroutine returns on an error.
ReceiveErrReturn(k) ==
  /\ at[k] = "select"
  /\ at' = [at EXCEPT ![k] = "end"]
  /\ UNCHANGED <<nsub, since, preloaded, connected, started, stopped, item,
                 left, got, taken>>

\* An error is told to the subscribers as an empty candle.
ReceiveErr(k) == HandOut(k, Empty)

\* Mutants: every subscription gets every candle; the last subscription comes
\* first.
CallAlways(k) ==
  /\ at[k] = "deliver"
  /\ \E i \in left[k] :
       /\ \A j \in left[k] : i <= j
       /\ left' = [left EXCEPT ![k] = @ \ {i}]
       /\ got' = [got EXCEPT ![i] = Append(@, item[k])]
  /\ UNCHANGED <<nsub, since, preloaded, connected, started, stopped, at,
                 item, taken>>

CallLast(k) ==
  /\ at[k] = "deliver"
  /\ \E i \in left[k] :
       /\ \A j \in left[k] : j <= i
       /\ left' = [left EXCEPT ![k] = @ \ {i}]
       /\ got' = IF Given(i, item[k])
                 THEN [got EXCEPT ![i] = Append(@, item[k])] ELSE got
  /\ UNCHANGED <<nsub, since, preloaded, connected, started, stopped, at,
                 item, taken>>

\* The next subscription is called.
Call(k) ==
  /\ at[k] = "deliver"
  /\ \E i \in left[k] :
       /\ \A j \in left[k] : i <= j
       /\ left' = [left EXCEPT ![k] = @ \ {i}]
       /\ got' = IF Given(i, item[k])
                 THEN [got EXCEPT ![i] = Append(@, item[k])] ELSE got
  /\ UNCHANGED <<nsub, since, preloaded, connected, started, stopped, at,
                 item, taken>>

Called(k) ==
  /\ at[k] = "deliver"
  /\ left[k] = {}
  /\ at' = [at EXCEPT ![k] = "select"]
  /\ UNCHANGED <<nsub, since, preloaded, connected, started, stopped, item,
                 left, got, taken>>

\* The context is done, or the channel of candles is closed.
End(k) ==
  /\ at[k] = "select"
  /\ at' = [at EXCEPT ![k] = "end"]
  /\ UNCHANGED <<nsub, since, preloaded, connected, started, stopped, item,
                 left, got, taken>>

\* Mutant: the context's branch leaves the select and not the loop.
DoneBreak(k) == stopped /\ at[k] = "select" /\ UNCHANGED feedVars

Done(k) == stopped /\ End(k)

Stop ==
  /\ ~stopped
  /\ stopped' = TRUE
  /\ UNCHANGED <<nsub, since, preloaded, connected, started, at, item, left,
                 got, taken>>

-----------------------------------------------------------------------------
\* The feed with an exchange that sends what it likes until it closes.
Sends(k) ==
  \E complete \in BOOLEAN :
    Receive(k, [msg |-> Len(taken[k]), complete |-> complete])

Step(k) == Call(k) \/ Called(k) \/ Done(k)

Next ==
  \/ Subscribe \/ Start \/ Stop
  \/ \E k \in Key :
       \/ Preload(k) \/ Connect(k) \/ Step(k) \/ End(k)
       \/ Len(taken[k]) < MaxTaken /\ (Sends(k) \/ ReceiveErr(k))

\* The goroutines run on, and select takes the context's branch when asked
\* often enough.
Fairness == \A k \in Key : WF_feedVars(Call(k) \/ Called(k)) /\ SF_feedVars(Done(k))

Spec == Init /\ [][Next]_feedVars /\ Fairness
-----------------------------------------------------------------------------
FeedCandle == [msg : Int, complete : BOOLEAN]

TypeOK ==
  /\ nsub \in 0..Len(Subscriptions)
  /\ since \in Seq(Nat) /\ Len(since) = nsub
  /\ preloaded \subseteq Key /\ connected \subseteq Feeds
  /\ started \in BOOLEAN /\ stopped \in BOOLEAN
  /\ at \in [Key -> {"none", "select", "deliver", "end"}]
  /\ item \in [Key -> FeedCandle]
  /\ left \in [Key -> SUBSET (1..nsub)]
  /\ got \in [Sub -> Seq(FeedCandle)]
  /\ taken \in [Key -> Seq(FeedCandle)]

\* Which of a feed's candles a subscription is to see.
Due(i) ==
  LET all == taken[Subscriptions[i].key] IN
  {n \in since[i] + 1 .. Len(all) : Given(i, all[n])}

\* What of them the goroutine still holds.
Pending(i) ==
  LET k == Subscriptions[i].key IN
  IF i \in left[k] /\ Given(i, item[k]) THEN <<item[k]>> ELSE <<>>

\* The sequence lists what the feed had at these places, in their order.
Lists(seq, all, places) ==
  \E place \in Surjection(DOMAIN seq, places) :
    /\ \A m, n \in DOMAIN seq : m < n => place[m] < place[n]
    /\ \A n \in DOMAIN seq : seq[n] = all[place[n]]

(* Every subscription gets the candles of its feed that it asked for, and  *)
(* an empty one for each error, in order and once, from the preloaded ones *)
(* on.                                                                     *)
GetsItsCandles ==
  \A i \in 1..nsub :
    Lists(got[i] \o Pending(i), taken[Subscriptions[i].key], Due(i))

(* A subscription made with onCandleClose hears of complete candles only   *)
(* (data_feed.go:30).                                                      *)
CompleteOnly ==
  \A i \in 1..nsub : Subscriptions[i].onCandleClose =>
    \A n \in DOMAIN got[i] : got[i][n].complete

(* Like subscriptions of a feed are in step: none is more than a candle behind, *)
(* and an earlier subscription is served first.                            *)
ServedInTurn ==
  \A i, j \in 1..nsub :
    /\ i < j
    /\ Subscriptions[i] = Subscriptions[j] /\ since[i] = since[j]
    => IsPrefix(got[j], got[i]) /\ Len(got[i]) <= Len(got[j]) + 1

(* Stop ends every goroutine, whatever it was doing.                       *)
StopEndsFeeds ==
  stopped ~> [](started => \A k \in connected : at[k] # "select" /\ at[k] # "deliver")
=============================================================================
