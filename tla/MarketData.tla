----------------------------- MODULE MarketData -----------------------------
(***************************************************************************)
(* The bot's market data, from the websocket to the subscribers: Raccoon   *)
(* (bot/raccoon.go) sets up the data feed (DataFeed), starts the exchange  *)
(* (UpbitStream) and stops both.  The channels between them hold nothing:  *)
(* a candle is sent when the feed's goroutine is ready to receive it.      *)
(***************************************************************************)
EXTENDS Integers, Sequences, SequencesExt

CONSTANTS
  Key, Pair, PairOf, MaxWSRetries, MaxRead, MaxFailures,  \* of UpbitStream
  Subscriptions, History                                  \* of DataFeed

ASSUME MarketAssumption ==
  /\ PairOf \in [Key -> Pair]
  /\ {MaxWSRetries, MaxRead, MaxFailures, History} \subseteq Nat
  /\ "start" \notin Key /\ "nil" \notin Key
  /\ Subscriptions \in Seq([key : Key, onCandleClose : BOOLEAN])

VARIABLES
  main,  \* where the goroutine of main is
  cancelled, wsRunning, wsConn, registered, pc, conn, codes, retries, todo,
  outbox, errs, stop, closed, crashed, nread, failures, sent,
  nsub, since, preloaded, connected, started, stopped, at, item, left,
  got, taken

MaxTaken == History + 2 * MaxRead

Stream == INSTANCE UpbitStream
Feed   == INSTANCE DataFeed

streamVars ==
  <<cancelled, wsRunning, wsConn, registered, pc, conn, codes, retries, todo,
    outbox, errs, stop, closed, crashed, nread, failures, sent>>
feedVars ==
  <<nsub, since, preloaded, connected, started, stopped, at, item, left, got,
    taken>>
vars == <<main, streamVars, feedVars>>

-----------------------------------------------------------------------------
Init ==
  /\ main = "setup"
  /\ Stream!Init
  /\ Feed!Init

\* The two subscriptions, and past candles when the exchange has them.
SetupSubscriptions ==
  /\ main = "setup"
  /\ \/ Feed!Subscribe
     \/ /\ nsub = Len(Subscriptions)
        /\ \E k \in Key : Feed!Preload(k)
  /\ UNCHANGED <<main, streamVars>>

\* Raccoon.Start: the exchange first, then the data feed, which connects
\* one feed after the other.
ExchangeStart ==
  /\ main = "setup"
  /\ nsub = Len(Subscriptions)
  /\ main' = "connect"
  /\ Stream!Start
  /\ UNCHANGED feedVars

Connecting == \E k \in Key : pc[k] = "preload"

Connect(k) ==
  /\ main = "connect"
  /\ ~Connecting
  /\ Feed!Connect(k)
  /\ Stream!CandlesSubscription(k)
  /\ UNCHANGED main

Connected(k) ==
  /\ Stream!CandlesSubscriptionReturn(k)
  /\ UNCHANGED <<main, feedVars>>

DataFeedStart ==
  /\ main = "connect"
  /\ ~Connecting
  /\ ~crashed
  /\ Feed!Start
  /\ main' = "run"
  /\ UNCHANGED streamVars

\* Raccoon.Stop: the data feed first, then the exchange.
DataFeedStop ==
  /\ main = "run"
  /\ ~crashed
  /\ Feed!Stop
  /\ main' = "stop"
  /\ UNCHANGED streamVars

ExchangeStop ==
  /\ main = "stop"
  /\ Stream!Stop
  /\ UNCHANGED <<main, feedVars>>

\* Both ends of a channel.
Candle(r) ==
  /\ outbox[r] # <<>>
  /\ Stream!Send(r)
  /\ Feed!Receive(Head(outbox[r]).key, Head(outbox[r]).candle)
  /\ UNCHANGED main

\* An error nobody waits for is dropped.
Error(k) ==
  /\ Stream!SendErr(k)
  /\ IF at[k] = "select" /\ ~closed THEN Feed!ReceiveErr(k) ELSE UNCHANGED feedVars
  /\ UNCHANGED main

Runner(r) ==
  /\ Stream!RunnerStep(r)
  /\ UNCHANGED <<main, feedVars>>

Feeder(k) ==
  /\ ~crashed
  /\ Feed!Step(k) \/ (closed /\ Feed!End(k))
  /\ UNCHANGED <<main, streamVars>>

Next ==
  \/ SetupSubscriptions \/ ExchangeStart \/ DataFeedStart
  \/ DataFeedStop \/ ExchangeStop
  \/ \E k \in Key : Connect(k) \/ Connected(k) \/ Error(k) \/ Feeder(k)
  \/ \E r \in Stream!Runner : Runner(r) \/ Candle(r)

\* Every goroutine runs on; the bot is stopped or not.  A dial ends at its
\* handshake's deadline and a read at its own.  WriteJSON has none: that the one
\* small message after a dial is taken or refused rests on the network stack.
Fairness ==
  /\ WF_vars(SetupSubscriptions \/ ExchangeStart \/ DataFeedStart \/ ExchangeStop)
  /\ \A k \in Key :
       /\ WF_vars(Connect(k)) /\ WF_vars(Connected(k)) /\ WF_vars(Error(k))
       /\ WF_vars(Feeder(k))
  /\ \A r \in Stream!Runner : WF_vars(Runner(r)) /\ WF_vars(Candle(r))

Spec == Init /\ [][Next]_vars /\ Fairness
-----------------------------------------------------------------------------
\* A bar of the websocket, neither preloaded nor an error's.
Live(c) == c.msg > 0

\* Two sequences hold the same, in the same order, at these places of each.
SameAt(s, here, t, there) ==
  \E place \in Surjection(here, there) :
    /\ \A m, n \in here : m < n => place[m] < place[n]
    /\ \A n \in here : s[n] = t[place[n]]

Streamed(seq) == {n \in DOMAIN seq : Live(seq[n])}
WantedOf(i, seq) == {n \in DOMAIN seq : Feed!Wanted(i, seq[n])}

(* From the websocket to a subscription no bar is lost, repeated or        *)
(* overtaken: what it got of the stream and is about to get is what was    *)
(* sent for its feed, the complete bars alone if it asked for those.       *)
StreamReachesSubscription ==
  \A i \in 1..nsub :
    LET held == got[i] \o Feed!Pending(i)
        all  == sent[Subscriptions[i].key]
    IN  SameAt(held, Streamed(held), all, WantedOf(i, all))

(* A bar the websocket holds is taken by the feed, unless the feed was     *)
(* stopped: the websocket is never held up for good while the bot runs.    *)
BarsFlow ==
  \A r \in Stream!Runner :
    outbox[r] # <<>> ~> (outbox[r] = <<>> \/ stopped \/ crashed)

\* A bar is held for a goroutine of the feed that has returned.
HeldForNobody ==
  \E r \in Stream!Runner : outbox[r] # <<>> /\ at[Head(outbox[r]).key] = "end"

(* Raccoon.Stop returns though a read, a sleep or a dial is under way,     *)
(* unless it waits for a goroutine that holds a bar for nobody.            *)
ReturnsUnlessHeld ==
  main = "stop" ~> (stop = "done" \/ crashed \/ HeldForNobody)

(* After a stop no goroutine of the websocket lives on, reconnecting for   *)
(* ever or waiting for a message, but one that holds a bar for nobody.     *)
StreamEnds ==
  cancelled ~> [](crashed \/ Stream!Active = {} \/ HeldForNobody)
-----------------------------------------------------------------------------
(* A stop is graceful (main.go:39): Raccoon.Stop returns.                  *)
StopReturns == main = "stop" ~> (stop = "done" \/ crashed)
=============================================================================
