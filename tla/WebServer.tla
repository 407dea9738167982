----------------------------- MODULE WebServer -----------------------------
(***************************************************************************)
(* The web server (webserver/webserver.go): stores bars, indicators and    *)
(* orders and sends them to the pages, first what is stored and then what  *)
(* comes, as server-sent events.  OnCandle and OnIndicators are called by  *)
(* the goroutine of the data feed, OnOrder by that of the order feed; each *)
(* connection has a handler and a goroutine that cleans up after it.  The  *)
(* page draws what it receives.  An event is abstracted to its kind, its   *)
(* place on the time axis and a number of its own; of a page the model has *)
(* what is drawn, not how often: the page's script pushes an order again   *)
(* whenever it comes, in the snapshot and from the channel, or after a     *)
(* lost connection, and then shows the same point twice.                   *)
(***************************************************************************)
EXTENDS Integers, Sequences, FiniteSets, SequencesExt

CONSTANTS
  Writer,      \* the goroutines that call On...
  Connection,  \* requests for /sse; one that has ended may be made again
  Capacity     \* of the channel of a connection

ASSUME WebServerAssumption == Capacity \in Nat \ {0}

VARIABLES
  candlesticks, indicators, orders,  \* under mu
  call,        \* the event of a writer's call
  stage,       \* where a writer is
  readers,     \* the handlers that hold mu for reading
  sseClients,  \* under sseMu
  channel,     \* of a connection
  closed,      \* channels that are closed
  panicked,    \* an event was sent to a closed channel
  at,          \* where the handler of a connection is
  gone,        \* connections whose context is done
  page,        \* what the page of a connection shows
  missed       \* history: connections an event was dropped for

serverVars == <<candlesticks, indicators, orders, call, stage, readers,
                sseClients, channel, closed, panicked, at, gone, page, missed>>
storeVars   == <<candlesticks, indicators, orders>>
handlerVars == <<readers, at, page>>
clientVars  == <<sseClients, channel, closed, panicked, missed>>

-----------------------------------------------------------------------------
Event == [type : {"candle", "indicators", "order"}, x : Nat, n : Nat]
NoEvent == [type |-> "none", x |-> 0, n |-> 0]

Blank == {}

\* The page's script draws a bar or the indicators of a time in the place of
\* what it shows there; an order is added to those that are shown.
Same(p, e) == p = e \/ (p.type = e.type /\ p.x = e.x /\ p.type # "order")

Draw(shown, new) == {p \in shown : \A e \in new : ~Same(p, e)} \cup new

\* Of events one after the other those that stay.
Lasts(events) ==
  {events[i] : i \in {i \in DOMAIN events :
     \A j \in DOMAIN events : Same(events[i], events[j]) => j <= i}}

DrawAll(shown, events) == Draw(shown, Lasts(events))

Stored == candlesticks \o indicators \o orders

ServerInit ==
  /\ candlesticks = <<>> /\ indicators = <<>> /\ orders = <<>>
  /\ call = [w \in Writer |-> NoEvent]
  /\ stage = [w \in Writer |-> "idle"]
  /\ readers = {} /\ sseClients = {}
  /\ channel = [c \in Connection |-> <<>>]
  /\ closed = {} /\ panicked = FALSE
  /\ at = [c \in Connection |-> "none"]
  /\ gone = {}
  /\ page = [c \in Connection |-> Blank]
  /\ missed = {}

-----------------------------------------------------------------------------
\* The callers. OnCandle, OnIndicators and OnOrder store the event...
On(w, e) ==
  /\ stage[w] = "idle"
  /\ stage' = [stage EXCEPT ![w] = "lock"]
  /\ call' = [call EXCEPT ![w] = e]
  /\ UNCHANGED <<storeVars, handlerVars, clientVars, gone>>

\* Mutant: the first candle of a time stays.
StoreCandleFirst(e) ==
  /\ e.type = "candle"
  /\ candlesticks' = IF candlesticks # <<>> /\ Last(candlesticks).x = e.x
                     THEN candlesticks ELSE Append(candlesticks, e)
  /\ UNCHANGED <<indicators, orders>>

StoreCandle(e) ==
  /\ e.type = "candle"
  /\ candlesticks' = IF candlesticks # <<>> /\ Last(candlesticks).x = e.x
                     THEN Append(Front(candlesticks), e)
                     ELSE Append(candlesticks, e)
  /\ UNCHANGED <<indicators, orders>>

StoreIndicators(e) ==
  /\ e.type = "indicators"
  /\ indicators' = Append(indicators, e)
  /\ UNCHANGED <<candlesticks, orders>>

StoreOrder(e) ==
  /\ e.type = "order"
  /\ orders' = Append(orders, e)
  /\ UNCHANGED <<candlesticks, indicators>>

\* mu is free of readers; writers hold it for this step only.
Store(w) ==
  /\ stage[w] = "lock"
  /\ readers = {}
  /\ StoreCandle(call[w]) \/ StoreIndicators(call[w]) \/ StoreOrder(call[w])
  /\ stage' = [stage EXCEPT ![w] = "broadcast"]
  /\ UNCHANGED <<call, handlerVars, clientVars, gone>>

Full(c) == Len(channel[c]) >= Capacity

\* Mutant: the channels have no limit.
broadcastUnbounded(w) ==
  /\ stage[w] = "broadcast"
  /\ channel' = [c \in Connection |->
                   IF c \in sseClients THEN Append(channel[c], call[w])
                                       ELSE channel[c]]
  /\ stage' = [stage EXCEPT ![w] = "idle"]
  /\ call' = [call EXCEPT ![w] = NoEvent]
  /\ UNCHANGED <<storeVars, handlerVars, sseClients, closed, panicked, missed,
                 gone>>

\* ... and broadcast it: a full channel misses the event.
broadcastSSE(w) ==
  /\ stage[w] = "broadcast"
  /\ panicked' = (panicked \/ \E c \in sseClients : c \in closed)
  /\ channel' = [c \in Connection |->
                   IF c \in sseClients \ closed /\ ~Full(c)
                   THEN Append(channel[c], call[w]) ELSE channel[c]]
  /\ missed' = missed \cup {c \in sseClients : Full(c)}
  /\ stage' = [stage EXCEPT ![w] = "idle"]
  /\ call' = [call EXCEPT ![w] = NoEvent]
  /\ UNCHANGED <<storeVars, handlerVars, sseClients, closed, gone>>

-----------------------------------------------------------------------------
\* The handler of a connection registers its channel. A page whose
\* connection is lost asks for another by itself and keeps what it shows; a
\* page that is loaded again is blank.
Register(c) ==
  /\ at[c] = "none" \/ (at[c] = "end" /\ c \in closed)
  /\ at' = [at EXCEPT ![c] = "registered"]
  /\ sseClients' = sseClients \cup {c}
  /\ channel' = [channel EXCEPT ![c] = <<>>]
  /\ gone' = gone \ {c} /\ closed' = closed \ {c} /\ missed' = missed \ {c}
  /\ page' \in {page, [page EXCEPT ![c] = Blank]}
  /\ UNCHANGED <<storeVars, call, stage, readers, panicked>>

\* ... takes the lock, unless a writer waits for it...
RLock(c) ==
  /\ at[c] = "registered"
  /\ \A w \in Writer : stage[w] # "lock"
  /\ at' = [at EXCEPT ![c] = "snapshot"]
  /\ readers' = readers \cup {c}
  /\ UNCHANGED <<storeVars, call, stage, clientVars, gone, page>>

\* Mutant: the handler of a lost connection returns with the lock held.
SendStoredReturn(c) ==
  /\ at[c] = "snapshot"
  /\ at' = [at EXCEPT ![c] = IF c \in gone THEN "end" ELSE "stream"]
  /\ readers' = IF c \in gone THEN readers ELSE readers \ {c}
  /\ page' = IF c \in gone THEN page
             ELSE [page EXCEPT ![c] = DrawAll(@, Stored)]
  /\ UNCHANGED <<storeVars, call, stage, clientVars, gone>>

\* ... sends all that is stored while it holds it, which lasts as long as
\* the client reads...
SendStored(c) ==
  /\ at[c] = "snapshot"
  /\ at' = [at EXCEPT ![c] = "stream"]
  /\ readers' = readers \ {c}
  /\ page' = IF c \in gone THEN page
             ELSE [page EXCEPT ![c] = DrawAll(@, Stored)]
  /\ UNCHANGED <<storeVars, call, stage, clientVars, gone>>

\* ... and then what comes.
Forward(c) ==
  /\ at[c] = "stream"
  /\ channel[c] # <<>>
  /\ channel' = [channel EXCEPT ![c] = Tail(@)]
  /\ page' = IF c \in gone THEN page
             ELSE [page EXCEPT ![c] = Draw(@, {Head(channel[c])})]
  /\ UNCHANGED <<storeVars, call, stage, readers, sseClients, closed,
                 panicked, at, gone, missed>>

\* Mutant: the handler waits for its channel to be closed and empty.
LeaveClosed(c) ==
  /\ at[c] = "stream"
  /\ c \in closed /\ channel[c] = <<>>
  /\ at' = [at EXCEPT ![c] = "end"]
  /\ UNCHANGED <<storeVars, call, stage, readers, clientVars, gone, page>>

\* Its context is done, or its channel closed and empty.
Leave(c) ==
  /\ at[c] = "stream"
  /\ c \in gone \/ (c \in closed /\ channel[c] = <<>>)
  /\ at' = [at EXCEPT ![c] = "end"]
  /\ UNCHANGED <<storeVars, call, stage, readers, clientVars, gone, page>>

\* The client closes the connection, or it is lost.
Disconnect(c) ==
  /\ at[c] \in {"registered", "snapshot", "stream"}
  /\ c \notin gone
  /\ gone' = gone \cup {c}
  /\ UNCHANGED <<storeVars, call, stage, clientVars, handlerVars>>

\* Mutant: the channel is closed and stays registered.
CleanupClose(c) ==
  /\ c \in gone /\ c \notin closed
  /\ closed' = closed \cup {c}
  /\ UNCHANGED <<storeVars, call, stage, sseClients, channel, panicked,
                 handlerVars, gone, missed>>

\* The goroutine that waits for this.
Cleanup(c) ==
  /\ c \in gone /\ c \notin closed
  /\ sseClients' = sseClients \ {c}
  /\ closed' = closed \cup {c}
  /\ UNCHANGED <<storeVars, call, stage, channel, panicked, handlerVars, gone,
                 missed>>

=============================================================================
