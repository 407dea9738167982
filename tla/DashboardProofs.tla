-------------------------- MODULE DashboardProofs --------------------------
(***************************************************************************)
(* Proofs about the controller and the web server behind the feeds, for    *)
(* every number of bars, orders and connections, every capacity of their   *)
(* channels and every warm-up period.                                      *)
(***************************************************************************)
EXTENDS Dashboard, SequenceTheorems, WellFoundedInduction, TLAPS

(* The controller: its rows are the last revisions of the bars it was      *)
(* given, the first row is the first bar, the last row the latest. It is   *)
(* said of any dataframe df and any candles g, so that a step is a lemma   *)
(* about both.                                                             *)
OnTimeIn(g, i) == \A j \in 1..i : g[j].time <= g[i].time

KeptIn(g, i) ==
  /\ OnTimeIn(g, i)
  /\ \A j \in (i + 1)..Len(g) : g[j].time = g[i].time => ~OnTimeIn(g, j)

Revisions(g) == {g[i] : i \in {i \in DOMAIN g : KeptIn(g, i)}}

Increasing(df) == \A i, j \in DOMAIN df : i < j => df[i].time < df[j].time

Rows(df, g) ==
  /\ df = <<>> <=> g = <<>>
  /\ g # <<>> => df[1].time = g[1].time
  /\ \A i \in DOMAIN g : g[i].time <= df[Len(df)].time
  /\ Increasing(df)
  /\ {df[i] : i \in DOMAIN df} = Revisions(g)

RowInv == Rows(Dataframe, given)

(* It decides after it is started, which main does when the past bars are  *)
(* through: then every bar handed out is later than those given.           *)
BarInv ==
  /\ started => taken >= past /\ (taken = past => todo # "controller")
  /\ seen => started
  /\ decided # <<>> => seen
  /\ todo = "controller" => item.time <= bar /\ (item.time = bar => taken <= past)
  /\ decided # <<>> =>
       \A i \in DOMAIN given :
         /\ given[i].time < bar
         /\ todo = "controller" => item.time = Never \/ given[i].time < item.time

(* The web server: events of a kind are numbered in the order they are     *)
(* stored, and the one a writer brings comes after those stored.           *)
Ascending(events, kind) ==
  /\ \A i \in DOMAIN events : events[i].type = kind
  /\ \A i, j \in DOMAIN events : i < j => events[i].n < events[j].n

UpTo(events, n) == \A i \in DOMAIN events : events[i].n <= n

Below(events, n) == \A i \in DOMAIN events : events[i].n < n

FeedStores(kind) == stage["feed"] = "lock" /\ call["feed"].type = kind

StoreInv ==
  /\ Ascending(candlesticks, "candle")
  /\ Ascending(indicators, "indicators")
  /\ Ascending(orders, "order")
  /\ UpTo(candlesticks, taken) /\ UpTo(indicators, taken) /\ UpTo(orders, told)
  /\ todo # "none" \/ FeedStores("candle") => Below(candlesticks, taken)
  /\ todo = "controller" \/ FeedStores("indicators") => Below(indicators, taken)
  /\ stage["orders"] = "lock" => Below(orders, told)

AllStored == ToSet(candlesticks) \cup ToSet(indicators) \cup ToSet(orders)

CallInv ==
  /\ item.n = taken
  /\ stage["feed"] # "idle" =>
       /\ call["feed"].n = taken
       /\ \/ call["feed"].type = "candle" /\ todo = "none"
          \/ call["feed"].type = "indicators" /\ todo = "web"
  /\ stage["orders"] # "idle" =>
       call["orders"].type = "order" /\ call["orders"].n = told
  /\ \A w \in Writer : stage[w] = "broadcast" => call[w] \in AllStored

\* What a page shows or is about to has its place among what is stored.
Placed(e, stored) == \E f \in stored : Same(e, f)

PlaceInv ==
  \A c \in Connection :
    /\ \A e \in page[c] : Placed(e, AllStored)
    /\ \A i \in DOMAIN channel[c] : Placed(channel[c][i], AllStored)

\* Nothing is missed: a page whose handler has not sent what is stored yet is
\* as good as the newest of it.
Base(c) == IF at[c] = "stream" THEN page[c] ELSE Newest(AllStored)

CaughtUp(c) == Draw(Draw(Base(c), Lasts(channel[c])), Unsent) = Newest(AllStored)

NoneMissed == \A c \in sseClients \ (missed \cup gone) : CaughtUp(c)

\* The clean-up takes a channel from the clients before it closes it.
ClosedInv == sseClients \cap closed = {} /\ ~panicked

FeedType ==
  /\ past \in Nat /\ bar \in Nat \ {0} /\ taken \in Nat
  /\ issued \in Nat /\ told \in 0..issued
  /\ item \in [time : Nat, n : Nat, complete : BOOLEAN]
  /\ todo \in {"none", "controller", "web"}

ControllerType ==
  /\ Dataframe \in Seq(Row) /\ given \in Seq(Row)
  /\ decided \in Seq(Seq(Row))
  /\ {started, seen} \subseteq BOOLEAN

ServerType ==
  /\ panicked \in BOOLEAN
  /\ {candlesticks, indicators, orders} \subseteq Seq(Events)
  /\ call \in [Writer -> Events]
  /\ stage \in [Writer -> {"idle", "lock", "broadcast"}]
  /\ readers \subseteq Connection /\ sseClients \subseteq Connection
  /\ closed \subseteq gone /\ gone \subseteq Connection /\ missed \subseteq Connection
  /\ channel \in [Connection -> Seq(Events)]
  /\ \A c \in Connection : Len(channel[c]) <= Capacity
  /\ at \in [Connection -> {"none", "registered", "snapshot", "stream", "end"}]
  /\ page \in [Connection -> SUBSET Events]
  /\ readers = {c \in Connection : at[c] = "snapshot"}

-----------------------------------------------------------------------------
(* The steps: those of the feed, the controller and the callers, and those *)
(* of the web server alone.                                                *)
ServerStep ==
  \/ \E w \in Writer : Store(w) \/ broadcastSSE(w)
  \/ \E c \in Connection :
       Register(c) \/ RLock(c) \/ SendStored(c) \/ Forward(c) \/ Leave(c)
         \/ Disconnect(c) \/ Cleanup(c)

FeedHandsOut == Preload \/ Partial \/ Complete \/ Error

LEMMA Steps ==
  ASSUME [Next]_vars
  PROVE  \/ FeedHandsOut \/ CallController \/ CallWebServer \/ OnOrder \/ Start
         \/ ServerStep /\ UNCHANGED <<controllerVars, feedVars, orderVars>>
         \/ UNCHANGED vars
<1>1. ASSUME NEW w \in Writer, Writes(w)
      PROVE  ServerStep /\ UNCHANGED <<controllerVars, feedVars, orderVars>>
  BY <1>1 DEF Writes, ServerStep
<1>2. ASSUME NEW c \in Connection,
             Request(c) \/ Handler(c) \/ ClientReads(c) \/ GoesAway(c)
      PROVE  ServerStep /\ UNCHANGED <<controllerVars, feedVars, orderVars>>
  BY <1>2 DEF Request, Handler, ClientReads, GoesAway, ServerStep
<1> QED
  BY <1>1, <1>2 DEF Next, FeedStep, FeedHandsOut

-----------------------------------------------------------------------------
LEMMA WriterConst == Writer = {"feed", "orders"}
BY DashboardAssumption DEF DashboardAssumption

LEMMA CapacityNat == Capacity \in Nat \ {0}
BY WebServerAssumption DEF WebServerAssumption

LEMMA DrawType ==
  ASSUME NEW S \in SUBSET Events, NEW T \in SUBSET Events
  PROVE  Draw(S, T) \in SUBSET Events
BY DEF Draw

LEMMA DrawAllType ==
  ASSUME NEW S \in SUBSET Events, NEW s \in Seq(Events)
  PROVE  DrawAll(S, s) \in SUBSET Events
<1>1. Lasts(s) \in SUBSET Events
  BY DEF Lasts
<1> QED
  BY <1>1, DrawType DEF DrawAll

LEMMA StoredType ==
  ASSUME ServerType
  PROVE  Stored \in Seq(Events)
<1>1. candlesticks \in Seq(Events) /\ indicators \in Seq(Events) /\ orders \in Seq(Events)
  BY DEF ServerType
<1>2. candlesticks \o indicators \in Seq(Events)
  BY <1>1
<1> QED
  BY <1>1, <1>2 DEF Stored

LEMMA FrontLast ==
  ASSUME NEW S, NEW s \in Seq(S), s # <<>>
  PROVE  /\ Front(s) \in Seq(S) /\ Last(s) \in S /\ Len(s) \in Nat \ {0}
         /\ Len(Front(s)) = Len(s) - 1
         /\ \A i \in 1..(Len(s) - 1) : Front(s)[i] = s[i]
         /\ Last(s) = s[Len(s)]
<1>1. Len(s) \in Nat /\ Len(s) # 0
  BY EmptySeq
<1> QED
  BY <1>1, SMTT(30) DEF Front, Last

LEMMA EventOfOn ==
  ASSUME ServerType, NEW w \in Writer, NEW e \in Events, On(w, e)
  PROVE  ServerType'
<1>1. call' \in [Writer -> Events]
      /\ stage' \in [Writer -> {"idle", "lock", "broadcast"}]
  BY DEF On, ServerType
<1>2. UNCHANGED <<storeVars, handlerVars, clientVars, gone>>
  BY DEF On
<1> QED
  BY <1>1, <1>2 DEF ServerType, storeVars, handlerVars, clientVars

LEMMA TypeOfStore ==
  ASSUME ServerType, NEW w \in Writer, Store(w)
  PROVE  ServerType'
<1>1. call[w] \in Events /\ call[w] = call[w]
  BY DEF ServerType
<1>2. {candlesticks', indicators', orders'} \subseteq Seq(Events)
  <2>1. CASE StoreCandle(call[w])
    <3>1. ASSUME candlesticks # <<>> PROVE Front(candlesticks) \in Seq(Events)
      BY <3>1, FrontLast DEF ServerType
    <3>2. candlesticks' \in Seq(Events)
      BY <1>1, <2>1, <3>1 DEF StoreCandle, ServerType
    <3> QED
      BY <2>1, <3>2 DEF StoreCandle, ServerType
  <2>2. CASE StoreIndicators(call[w])
    BY <1>1, <2>2 DEF StoreIndicators, ServerType
  <2>3. CASE StoreOrder(call[w])
    BY <1>1, <2>3 DEF StoreOrder, ServerType
  <2> QED
    BY <2>1, <2>2, <2>3 DEF Store
<1>3. stage' \in [Writer -> {"idle", "lock", "broadcast"}]
  BY DEF Store, ServerType
<1>4. UNCHANGED <<call, handlerVars, clientVars, gone>>
  BY DEF Store
<1> QED
  BY <1>2, <1>3, <1>4 DEF ServerType, handlerVars, clientVars

LEMMA TypeOfBroadcast ==
  ASSUME ServerType, NEW w \in Writer, broadcastSSE(w)
  PROVE  ServerType'
<1>1. call[w] \in Events /\ NoEvent \in Events
  BY DEF ServerType, NoEvent, Events
<1>2. /\ call' \in [Writer -> Events]
      /\ stage' \in [Writer -> {"idle", "lock", "broadcast"}]
  BY <1>1 DEF broadcastSSE, ServerType
<1>3. ASSUME NEW c \in Connection
      PROVE  channel'[c] \in Seq(Events) /\ Len(channel'[c]) <= Capacity
  <2>1. channel[c] \in Seq(Events) /\ Len(channel[c]) <= Capacity
    BY DEF ServerType
  <2>2. Len(channel[c]) \in Nat
    BY <2>1
  <2>3. \/ channel'[c] = channel[c]
        \/ channel'[c] = Append(channel[c], call[w]) /\ ~(Len(channel[c]) >= Capacity)
    BY DEF broadcastSSE, Full
  <2>4. CASE channel'[c] = Append(channel[c], call[w]) /\ ~(Len(channel[c]) >= Capacity)
    <3>1. Append(channel[c], call[w]) \in Seq(Events)
          /\ Len(Append(channel[c], call[w])) = Len(channel[c]) + 1
      BY <1>1, <2>1
    <3> QED
      BY <2>1, <2>2, <2>4, <3>1, CapacityNat
  <2> QED
    BY <2>1, <2>3, <2>4
<1>4. channel' \in [Connection -> Seq(Events)]
  <2>1. channel' = [c \in Connection |-> channel'[c]]
    BY DEF broadcastSSE
  <2> QED
    BY <1>3, <2>1
<1>5. panicked' \in BOOLEAN /\ missed' \subseteq Connection
  BY DEF broadcastSSE, ServerType
<1>6. UNCHANGED <<storeVars, handlerVars, sseClients, closed, gone>>
  BY DEF broadcastSSE
<1> QED
  BY <1>2, <1>3, <1>4, <1>5, <1>6 DEF ServerType, storeVars, handlerVars

LEMMA TypeOfRegister ==
  ASSUME ServerType, NEW c \in Connection, Register(c)
  PROVE  ServerType'
<1>1. /\ at' \in [Connection -> {"none", "registered", "snapshot", "stream", "end"}]
      /\ readers' = {d \in Connection : at'[d] = "snapshot"}
  BY DEF Register, ServerType
<1>2. /\ channel' \in [Connection -> Seq(Events)]
      /\ \A d \in Connection : Len(channel'[d]) <= Capacity
  <2>1. channel' = [channel EXCEPT ![c] = <<>>] /\ <<>> \in Seq(Events) /\ Len(<<>>) = 0
    BY DEF Register
  <2> QED
    BY <2>1, CapacityNat DEF ServerType
<1>3. page' \in [Connection -> SUBSET Events]
  BY DEF Register, ServerType, Blank
<1> QED
  BY <1>1, <1>2, <1>3 DEF Register, ServerType, storeVars

LEMMA TypeOfHandler ==
  ASSUME ServerType, NEW c \in Connection,
         RLock(c) \/ SendStored(c) \/ Leave(c) \/ Disconnect(c) \/ Cleanup(c)
  PROVE  ServerType'
<1>1. CASE RLock(c)
  BY <1>1 DEF RLock, ServerType, storeVars, clientVars
<1>2. CASE SendStored(c)
  <2>1. DrawAll(page[c], Stored) \in SUBSET Events
    BY StoredType, DrawAllType DEF ServerType
  <2>2. page' \in [Connection -> SUBSET Events]
    BY <1>2, <2>1 DEF SendStored, ServerType
  <2> QED
    BY <1>2, <2>2 DEF SendStored, ServerType, storeVars, clientVars
<1>3. CASE Leave(c)
  BY <1>3 DEF Leave, ServerType, storeVars, clientVars
<1>4. CASE Disconnect(c)
  BY <1>4 DEF Disconnect, ServerType, storeVars, clientVars, handlerVars
<1>5. CASE Cleanup(c)
  BY <1>5 DEF Cleanup, ServerType, storeVars, handlerVars
<1> QED
  BY <1>1, <1>2, <1>3, <1>4, <1>5

LEMMA HeadTail ==
  ASSUME NEW S, NEW s \in Seq(S), s # <<>>
  PROVE  /\ Head(s) \in S /\ Tail(s) \in Seq(S)
         /\ Len(s) \in Nat \ {0} /\ Len(Tail(s)) = Len(s) - 1
         /\ Head(s) = s[1] /\ \A i \in 1..(Len(s) - 1) : Tail(s)[i] = s[i + 1]
<1>1. Len(s) \in Nat /\ Len(s) # 0
  BY EmptySeq
<1> QED
  BY <1>1

LEMMA TypeOfForward ==
  ASSUME ServerType, NEW c \in Connection, Forward(c)
  PROVE  ServerType'
<1>1. channel[c] \in Seq(Events) /\ channel[c] # <<>> /\ Len(channel[c]) <= Capacity
  BY DEF Forward, ServerType
<1>2. /\ Head(channel[c]) \in Events /\ Tail(channel[c]) \in Seq(Events)
      /\ Len(channel[c]) \in Nat /\ Len(Tail(channel[c])) = Len(channel[c]) - 1
  BY <1>1, HeadTail
<1>3. Len(Tail(channel[c])) <= Capacity
  BY <1>1, <1>2, CapacityNat
<1>4. /\ channel' \in [Connection -> Seq(Events)]
      /\ \A d \in Connection : Len(channel'[d]) <= Capacity
  BY <1>2, <1>3 DEF Forward, ServerType
<1>5. Draw(page[c], {Head(channel[c])}) \in SUBSET Events
  BY <1>2, DrawType DEF ServerType
<1>6. page' \in [Connection -> SUBSET Events]
  BY <1>5 DEF Forward, ServerType
<1> QED
  BY <1>4, <1>6 DEF Forward, ServerType, storeVars

LEMMA TypeOfServerStep ==
  ASSUME ServerType, ServerStep
  PROVE  ServerType'
BY TypeOfStore, TypeOfBroadcast, TypeOfRegister, TypeOfHandler, TypeOfForward
   DEF ServerStep

-----------------------------------------------------------------------------
(* The dataframe.                                                          *)
LEMMA Appended ==
  ASSUME NEW S, NEW s \in Seq(S), NEW e \in S
  PROVE  /\ Append(s, e) \in Seq(S) /\ Append(s, e) # <<>>
         /\ Len(s) \in Nat /\ Len(Append(s, e)) = Len(s) + 1
         /\ DOMAIN s = 1..Len(s) /\ DOMAIN Append(s, e) = 1..(Len(s) + 1)
         /\ \A i \in 1..Len(s) : Append(s, e)[i] = s[i]
         /\ Append(s, e)[Len(s) + 1] = e
OBVIOUS

LEMMA Nonempty ==
  ASSUME NEW S, NEW s \in Seq(S), s # <<>>
  PROVE  /\ Len(s) \in Nat \ {0} /\ DOMAIN s = 1..Len(s)
         /\ 1 \in DOMAIN s /\ Len(s) \in DOMAIN s /\ s[1] \in S /\ s[Len(s)] \in S
<1>1. Len(s) \in Nat /\ Len(s) # 0
  BY EmptySeq
<1> QED
  BY <1>1

LEMMA OnTimeAppended ==
  ASSUME NEW g \in Seq(Row), NEW r \in Row, NEW i \in 1..Len(g)
  PROVE  OnTimeIn(Append(g, r), i) <=> OnTimeIn(g, i)
<1>1. \A j \in 1..i : Append(g, r)[j] = g[j]
  BY Appended
<1>2. Append(g, r)[i] = g[i]
  BY Appended
<1> QED
  BY <1>1, <1>2 DEF OnTimeIn

\* A candle that is late changes nothing.
LEMMA RevisionsLate ==
  ASSUME NEW g \in Seq(Row), NEW r \in Row, NEW k \in DOMAIN g, r.time < g[k].time
  PROVE  Revisions(Append(g, r)) = Revisions(g)
<1> DEFINE h == Append(g, r)
           n == Len(g)
<1>1. /\ n \in Nat /\ Len(h) = n + 1 /\ DOMAIN g = 1..n /\ DOMAIN h = 1..(n + 1)
      /\ \A i \in 1..n : h[i] = g[i]
      /\ h[n + 1] = r
  BY Appended
<1>2. \A i \in 1..n : OnTimeIn(h, i) <=> OnTimeIn(g, i)
  BY OnTimeAppended
<1> HIDE DEF h, n
<1>3. ~OnTimeIn(h, n + 1)
  <2>1. k \in 1..(n + 1) /\ h[k] = g[k] /\ h[n + 1] = r
    BY <1>1
  <2>2. ~(h[k].time <= h[n + 1].time)
    <3>1. g[k] \in Row
      OBVIOUS
    <3>2. g[k].time \in Nat /\ r.time \in Nat
      BY <3>1 DEF Row
    <3> QED
      BY <2>1, <3>2
  <2> QED
    BY <2>1, <2>2 DEF OnTimeIn
<1>4. \A i \in 1..n : KeptIn(h, i) <=> KeptIn(g, i)
  <2> SUFFICES ASSUME NEW i \in 1..n PROVE KeptIn(h, i) <=> KeptIn(g, i)
    OBVIOUS
  <2>1. Len(h) = n + 1 /\ Len(g) = n
    BY <1>1 DEF n
  <2>2. \A j \in (i + 1)..n : j \in 1..n /\ h[j] = g[j] /\ (OnTimeIn(h, j) <=> OnTimeIn(g, j))
    BY <1>1, <1>2
  <2>3. h[i] = g[i] /\ (OnTimeIn(h, i) <=> OnTimeIn(g, i))
    BY <1>1, <1>2
  <2>4. (i + 1)..(n + 1) = (i + 1)..n \cup {n + 1}
    BY <1>1
  <2> QED
    BY <1>3, <2>1, <2>2, <2>3, <2>4 DEF KeptIn
<1>5. ~KeptIn(h, n + 1)
  BY <1>3 DEF KeptIn
<1>6. \A i : i \in DOMAIN h /\ KeptIn(h, i) <=> i \in DOMAIN g /\ KeptIn(g, i)
  BY <1>1, <1>4, <1>5
<1>7. \A i \in DOMAIN g : h[i] = g[i]
  BY <1>1
<1> QED
  BY <1>6, <1>7 DEF Revisions, h

\* One that is on time takes the place of those of its bar.
LEMMA RevisionsOnTime ==
  ASSUME NEW g \in Seq(Row), NEW r \in Row,
         \A i \in DOMAIN g : g[i].time <= r.time
  PROVE  Revisions(Append(g, r)) = {p \in Revisions(g) : p.time # r.time} \cup {r}
<1> DEFINE h == Append(g, r)
           n == Len(g)
<1>1. /\ n \in Nat /\ Len(h) = n + 1 /\ DOMAIN g = 1..n /\ DOMAIN h = 1..(n + 1)
      /\ \A i \in 1..n : h[i] = g[i]
      /\ h[n + 1] = r /\ r.time \in Nat
  BY Appended DEF Row
<1>2. \A i \in 1..n : OnTimeIn(h, i) <=> OnTimeIn(g, i)
  BY OnTimeAppended
<1> HIDE DEF h, n
<1>3. OnTimeIn(h, n + 1)
  <2> SUFFICES ASSUME NEW j \in 1..(n + 1) PROVE h[j].time <= h[n + 1].time
    BY DEF OnTimeIn
  <2>1. CASE j = n + 1
    BY <1>1, <2>1
  <2>2. CASE j # n + 1
    BY <1>1, <2>2
  <2> QED
    BY <2>1, <2>2
<1>4. \A i \in 1..n : KeptIn(h, i) <=> KeptIn(g, i) /\ g[i].time # r.time
  <2> SUFFICES ASSUME NEW i \in 1..n
               PROVE  KeptIn(h, i) <=> KeptIn(g, i) /\ g[i].time # r.time
    OBVIOUS
  <2>1. Len(h) = n + 1 /\ Len(g) = n
    BY <1>1 DEF n
  <2>2. \A j \in (i + 1)..n : j \in 1..n /\ h[j] = g[j] /\ (OnTimeIn(h, j) <=> OnTimeIn(g, j))
    BY <1>1, <1>2
  <2>3. h[i] = g[i] /\ (OnTimeIn(h, i) <=> OnTimeIn(g, i)) /\ h[n + 1] = r
    BY <1>1, <1>2
  <2>4. (i + 1)..(n + 1) = (i + 1)..n \cup {n + 1}
    BY <1>1
  <2> QED
    BY <1>3, <2>1, <2>2, <2>3, <2>4 DEF KeptIn
<1>5. KeptIn(h, n + 1)
  <2>1. (n + 2)..(n + 1) = {}
    BY <1>1
  <2> QED
    BY <1>1, <1>3, <2>1 DEF KeptIn
<1>6. \A i : i \in DOMAIN h /\ KeptIn(h, i)
              <=> (i \in DOMAIN g /\ KeptIn(g, i) /\ g[i].time # r.time) \/ i = n + 1
  BY <1>1, <1>4, <1>5
<1>7. \A i \in DOMAIN g : h[i] = g[i]
  BY <1>1
<1>8. h[n + 1] = r
  BY <1>1
<1> QED
  BY <1>6, <1>7, <1>8 DEF Revisions, h

LEMMA RowsLate ==
  ASSUME NEW df \in Seq(Row), NEW g \in Seq(Row), NEW r \in Row, Rows(df, g),
         df # <<>>, r.time < df[Len(df)].time
  PROVE  Rows(df, Append(g, r))
<1> DEFINE h == Append(g, r)
<1>1. g # <<>>
  BY DEF Rows
<1>2. /\ Len(g) \in Nat \ {0} /\ DOMAIN g = 1..Len(g)
      /\ DOMAIN h = 1..(Len(g) + 1) /\ h # <<>>
      /\ \A i \in 1..Len(g) : h[i] = g[i]
      /\ h[Len(g) + 1] = r
  BY <1>1, Nonempty, Appended
<1>3. Len(df) \in DOMAIN df /\ df[Len(df)] \in Row
  BY Nonempty
<1>4. PICK k \in DOMAIN g : g[k] = df[Len(df)]
  BY <1>3 DEF Rows, Revisions
<1>5. Revisions(h) = Revisions(g)
  BY <1>4, RevisionsLate
<1>6. h[1] = g[1]
  BY <1>2
<1>7. ASSUME NEW i \in DOMAIN h PROVE h[i].time <= df[Len(df)].time
  <2>1. r.time \in Nat /\ df[Len(df)].time \in Nat
    BY <1>3 DEF Row
  <2>2. CASE i \in 1..Len(g)
    BY <1>2, <2>2 DEF Rows
  <2>3. CASE i = Len(g) + 1
    BY <1>2, <2>1, <2>3
  <2> QED
    BY <1>2, <2>2, <2>3
<1> HIDE DEF h
<1>8. Rows(df, h)
  BY <1>1, <1>2, <1>5, <1>6, <1>7 DEF Rows
<1> QED
  BY <1>8 DEF h

LEMMA RowsFirst ==
  ASSUME NEW r \in Row
  PROVE  Rows(<<r>>, <<r>>) /\ Append(<<>>, r) = <<r>>
<1>1. /\ Append(<<>>, r) = <<r>> /\ <<>> \in Seq(Row)
      /\ DOMAIN <<r>> = {1} /\ <<r>>[1] = r /\ <<r>> # <<>> /\ Len(<<r>>) = 1
  OBVIOUS
<1>2. Revisions(<<>>) = {}
  BY DEF Revisions
<1>3. Revisions(Append(<<>>, r)) = {p \in Revisions(<<>>) : p.time # r.time} \cup {r}
  <2>1. \A i \in DOMAIN <<>> : <<>>[i].time <= r.time
    OBVIOUS
  <2> QED
    BY <1>1, <2>1, RevisionsOnTime
<1>4. Revisions(<<r>>) = {r}
  BY <1>1, <1>2, <1>3
<1>5. {<<r>>[i] : i \in DOMAIN <<r>>} = {r}
  BY <1>1
<1>6. Increasing(<<r>>)
  BY <1>1 DEF Increasing
<1>7. r.time <= r.time
  BY DEF Row
<1> DEFINE s == <<r>>
<1>8. s # <<>> /\ DOMAIN s = {1} /\ s[1] = r /\ s[Len(s)] = r
      /\ Revisions(s) = {r} /\ {s[i] : i \in DOMAIN s} = {r} /\ Increasing(s)
  BY <1>1, <1>4, <1>5, <1>6
<1> HIDE DEF s
<1>9. Rows(s, s)
  BY <1>7, <1>8 DEF Rows
<1> QED
  BY <1>1, <1>9 DEF s

\* The times of a dataframe before its last row are before its last.
LEMMA TimesBefore ==
  ASSUME NEW df \in Seq(Row), df # <<>>, Increasing(df), NEW i \in DOMAIN df
  PROVE  /\ df[i].time <= df[Len(df)].time
         /\ df[i].time = df[Len(df)].time => i = Len(df)
<1>1. Len(df) \in Nat \ {0} /\ DOMAIN df = 1..Len(df) /\ Len(df) \in DOMAIN df
  BY Nonempty
<1>2. df[i] \in Row /\ df[Len(df)] \in Row
  BY <1>1
<1>3. df[i].time \in Nat /\ df[Len(df)].time \in Nat
  BY <1>2 DEF Row
<1>4. CASE i = Len(df)
  BY <1>3, <1>4
<1>5. CASE i < Len(df)
  <2>1. df[i].time < df[Len(df)].time
    BY <1>1, <1>5 DEF Increasing
  <2> QED
    BY <1>3, <2>1, <1>5, <1>1
<1> QED
  BY <1>1, <1>4, <1>5

LEMMA RowsReplaced ==
  ASSUME NEW df \in Seq(Row), NEW g \in Seq(Row), NEW r \in Row, Rows(df, g),
         df # <<>>, r.time = df[Len(df)].time
  PROVE  Rows([df EXCEPT ![Len(df)] = r], Append(g, r))
<1> DEFINE h == Append(g, r)
           n == Len(df)
           d == [df EXCEPT ![n] = r]
<1>1. g # <<>>
  BY DEF Rows
<1>2. /\ Len(g) \in Nat \ {0} /\ DOMAIN g = 1..Len(g)
      /\ DOMAIN h = 1..(Len(g) + 1) /\ h # <<>>
      /\ \A i \in 1..Len(g) : h[i] = g[i]
      /\ h[Len(g) + 1] = r
  BY <1>1, Nonempty, Appended
<1>3. n \in Nat \ {0} /\ DOMAIN df = 1..n /\ df[n] \in Row
  BY Nonempty
<1>4. /\ d \in Seq(Row) /\ Len(d) = n /\ DOMAIN d = 1..n /\ d[n] = r
      /\ \A i \in 1..(n - 1) : d[i] = df[i]
  BY <1>3
<1>5. d # <<>>
  BY <1>3, <1>4, EmptySeq
<1>6. r.time = df[n].time /\ r.time \in Nat
  BY DEF Row
<1>7. \A i \in DOMAIN g : g[i].time <= r.time
  BY <1>6 DEF Rows
<1>8. Revisions(h) = {p \in Revisions(g) : p.time # r.time} \cup {r}
  BY <1>7, RevisionsOnTime
<1>9. \A i \in 1..n : d[i].time = df[i].time
  BY <1>3, <1>4, <1>6
<1>10. Increasing(d)
  BY <1>3, <1>4, <1>9 DEF Rows, Increasing
<1>11. {d[i] : i \in DOMAIN d} = Revisions(h)
  <2>1. Revisions(g) = {df[i] : i \in 1..n}
    BY <1>3 DEF Rows
  <2>2. \A i \in 1..n : df[i].time = r.time <=> i = n
    <3>1. \A i \in 1..n : df[i].time = df[n].time => i = n
      BY <1>3, TimesBefore DEF Rows
    <3> QED
      BY <1>3, <1>6, <3>1
  <2>3. {p \in Revisions(g) : p.time # r.time} = {df[i] : i \in (1..n) \ {n}}
    BY <2>1, <2>2
  <2>4. 1..n = ((1..n) \ {n}) \cup {n} /\ \A i \in (1..n) \ {n} : d[i] = df[i]
    BY <1>3, <1>4
  <2>5. {d[i] : i \in 1..n} = {df[i] : i \in (1..n) \ {n}} \cup {r}
    BY <1>4, <2>4
  <2> QED
    BY <1>4, <1>8, <2>3, <2>5
<1>12. d[1].time = h[1].time
  <2>1. 1 \in 1..n /\ 1 \in 1..Len(g)
    BY <1>2, <1>3
  <2>2. df[1].time = g[1].time
    BY <1>1 DEF Rows
  <2>3. h[1] = g[1] /\ d[1].time = df[1].time
    BY <1>2, <1>9, <2>1
  <2> QED
    BY <2>2, <2>3
<1>13. \A i \in DOMAIN h : h[i].time <= d[Len(d)].time
  <2>1. d[Len(d)] = r
    BY <1>4
  <2>2. \A i \in 1..Len(g) : h[i].time <= r.time
    BY <1>2, <1>7
  <2>3. h[Len(g) + 1].time <= r.time
    BY <1>2, <1>6
  <2>4. DOMAIN h = 1..Len(g) \cup {Len(g) + 1}
    BY <1>2
  <2> HIDE DEF h, d, n
  <2> QED
    BY <2>1, <2>2, <2>3, <2>4
<1> HIDE DEF h, d, n
<1>14. Rows(d, h)
  BY <1>2, <1>5, <1>10, <1>11, <1>12, <1>13 DEF Rows
<1> QED
  BY <1>14 DEF d, h, n

LEMMA RowsAppended ==
  ASSUME NEW df \in Seq(Row), NEW g \in Seq(Row), NEW r \in Row, Rows(df, g),
         df # <<>>, df[Len(df)].time < r.time
  PROVE  Rows(Append(df, r), Append(g, r))
<1> DEFINE h == Append(g, r)
           n == Len(df)
           d == Append(df, r)
<1>1. g # <<>>
  BY DEF Rows
<1>2. /\ Len(g) \in Nat \ {0} /\ DOMAIN g = 1..Len(g)
      /\ DOMAIN h = 1..(Len(g) + 1) /\ h # <<>>
      /\ \A i \in 1..Len(g) : h[i] = g[i]
      /\ h[Len(g) + 1] = r
  BY <1>1, Nonempty, Appended
<1>3. n \in Nat \ {0} /\ DOMAIN df = 1..n /\ df[n] \in Row
  BY Nonempty
<1>4. /\ d \in Seq(Row) /\ Len(d) = n + 1 /\ DOMAIN d = 1..(n + 1) /\ d[n + 1] = r
      /\ \A i \in 1..n : d[i] = df[i]
      /\ d # <<>>
  BY Appended
<1>5. df[n].time < r.time /\ r.time \in Nat /\ df[n].time \in Nat
  BY <1>3 DEF Row
<1>6. \A i \in 1..n : df[i].time \in Nat /\ df[i].time < r.time
  <2> SUFFICES ASSUME NEW i \in 1..n PROVE df[i].time \in Nat /\ df[i].time < r.time
    OBVIOUS
  <2>1. df[i] \in Row /\ df[i].time <= df[n].time
    BY <1>3, TimesBefore DEF Rows
  <2>2. df[i].time \in Nat
    BY <2>1 DEF Row
  <2> QED
    BY <1>5, <2>1, <2>2
<1>7. \A i \in DOMAIN g : g[i].time \in Nat /\ g[i].time <= r.time
  <2> SUFFICES ASSUME NEW i \in DOMAIN g PROVE g[i].time \in Nat /\ g[i].time <= r.time
    OBVIOUS
  <2>1. g[i] \in Row
    OBVIOUS
  <2>2. g[i].time \in Nat /\ g[i].time <= df[n].time
    BY <2>1 DEF Rows, Row
  <2> QED
    BY <1>5, <2>2
<1>8. Revisions(h) = {p \in Revisions(g) : p.time # r.time} \cup {r}
  BY <1>7, RevisionsOnTime
<1>9. Increasing(d)
  <2> SUFFICES ASSUME NEW i \in 1..(n + 1), NEW j \in 1..(n + 1), i < j
               PROVE  d[i].time < d[j].time
    BY <1>4 DEF Increasing
  <2>1. i \in 1..n /\ d[i] = df[i]
    BY <1>3, <1>4
  <2>2. CASE j = n + 1
    BY <1>4, <1>6, <2>1, <2>2
  <2>3. CASE j # n + 1
    <3>1. j \in 1..n /\ d[j] = df[j]
      BY <1>3, <1>4, <2>3
    <3> QED
      BY <1>3, <2>1, <3>1 DEF Rows, Increasing
  <2> QED
    BY <2>2, <2>3
<1>10. {d[i] : i \in DOMAIN d} = Revisions(h)
  <2>1. Revisions(g) = {df[i] : i \in 1..n}
    BY <1>3 DEF Rows
  <2>2. \A i \in 1..n : df[i].time # r.time
    BY <1>5, <1>6
  <2>3. {p \in Revisions(g) : p.time # r.time} = {df[i] : i \in 1..n}
    BY <2>1, <2>2
  <2>4. 1..(n + 1) = 1..n \cup {n + 1}
    BY <1>3
  <2>5. {d[i] : i \in 1..(n + 1)} = {df[i] : i \in 1..n} \cup {r}
    BY <1>4, <2>4
  <2> QED
    BY <1>4, <1>8, <2>3, <2>5
<1>11. d[1].time = h[1].time
  BY <1>1, <1>2, <1>3, <1>4 DEF Rows
<1>12. \A i \in DOMAIN h : h[i].time <= d[Len(d)].time
  BY <1>2, <1>4, <1>5, <1>7
<1> HIDE DEF h, d, n
<1>13. Rows(d, h)
  BY <1>2, <1>4, <1>9, <1>10, <1>11, <1>12 DEF Rows
<1> QED
  BY <1>13 DEF d, h, n

-----------------------------------------------------------------------------
(* The samples the strategy is asked about.                                *)
LEMMA WarmupNat == WarmupPeriod \in Nat /\ WarmupPeriod >= 2
BY ControllerAssumption DEF ControllerAssumption

Samples(df, samples) ==
  /\ \A i \in DOMAIN samples :
       /\ Len(samples[i]) = WarmupPeriod
       /\ \E k \in WarmupPeriod..Len(df) :
            samples[i] = SubSeq(df, k - WarmupPeriod + 1, k)
  /\ \A i, j \in DOMAIN samples :
       i < j => Last(samples[i]).time < Last(samples[j]).time

LEMMA DecidesOnSamples == DecidesOnLatest <=> Samples(Dataframe, decided)
BY DEF DecidesOnLatest, Samples

LEMMA LastOfSample ==
  ASSUME NEW df \in Seq(Row), NEW k \in WarmupPeriod..Len(df)
  PROVE  /\ SubSeq(df, k - WarmupPeriod + 1, k) \in Seq(Row)
         /\ Len(SubSeq(df, k - WarmupPeriod + 1, k)) = WarmupPeriod
         /\ Last(SubSeq(df, k - WarmupPeriod + 1, k)) = df[k]
         /\ k \in DOMAIN df
<1> DEFINE m == k - WarmupPeriod + 1
           s == SubSeq(df, m, k)
<1>1. Len(df) \in Nat /\ DOMAIN df = 1..Len(df)
  OBVIOUS
<1>2. k \in 1..Len(df) /\ m \in 1..k
  BY <1>1, WarmupNat
<1>3. k - m + 1 = WarmupPeriod /\ WarmupPeriod + m - 1 = k
  BY <1>1, WarmupNat
<1> HIDE DEF m
<1>4. m \in 1..(Len(df) + 1) /\ k \in (m - 1)..Len(df)
  BY <1>1, <1>2
<1>5. /\ s \in Seq(Row) /\ Len(s) = k - m + 1
      /\ \A i \in 1..(k - m + 1) : s[i] = df[m + i - 1]
  BY <1>4, SubSeqProperties
<1>6. s[WarmupPeriod] = df[k]
  <2>1. WarmupPeriod \in 1..(k - m + 1) /\ m + WarmupPeriod - 1 = k
    BY <1>1, <1>2, <1>3, WarmupNat
  <2> QED
    BY <1>5, <2>1
<1>7. Last(s) = df[k]
  BY <1>3, <1>5, <1>6 DEF Last
<1> QED
  BY <1>1, <1>2, <1>3, <1>5, <1>7 DEF m

LEMMA SampleIs ==
  ASSUME NEW df \in Seq(Row), Len(df) >= WarmupPeriod
  PROVE  /\ Sample(df, WarmupPeriod) = SubSeq(df, Len(df) - WarmupPeriod + 1, Len(df))
         /\ Len(df) \in WarmupPeriod..Len(df)
<1>1. Len(df) \in Nat /\ Len(df) \in WarmupPeriod..Len(df)
  BY WarmupNat
<1>2. ASSUME Len(df) <= WarmupPeriod
      PROVE  df = SubSeq(df, Len(df) - WarmupPeriod + 1, Len(df))
  <2>1. Len(df) - WarmupPeriod + 1 = 1
    BY <1>1, <1>2, WarmupNat
  <2>2. SubSeq(df, 1, Len(df)) = df
    OBVIOUS
  <2> QED
    BY <2>1, <2>2
<1> QED
  BY <1>1, <1>2 DEF Sample

\* A sample stays one when a row is appended.
LEMMA SamplesStay ==
  ASSUME NEW df \in Seq(Row), NEW r \in Row, NEW ds \in Seq(Seq(Row)), Samples(df, ds)
  PROVE  Samples(Append(df, r), ds)
<1> DEFINE d == Append(df, r)
<1>1. /\ d \in Seq(Row) /\ Len(df) \in Nat /\ Len(d) = Len(df) + 1
      /\ \A i \in 1..Len(df) : d[i] = df[i]
  BY Appended
<1>2. ASSUME NEW k \in WarmupPeriod..Len(df)
      PROVE  /\ k \in WarmupPeriod..Len(d)
             /\ SubSeq(d, k - WarmupPeriod + 1, k) = SubSeq(df, k - WarmupPeriod + 1, k)
  <2> DEFINE m == k - WarmupPeriod + 1
             s == SubSeq(df, m, k)
             u == SubSeq(d, m, k)
  <2>1. k \in WarmupPeriod..Len(d)
    BY <1>1, WarmupNat
  <2>2. m \in 1..k /\ k \in 1..Len(df)
    BY <1>1, WarmupNat
  <2> HIDE DEF m
  <2>3. /\ m \in 1..(Len(df) + 1) /\ k \in (m - 1)..Len(df)
        /\ m \in 1..(Len(d) + 1) /\ k \in (m - 1)..Len(d)
    BY <1>1, <2>2
  <2>4. /\ s \in Seq(Row) /\ Len(s) = k - m + 1
        /\ \A i \in 1..(k - m + 1) : s[i] = df[m + i - 1]
    BY <2>3, SubSeqProperties
  <2>5. /\ u \in Seq(Row) /\ Len(u) = k - m + 1
        /\ \A i \in 1..(k - m + 1) : u[i] = d[m + i - 1]
    BY <1>1, <2>3, SubSeqProperties
  <2>6. \A i \in 1..(k - m + 1) : m + i - 1 \in 1..Len(df)
    BY <1>1, <2>2
  <2>7. \A i \in 1..(k - m + 1) : u[i] = s[i]
    BY <1>1, <2>4, <2>5, <2>6
  <2> HIDE DEF s, u, d
  <2>8. u = s
    BY <2>4, <2>5, <2>7
  <2> QED
    BY <2>1, <2>8 DEF s, u, d, m
<1> HIDE DEF d
<1>3. Samples(d, ds)
  BY <1>2 DEF Samples
<1> QED
  BY <1>3 DEF d

LEMMA SamplesBefore ==
  ASSUME NEW df \in Seq(Row), NEW ds \in Seq(Seq(Row)), Samples(df, ds), Increasing(df),
         NEW i \in DOMAIN ds
  PROVE  /\ Last(ds[i]).time \in Nat /\ Last(ds[i]).time <= df[Len(df)].time
         /\ Len(df) >= WarmupPeriod
<1>1. PICK k \in WarmupPeriod..Len(df) : ds[i] = SubSeq(df, k - WarmupPeriod + 1, k)
  BY DEF Samples
<1>2. Last(ds[i]) = df[k] /\ k \in DOMAIN df /\ df[k] \in Row
  BY <1>1, LastOfSample
<1>3. Len(df) \in Nat /\ Len(df) >= WarmupPeriod
  BY WarmupNat
<1>4. df # <<>>
  BY <1>3, WarmupNat, EmptySeq
<1> QED
  BY <1>2, <1>3, <1>4, TimesBefore DEF Row

LEMMA SamplesAdded ==
  ASSUME NEW df \in Seq(Row), NEW ds \in Seq(Seq(Row)), Samples(df, ds),
         Len(df) >= WarmupPeriod,
         \A i \in DOMAIN ds : Last(ds[i]).time < df[Len(df)].time
  PROVE  /\ Samples(df, Append(ds, Sample(df, WarmupPeriod)))
         /\ Sample(df, WarmupPeriod) \in Seq(Row)
         /\ Last(Sample(df, WarmupPeriod)) = df[Len(df)]
<1> DEFINE s == Sample(df, WarmupPeriod)
           e == Append(ds, s)
           n == Len(ds)
<1>1. s = SubSeq(df, Len(df) - WarmupPeriod + 1, Len(df)) /\ Len(df) \in WarmupPeriod..Len(df)
  BY SampleIs
<1>2. s \in Seq(Row) /\ Len(s) = WarmupPeriod /\ Last(s) = df[Len(df)]
  BY <1>1, LastOfSample
<1>3. /\ n \in Nat /\ DOMAIN ds = 1..n /\ DOMAIN e = 1..(n + 1)
      /\ \A i \in 1..n : e[i] = ds[i]
      /\ e[n + 1] = s
  BY <1>2, Appended
<1> HIDE DEF s, e, n
<1>4. ASSUME NEW i \in 1..(n + 1)
      PROVE  /\ Len(e[i]) = WarmupPeriod
             /\ \E k \in WarmupPeriod..Len(df) : e[i] = SubSeq(df, k - WarmupPeriod + 1, k)
  <2>1. CASE i = n + 1
    BY <1>1, <1>2, <1>3, <2>1
  <2>2. CASE i # n + 1
    <3>1. i \in DOMAIN ds /\ e[i] = ds[i]
      BY <1>3, <2>2
    <3> QED
      BY <3>1 DEF Samples
  <2> QED
    BY <2>1, <2>2
<1>5. ASSUME NEW i \in 1..(n + 1), NEW j \in 1..(n + 1), i < j
      PROVE  Last(e[i]).time < Last(e[j]).time
  <2>1. i \in DOMAIN ds /\ e[i] = ds[i]
    BY <1>3, <1>5
  <2>2. CASE j = n + 1
    BY <1>2, <1>3, <2>1, <2>2
  <2>3. CASE j # n + 1
    <3>1. j \in DOMAIN ds /\ e[j] = ds[j]
      BY <1>3, <2>3
    <3> QED
      BY <1>5, <2>1, <3>1 DEF Samples
  <2> QED
    BY <2>2, <2>3
<1>6. Samples(df, e)
  BY <1>3, <1>4, <1>5 DEF Samples
<1> QED
  BY <1>2, <1>6 DEF s, e

-----------------------------------------------------------------------------
(* What OnCandle does, when the strategy has decided on nothing yet or the *)
(* candle is not of the last row's bar.                                    *)
Decides(candle) ==
  /\ seen' = TRUE /\ (started \/ seen)
  /\ ~Late(candle) /\ candle.time # Never
  /\ decided' # <<>>
  /\ Last(decided') \in Seq(Row) /\ Last(decided') # <<>>
  /\ Last(Last(decided')) = candle

LEMMA OnCandleCases ==
  ASSUME NEW candle, OnCandle(candle)
  PROVE  /\ given' = Append(given, candle) /\ started' = started
         /\ \/ Late(candle) /\ UNCHANGED <<Dataframe, decided, seen>>
            \/ /\ ~Late(candle) /\ Dataframe' = updateDataFrame(candle)
               /\ \/ UNCHANGED <<decided, seen>>
                  \/ /\ Len(Dataframe') >= WarmupPeriod
                     /\ (started \/ seen) /\ seen' = TRUE
                     /\ decided' = Append(decided, Sample(Dataframe', WarmupPeriod))
BY DEF OnCandle, Drop, WarmUp, NotStarted, Decide, Update

LEMMA OnCandleUpdates ==
  ASSUME ControllerType, RowInv, DecidesOnLatest, NEW candle \in Row,
         ~Late(candle), Dataframe' = updateDataFrame(candle),
         given' = Append(given, candle),
         Dataframe # <<>> /\ candle.time = LastRow.time => decided = <<>>
  PROVE  /\ Dataframe' \in Seq(Row) /\ Dataframe' # <<>>
         /\ Dataframe'[Len(Dataframe')] = candle
         /\ RowInv'
         /\ Samples(Dataframe', decided)
         /\ \A i \in DOMAIN decided : Last(decided[i]).time < candle.time
<1>0. Dataframe \in Seq(Row) /\ given \in Seq(Row) /\ decided \in Seq(Seq(Row))
      /\ Rows(Dataframe, given) /\ Samples(Dataframe, decided)
      /\ Increasing(Dataframe)
  BY DecidesOnSamples DEF ControllerType, RowInv, Rows
<1>1. CASE Dataframe = <<>>
  <2>1. given = <<>>
    BY <1>0, <1>1 DEF Rows
  <2>2. Dataframe' = <<candle>> /\ given' = <<candle>>
    BY <1>1, <2>1, RowsFirst DEF updateDataFrame
  <2>3. Rows(Dataframe', given')
    BY <2>2, RowsFirst
  <2>4. decided = <<>>
    <3>1. \A i \in DOMAIN decided : Len(Dataframe) >= WarmupPeriod
      BY <1>0, SamplesBefore
    <3>2. \A i \in DOMAIN decided : FALSE
      BY <1>1, <3>1, WarmupNat
    <3>3. decided # <<>> => 1 \in DOMAIN decided
      BY <1>0, Nonempty
    <3> QED
      BY <3>2, <3>3
  <2>5. Dataframe' \in Seq(Row) /\ Dataframe' # <<>> /\ Dataframe'[Len(Dataframe')] = candle
    BY <2>2
  <2>6. DOMAIN decided = {}
    BY <2>4
  <2>7. Samples(Dataframe', decided)
    BY <2>6 DEF Samples
  <2> QED
    BY <2>3, <2>5, <2>6, <2>7 DEF RowInv
<1>2. CASE Dataframe # <<>> /\ candle.time = LastRow.time
  <2>1. Dataframe' = [Dataframe EXCEPT ![Len(Dataframe)] = candle]
    BY <1>2 DEF updateDataFrame
  <2>2. Rows(Dataframe', given')
    BY <1>0, <1>2, <2>1, RowsReplaced DEF LastRow
  <2>3. Len(Dataframe) \in Nat \ {0} /\ DOMAIN Dataframe = 1..Len(Dataframe)
    BY <1>0, <1>2, Nonempty
  <2>4. Dataframe' \in Seq(Row) /\ Len(Dataframe') = Len(Dataframe)
        /\ Dataframe'[Len(Dataframe')] = candle
    BY <1>0, <2>1, <2>3
  <2>5. Dataframe' # <<>>
    BY <2>3, <2>4, EmptySeq
  <2>6. DOMAIN decided = {}
    BY <1>2
  <2>7. Samples(Dataframe', decided)
    BY <2>6 DEF Samples
  <2> QED
    BY <2>2, <2>4, <2>5, <2>6, <2>7 DEF RowInv
<1>3. CASE Dataframe # <<>> /\ candle.time # LastRow.time
  <2>1. Dataframe' = Append(Dataframe, candle)
    BY <1>3 DEF updateDataFrame
  <2>2. LastRow \in Row
    BY <1>0, <1>3, Nonempty DEF LastRow
  <2>3. LastRow.time < candle.time /\ LastRow.time \in Nat /\ candle.time \in Nat
    <3>1. LastRow.time \in Nat /\ candle.time \in Nat
      BY <2>2 DEF Row
    <3> QED
      BY <1>3, <3>1 DEF Late
  <2>4. Rows(Dataframe', given')
    BY <1>0, <1>3, <2>1, <2>3, RowsAppended DEF LastRow
  <2>5. Samples(Dataframe', decided)
    BY <1>0, <2>1, SamplesStay
  <2>6. /\ Dataframe' \in Seq(Row) /\ Dataframe' # <<>>
        /\ Len(Dataframe') = Len(Dataframe) + 1
        /\ Dataframe'[Len(Dataframe) + 1] = candle
    <3> DEFINE more == Append(Dataframe, candle)
    <3>1. /\ more \in Seq(Row) /\ more # <<>>
          /\ Len(more) = Len(Dataframe) + 1
          /\ more[Len(Dataframe) + 1] = candle
      BY <1>0, Appended
    <3> HIDE DEF more
    <3>2. Dataframe' = more
      BY <2>1 DEF more
    <3> QED
      BY <3>1, <3>2
  <2>7. ASSUME NEW i \in DOMAIN decided
        PROVE  Last(decided[i]).time < candle.time
    <3>1. Last(decided[i]).time \in Nat /\ Last(decided[i]).time <= LastRow.time
      BY <1>0, SamplesBefore DEF LastRow
    <3> QED
      BY <2>3, <3>1
  <2> QED
    BY <2>4, <2>5, <2>6, <2>7 DEF RowInv
<1> QED
  BY <1>1, <1>2, <1>3

LEMMA OnCandleStep ==
  ASSUME ControllerType, RowInv, DecidesOnLatest, NEW candle \in Row, OnCandle(candle),
         Dataframe # <<>> /\ candle.time = LastRow.time => decided = <<>>
  PROVE  /\ ControllerType' /\ RowInv' /\ DecidesOnLatest'
         /\ given' = Append(given, candle) /\ started' = started
         /\ UNCHANGED <<decided, seen>> \/ Decides(candle)
<1>0. given \in Seq(Row)
  BY DEF ControllerType
<1>1. given' = Append(given, candle) /\ started' = started /\ given' \in Seq(Row)
  <2>1. given' = Append(given, candle) /\ started' = started
    BY OnCandleCases
  <2> QED
    BY <1>0, <2>1, Appended
<1>2. CASE Late(candle) /\ UNCHANGED <<Dataframe, decided, seen>>
  <2>1. Rows(Dataframe, given')
    BY <1>1, <1>2, RowsLate DEF Late, LastRow, RowInv, ControllerType
  <2>2. RowInv'
    BY <1>2, <2>1 DEF RowInv
  <2>3. Samples(Dataframe', decided')
    BY <1>2, DecidesOnSamples
  <2>4. DecidesOnLatest'
    BY <2>3 DEF DecidesOnLatest, Samples
  <2> QED
    BY <1>1, <1>2, <2>2, <2>4 DEF ControllerType
<1>3. CASE ~Late(candle) /\ Dataframe' = updateDataFrame(candle)
  <2>1. /\ Dataframe' \in Seq(Row) /\ Dataframe' # <<>>
        /\ Dataframe'[Len(Dataframe')] = candle
        /\ RowInv'
        /\ Samples(Dataframe', decided)
        /\ \A i \in DOMAIN decided : Last(decided[i]).time < candle.time
    BY <1>1, <1>3, OnCandleUpdates
  <2>2. CASE UNCHANGED <<decided, seen>>
    <3>1. DecidesOnLatest'
      BY <2>1, <2>2 DEF DecidesOnLatest, Samples
    <3> QED
      BY <1>1, <2>1, <2>2, <3>1 DEF ControllerType
  <2>3. CASE /\ Len(Dataframe') >= WarmupPeriod
             /\ (started \/ seen) /\ seen' = TRUE
             /\ decided' = Append(decided, Sample(Dataframe', WarmupPeriod))
    <3> DEFINE s == Sample(Dataframe', WarmupPeriod)
    <3>0. decided \in Seq(Seq(Row))
      BY DEF ControllerType
    <3>1. s \in Seq(Row) /\ Last(s) = candle /\ Samples(Dataframe', decided')
      BY <2>1, <2>3, <3>0, SamplesAdded
    <3>2. DecidesOnLatest'
      BY <3>1 DEF DecidesOnLatest, Samples
    <3>3. decided' \in Seq(Seq(Row)) /\ decided' # <<>> /\ Last(decided') = s
          /\ decided'[Len(decided')] = s /\ Len(decided') \in DOMAIN decided'
      <4> HIDE DEF s
      <4>1. decided' = Append(decided, s)
        BY <2>3 DEF s
      <4> QED
        BY <3>0, <3>1, <4>1, Appended DEF Last
    <3>4. s # <<>>
      <4>1. Len(s) = WarmupPeriod
        BY <3>1, <3>3 DEF Samples
      <4> QED
        BY <4>1, WarmupNat
    <3>5. candle.time # Never
      <4>1. Increasing(Dataframe')
        BY <2>1 DEF RowInv, Rows
      <4> DEFINE d == Dataframe'
      <4>2. 1 \in DOMAIN d /\ Len(d) \in DOMAIN d /\ 1 < Len(d)
            /\ d[1] \in Row
        BY <2>1, <2>3, Nonempty, WarmupNat
      <4>3. d[1].time < candle.time /\ d[1].time \in Nat
        BY <2>1, <4>1, <4>2 DEF Increasing, Row
      <4> QED
        BY <4>3 DEF Never, Row
    <3> QED
      BY <1>1, <1>3, <2>1, <2>3, <3>1, <3>2, <3>3, <3>4, <3>5 DEF ControllerType, Decides
  <2> QED
    BY <2>2, <2>3, <1>3, OnCandleCases
<1> QED
  BY <1>2, <1>3, OnCandleCases

-----------------------------------------------------------------------------
(* The feed and the controller together.                                   *)
FeedInv == FeedType /\ ControllerType /\ RowInv /\ BarInv /\ DecidesOnLatest

LEMMA FeedInit == Init => FeedInv
<1> SUFFICES ASSUME Init PROVE FeedInv
  OBVIOUS
<1>1. /\ Dataframe = <<>> /\ given = <<>> /\ decided = <<>>
      /\ started = FALSE /\ seen = FALSE
  BY DEF Init, ControllerInit
<1>2. FeedType
  <2>1. past \in Nat
    BY DashboardAssumption DEF Init, DashboardAssumption
  <2>2. item \in [time : Nat, n : Nat, complete : BOOLEAN]
    BY DEF Init
  <2>3. told \in 0..issued /\ issued \in Nat /\ taken \in Nat /\ bar \in Nat \ {0}
        /\ todo \in {"none", "controller", "web"}
    BY DEF Init
  <2> QED
    BY <2>1, <2>2, <2>3 DEF FeedType
<1>3. ControllerType
  <2>1. <<>> \in Seq(Row) /\ <<>> \in Seq(Seq(Row))
    OBVIOUS
  <2>2. {started, seen} \subseteq BOOLEAN
    BY <1>1
  <2> QED
    BY <1>1, <2>1, <2>2 DEF ControllerType
<1>4. Rows(<<>>, <<>>)
  BY DEF Rows, Revisions, Increasing
<1>5. BarInv
  BY <1>1 DEF BarInv, Init
<1>6. DecidesOnLatest
  BY <1>1 DEF DecidesOnLatest
<1> QED
  BY <1>1, <1>2, <1>3, <1>4, <1>5, <1>6 DEF FeedInv, RowInv

LEMMA GivenTime ==
  ASSUME ControllerType, NEW i \in DOMAIN given
  PROVE  given[i] \in Row /\ given[i].time \in Nat
<1>1. given[i] \in Row
  BY DEF ControllerType
<1> QED
  BY <1>1 DEF Row

\* What depends on the controller's variables alone.
LEMMA ControllerKept ==
  ASSUME ControllerType, RowInv, DecidesOnLatest, UNCHANGED <<Dataframe, given, decided>>,
         {started', seen'} \subseteq BOOLEAN
  PROVE  ControllerType' /\ RowInv' /\ DecidesOnLatest'
BY DEF ControllerType, RowInv, DecidesOnLatest

LEMMA HandedOut ==
  ASSUME FeedInv, FeedHandsOut
  PROVE  /\ FeedInv'
         /\ todo = "none" /\ stage["feed"] = "idle"
         /\ taken' = taken + 1 /\ item'.n = taken' /\ todo' # "none"
         /\ UNCHANGED <<controllerVars, serverVars, orderVars, past>>
<1>1. /\ past \in Nat /\ taken \in Nat /\ bar \in Nat \ {0} /\ Never = 0
      /\ bar \in Nat
  BY DEF FeedInv, FeedType, Never
<1>2. /\ taken < past \/ taken >= past
      /\ \/ /\ taken < past /\ HandOut(Candle(bar, TRUE))
            /\ bar' = IF taken + 1 = past THEN bar ELSE bar + 1
         \/ taken >= past /\ HandOut(Candle(bar, FALSE)) /\ bar' = bar
         \/ taken >= past /\ HandOut(Candle(bar, TRUE)) /\ bar' = bar + 1
         \/ taken >= past /\ HandOut(Candle(Never, FALSE)) /\ bar' = bar
  BY <1>1 DEF FeedHandsOut, Preload, Partial, Complete, Error, Live
<1>3. /\ item' \in [time : Nat, n : Nat, complete : BOOLEAN]
      /\ item'.n = taken + 1 /\ item'.time \in {bar, Never}
      /\ item'.complete => item'.time = bar
      /\ todo' = IF item'.complete \/ item'.time = Never THEN "controller" ELSE "web"
      /\ bar' \in {bar, bar + 1} /\ bar' \in Nat \ {0}
      /\ item'.complete => (taken + 1 <= past /\ taken < past) \/ bar' = bar + 1
      /\ taken < past => item'.complete
  <2>1. CASE /\ taken < past /\ HandOut(Candle(bar, TRUE))
             /\ bar' = IF taken + 1 = past THEN bar ELSE bar + 1
    <3>1. /\ item' = [time |-> bar, n |-> taken + 1, complete |-> TRUE]
          /\ todo' = "controller"
      BY <2>1 DEF HandOut, Candle
    <3> QED
      BY <1>1, <2>1, <3>1
  <2>2. CASE taken >= past /\ HandOut(Candle(bar, FALSE)) /\ bar' = bar
    <3>1. /\ item' = [time |-> bar, n |-> taken + 1, complete |-> FALSE]
          /\ todo' = "web"
      BY <1>1, <2>2 DEF HandOut, Candle
    <3> QED
      BY <1>1, <2>2, <3>1
  <2>3. CASE taken >= past /\ HandOut(Candle(bar, TRUE)) /\ bar' = bar + 1
    <3>1. /\ item' = [time |-> bar, n |-> taken + 1, complete |-> TRUE]
          /\ todo' = "controller"
      BY <2>3 DEF HandOut, Candle
    <3> QED
      BY <1>1, <2>3, <3>1
  <2>4. CASE taken >= past /\ HandOut(Candle(Never, FALSE)) /\ bar' = bar
    <3>1. /\ item' = [time |-> Never, n |-> taken + 1, complete |-> FALSE]
          /\ todo' = "controller"
      BY <2>4 DEF HandOut, Candle
    <3> QED
      BY <1>1, <2>4, <3>1
  <2> QED
    BY <1>2, <2>1, <2>2, <2>3, <2>4
<1>10. /\ taken' = taken + 1 /\ todo = "none" /\ stage["feed"] = "idle"
       /\ UNCHANGED <<controllerVars, serverVars, orderVars, past>>
  BY <1>2 DEF HandOut
<1>4. FeedType'
  BY <1>1, <1>3, <1>10 DEF FeedInv, FeedType, orderVars
<1>5. UNCHANGED <<Dataframe, started, seen, given, decided>>
  BY <1>10 DEF controllerVars
<1>6. ControllerType' /\ RowInv' /\ DecidesOnLatest'
  BY <1>5, ControllerKept DEF FeedInv, ControllerType
<1>7. BarInv'
  <2>1. started => taken >= past
    BY DEF FeedInv, BarInv
  <2>2. started' => taken' >= past' /\ (taken' = past' => todo' # "controller")
    BY <1>1, <1>3, <1>10, <1>5, <2>1
  <2>3. (seen' => started') /\ (decided' # <<>> => seen')
    BY <1>5 DEF FeedInv, BarInv
  <2>4. todo' = "controller" =>
          item'.time <= bar' /\ (item'.time = bar' => taken' <= past')
    BY <1>1, <1>3, <1>10
  <2>5. ASSUME decided' # <<>>, NEW i \in DOMAIN given'
        PROVE  /\ given'[i].time < bar'
               /\ todo' = "controller" => item'.time = Never \/ given'[i].time < item'.time
    <3>1. i \in DOMAIN given /\ given'[i] = given[i] /\ given[i].time \in Nat
      BY <1>5, <2>5, GivenTime DEF FeedInv
    <3>2. given[i].time < bar
      BY <1>5, <2>5, <3>1 DEF FeedInv, BarInv
    <3> QED
      BY <1>1, <1>3, <3>1, <3>2
  <2> QED
    BY <2>2, <2>3, <2>4, <2>5 DEF BarInv
<1>8. item'.n = taken' /\ todo' # "none"
  BY <1>3, <1>10
<1> QED
  BY <1>10, <1>4, <1>6, <1>7, <1>8 DEF FeedInv

LEMMA CallControllerStep ==
  ASSUME FeedInv, CallController
  PROVE  /\ FeedInv'
         /\ \/ UNCHANGED serverVars
            \/ \E e \in Events : On("feed", e) /\ e.type = "indicators" /\ e.n = item.n
         /\ todo = "controller" /\ todo' = "web"
         /\ UNCHANGED <<past, bar, taken, item, told>>
<1> DEFINE candle == [time |-> item.time, n |-> item.n]
<1>1. /\ todo = "controller" /\ todo' = "web" /\ OnCandle(candle)
      /\ issued' = issued \/ issued' \in issued..(issued + 2)
      /\ UNCHANGED <<past, bar, taken, item, told>>
  BY DEF CallController
<1>2. /\ candle \in Row /\ candle.time = item.time
      /\ past \in Nat /\ taken \in Nat /\ bar \in Nat /\ item.time \in Nat /\ item.n \in Nat
  BY DEF FeedInv, FeedType, Row
<1>3. ASSUME Dataframe # <<>>, candle.time = LastRow.time, decided # <<>>
      PROVE  FALSE
  <2>1. /\ Dataframe \in Seq(Row) /\ given \in Seq(Row) /\ decided \in Seq(Seq(Row))
        /\ Samples(Dataframe, decided)
        /\ Increasing(Dataframe)
    BY DecidesOnSamples DEF FeedInv, ControllerType, RowInv, Rows
  <2>2. Len(Dataframe) \in DOMAIN Dataframe /\ 1 \in DOMAIN Dataframe /\ LastRow \in Row
    BY <1>3, <2>1, Nonempty DEF LastRow
  <2>3. PICK k \in DOMAIN given : given[k] = LastRow
    BY <2>2 DEF FeedInv, RowInv, Rows, Revisions, LastRow
  <2>4. item.time = Never \/ given[k].time < item.time
    BY <1>1, <1>3 DEF FeedInv, BarInv
  <2>5. LastRow.time = 0
    BY <1>2, <1>3, <2>3, <2>4 DEF Never
  <2>6. 1 < Len(Dataframe)
    <3>1. 1 \in DOMAIN decided
      BY <1>3, <2>1, Nonempty
    <3> QED
      BY <2>1, <3>1, SamplesBefore, WarmupNat
  <2>7. Dataframe[1].time < LastRow.time /\ Dataframe[1] \in Row
    BY <2>1, <2>2, <2>6 DEF Increasing, LastRow
  <2> QED
    BY <2>5, <2>7 DEF Row
<1>4. Dataframe # <<>> /\ candle.time = LastRow.time => decided = <<>>
  BY <1>3
<1> HIDE DEF candle
<1>5. /\ ControllerType' /\ RowInv' /\ DecidesOnLatest'
      /\ given' = Append(given, candle) /\ started' = started
      /\ UNCHANGED <<decided, seen>> \/ Decides(candle)
  BY <1>1, <1>2, <1>4, OnCandleStep DEF FeedInv
<1>6. FeedType'
  BY <1>1 DEF FeedInv, FeedType
<1>7. started => item.time < bar
  BY <1>1, <1>2 DEF FeedInv, BarInv
<1>8. BarInv'
  <2>1. (seen' => started') /\ (decided' # <<>> => seen')
    BY <1>5 DEF Decides, FeedInv, BarInv
  <2>2. ASSUME decided' # <<>>, NEW i \in DOMAIN given'
        PROVE  given'[i].time < bar
    <3>1. started
      BY <1>5, <2>1, <2>2
    <3>2. /\ given \in Seq(Row) /\ Len(given) \in Nat /\ DOMAIN given = 1..Len(given)
          /\ DOMAIN given' = 1..(Len(given) + 1)
          /\ \A j \in 1..Len(given) : given'[j] = given[j]
          /\ given'[Len(given) + 1] = candle
      <4>1. given \in Seq(Row)
        BY DEF FeedInv, ControllerType
      <4> QED
        BY <1>2, <1>5, <4>1, Appended
    <3>3. CASE i = Len(given) + 1
      BY <1>2, <1>7, <3>1, <3>2, <3>3
    <3>4. CASE i # Len(given) + 1
      <4>1. i \in DOMAIN given /\ given'[i] = given[i] /\ given[i].time \in Nat
        <5>1. i \in DOMAIN given /\ given'[i] = given[i]
          BY <2>2, <3>2, <3>4
        <5> QED
          BY <5>1, GivenTime DEF FeedInv
      <4>2. CASE decided # <<>>
        BY <4>1, <4>2 DEF FeedInv, BarInv
      <4>3. CASE decided = <<>>
        <5>1. ~Late(candle)
          BY <1>5, <2>2, <4>3 DEF Decides
        <5>2. Dataframe # <<>> /\ LastRow \in Row
          <6>1. given # <<>> /\ Dataframe \in Seq(Row)
            BY <4>1 DEF FeedInv, ControllerType
          <6>2. Dataframe # <<>>
            BY <6>1 DEF FeedInv, RowInv, Rows
          <6> QED
            BY <6>1, <6>2, Nonempty DEF LastRow
        <5>3. given[i].time <= LastRow.time
          BY <4>1 DEF FeedInv, RowInv, Rows, LastRow
        <5>4. LastRow.time <= item.time /\ LastRow.time \in Nat
          BY <1>2, <5>1, <5>2 DEF Late, Row
        <5> QED
          BY <1>2, <1>7, <3>1, <4>1, <5>3, <5>4
      <4> QED
        BY <4>2, <4>3
    <3> QED
      BY <3>3, <3>4
  <2>3. started => taken >= past
    BY DEF FeedInv, BarInv
  <2> QED
    BY <1>1, <1>5, <2>1, <2>2, <2>3 DEF BarInv
<1>9. \/ UNCHANGED serverVars
      \/ \E e \in Events : On("feed", e) /\ e.type = "indicators" /\ e.n = item.n
  <2>1. CASE Attached /\ decided' # decided
    <3>1. Decides(candle)
      BY <1>5, <2>1
    <3> DEFINE e == [type |-> "indicators", n |-> item.n, x |-> Last(Last(decided')).time]
    <3>2. Last(Last(decided')).time = item.time
      BY <1>2, <3>1 DEF Decides
    <3>3. e \in Events /\ e.type = "indicators" /\ e.n = item.n
      BY <1>2, <3>2 DEF Events
    <3>4. On("feed", e)
      BY <2>1 DEF CallController
    <3> QED
      BY <3>3, <3>4
  <2>2. CASE ~(Attached /\ decided' # decided)
    BY <2>2 DEF CallController
  <2> QED
    BY <2>1, <2>2
<1> QED
  BY <1>1, <1>5, <1>6, <1>8, <1>9 DEF FeedInv

LEMMA FeedInvStep ==
  ASSUME FeedInv, [Next]_vars
  PROVE  FeedInv'
<1>1. ASSUME UNCHANGED <<controllerVars, feedVars>>,
             issued' \in Nat, told' \in 0..issued'
      PROVE  FeedInv'
  <2>1. UNCHANGED <<Dataframe, started, seen, given, decided, past, bar, taken, item, todo>>
    BY <1>1 DEF controllerVars, feedVars
  <2>2. ControllerType' /\ RowInv' /\ DecidesOnLatest'
    BY <2>1, ControllerKept DEF FeedInv, ControllerType
  <2>3. FeedType' /\ BarInv'
    BY <1>1, <2>1 DEF FeedInv, FeedType, BarInv
  <2> QED
    BY <2>2, <2>3 DEF FeedInv
<1>0. issued \in Nat /\ told \in 0..issued
  BY DEF FeedInv, FeedType
<1>2. CASE FeedHandsOut
  BY <1>2, HandedOut
<1>3. CASE CallController
  BY <1>3, CallControllerStep
<1>4. CASE CallWebServer
  <2>1. /\ todo' = "none"
        /\ UNCHANGED <<Dataframe, started, seen, given, decided, issued, told, past, bar,
                       taken, item>>
    BY <1>4 DEF CallWebServer, controllerVars, orderVars
  <2>2. ControllerType' /\ RowInv' /\ DecidesOnLatest'
    BY <2>1, ControllerKept DEF FeedInv, ControllerType
  <2>3. FeedType' /\ BarInv'
    BY <2>1 DEF FeedInv, FeedType, BarInv
  <2> QED
    BY <2>2, <2>3 DEF FeedInv
<1>5. CASE OnOrder
  BY <1>0, <1>1, <1>5 DEF OnOrder
<1>6. CASE Start
  <2>1. /\ started' = TRUE /\ taken >= past /\ (taken = past => todo = "none")
        /\ UNCHANGED <<Dataframe, seen, given, decided, issued, told, past, bar,
                       taken, item, todo>>
    BY <1>6 DEF Start, ControllerStart, orderVars, feedVars
  <2>2. ControllerType' /\ RowInv' /\ DecidesOnLatest'
    BY <2>1, ControllerKept DEF FeedInv, ControllerType
  <2>3. FeedType' /\ BarInv'
    BY <2>1 DEF FeedInv, FeedType, BarInv
  <2> QED
    BY <2>2, <2>3 DEF FeedInv
<1>7. CASE UNCHANGED <<controllerVars, feedVars, orderVars>>
  BY <1>0, <1>1, <1>7 DEF orderVars
<1>8. CASE UNCHANGED vars
  BY <1>7, <1>8 DEF vars
<1> QED
  BY <1>2, <1>3, <1>4, <1>5, <1>6, <1>7, <1>8, Steps

\* Only a first candle without a time makes a row without one.
LEMMA FirstRowNever ==
  ASSUME FeedInv
  PROVE  DataframeFaithful
<1>1. /\ Dataframe \in Seq(Row) /\ given \in Seq(Row) /\ Rows(Dataframe, given)
  BY DEF FeedInv, ControllerType, RowInv
<1>2. RowsAreLastRevisions
  BY <1>1 DEF Rows, RowsAreLastRevisions, Revisions, Increasing, Kept, OnTime, KeptIn,
              OnTimeIn
<1>3. ASSUME NEW i \in DOMAIN Dataframe, Dataframe[i].time = Never
      PROVE  given[1].time = Never
  <2>1. Dataframe # <<>>
    BY <1>3
  <2>2. /\ DOMAIN Dataframe = 1..Len(Dataframe) /\ Len(Dataframe) \in Nat
        /\ 1 \in DOMAIN Dataframe /\ Dataframe[1] \in Row
    BY <1>1, <2>1, Nonempty
  <2>3. ~(1 < i)
    <3>1. ASSUME 1 < i PROVE FALSE
      <4>1. Dataframe[1].time < 0
        BY <1>1, <1>3, <2>2, <3>1 DEF Rows, Increasing, Never
      <4> QED
        BY <2>2, <4>1 DEF Row
    <3> QED
      BY <3>1
  <2>4. i = 1
    BY <1>3, <2>2, <2>3
  <2> QED
    BY <1>1, <1>3, <2>1, <2>4 DEF Rows
<1> QED
  BY <1>2, <1>3 DEF DataframeFaithful

(* The dataframe holds the bars of the feed at their last revisions, none  *)
(* lost, doubled or out of order (strategy/controller.go:37), however long *)
(* the bot runs.                                                           *)
THEOREM DataframeIsFaithful == Spec => []DataframeFaithful
<1>1. FeedInv => DataframeFaithful
  BY FirstRowNever
<1>2. FeedInv /\ [Next]_vars => FeedInv'
  BY FeedInvStep
<1> QED
  BY <1>1, <1>2, FeedInit, PTL DEF Spec

(* The strategy is asked about each bar at most once, in the order of      *)
(* time, and shown the rows up to it (strategy/controller.go:62), whenever *)
(* the controller is started and whatever errors the feed brings.          *)
THEOREM EachBarDecidedOnce == Spec => []DecidesOnLatest
<1>1. FeedInv => DecidesOnLatest
  BY DEF FeedInv
<1>2. FeedInv /\ [Next]_vars => FeedInv'
  BY FeedInvStep
<1> QED
  BY <1>1, <1>2, FeedInit, PTL DEF Spec

-----------------------------------------------------------------------------
(* What a page draws.                                                      *)
LEMMA DrawNothing ==
  ASSUME NEW A
  PROVE  Draw(A, {}) = A /\ Lasts(<<>>) = {}
BY DEF Draw, Lasts

LEMMA DrawTwice ==
  ASSUME NEW A, NEW B, NEW C
  PROVE  Draw(Draw(A, B), C) = Draw(A, Draw(B, C))
BY DEF Draw, Same

\* An event that is drawn again may be drawn before.
LEMMA DrawBefore ==
  ASSUME NEW A, NEW B, NEW e
  PROVE  Draw(Draw(Draw(A, {e}), B), {e}) = Draw(Draw(A, B), {e})
BY DEF Draw, Same

\* What has a place among B is not seen under it.
LEMMA DrawOver ==
  ASSUME NEW A, NEW B, \A a \in A : \E b \in B : Same(a, b)
  PROVE  Draw(A, B) = B
BY DEF Draw

LEMMA DrawApart ==
  ASSUME NEW A, NEW e, \A a \in A : ~Same(a, e)
  PROVE  /\ Draw(A, {e}) = A \cup {e}
         /\ Draw({e}, A) = A \cup {e}
BY DEF Draw, Same

LEMMA LastsAppend ==
  ASSUME NEW s \in Seq(Events), NEW e \in Events
  PROVE  Lasts(Append(s, e)) = Draw(Lasts(s), {e})
<1> DEFINE h == Append(s, e)
           n == Len(s)
<1>1. /\ n \in Nat /\ DOMAIN s = 1..n /\ DOMAIN h = 1..(n + 1)
      /\ \A i \in 1..n : h[i] = s[i]
      /\ h[n + 1] = e
  BY Appended
<1> DEFINE Stays(u, i) == \A j \in DOMAIN u : Same(u[i], u[j]) => j <= i
<1> HIDE DEF h, n
<1>2. Stays(h, n + 1)
  BY <1>1
<1>3. ASSUME NEW i \in 1..n
      PROVE  Stays(h, i) <=> Stays(s, i) /\ ~Same(s[i], e)
  <2>1. 1..(n + 1) = 1..n \cup {n + 1} /\ ~(n + 1 <= i)
    BY <1>1
  <2>2. \A j \in 1..n : h[j] = s[j]
    BY <1>1
  <2> QED
    BY <1>1, <2>1, <2>2
<1> HIDE DEF Stays
<1>4. \A i : i \in DOMAIN h /\ Stays(h, i)
              <=> (i \in DOMAIN s /\ Stays(s, i) /\ ~Same(s[i], e)) \/ i = n + 1
  BY <1>1, <1>2, <1>3
<1>5. {h[i] : i \in {i \in DOMAIN h : Stays(h, i)}}
        = {p \in {s[i] : i \in {i \in DOMAIN s : Stays(s, i)}} : ~Same(p, e)} \cup {e}
  BY <1>1, <1>4
<1>6. Draw(Lasts(s), {e}) = {p \in Lasts(s) : ~Same(p, e)} \cup {e}
  BY DEF Draw
<1> QED
  BY <1>5, <1>6 DEF Lasts, Stays, h

\* Numbers that are some have a least.
LEMMA Least ==
  ASSUME NEW T \in SUBSET Nat, T # {}
  PROVE  \E n \in T : \A m \in T : n <= m
<1>1. IsWellFoundedOn(OpToRel(<, Nat), Nat)
  BY NatLessThanWellFounded
<1>2. PICK n \in T : \A m \in T : ~(<<m, n>> \in OpToRel(<, Nat))
  BY <1>1, WFMin
<1>3. \A m \in T : ~(m < n)
  BY <1>2 DEF OpToRel
<1> QED
  BY <1>3

\* An event of a sequence has a last one of its place.
LEMMA LastOccurrence ==
  ASSUME NEW s \in Seq(Events), NEW i \in DOMAIN s
  PROVE  \E k \in DOMAIN s :
           Same(s[i], s[k]) /\ \A j \in DOMAIN s : Same(s[k], s[j]) => j <= k
<1> DEFINE n == Len(s)
           T == {n - j : j \in {j \in 1..n : Same(s[i], s[j])}}
<1>1. n \in Nat /\ DOMAIN s = 1..n
  OBVIOUS
<1>2. Same(s[i], s[i])
  BY DEF Same
<1> HIDE DEF n
<1>3. T \in SUBSET Nat /\ n - i \in T
  BY <1>1, <1>2
<1>4. PICK m \in T : \A q \in T : m <= q
  BY <1>3, Least
<1>5. PICK k \in 1..n : Same(s[i], s[k]) /\ m = n - k
  BY <1>4
<1>6. ASSUME NEW j \in 1..n, Same(s[k], s[j]) PROVE j <= k
  <2>1. Same(s[i], s[j])
    BY <1>5, <1>6 DEF Same
  <2>2. n - k <= n - j
    BY <1>4, <1>5, <2>1
  <2> QED
    BY <1>1, <2>2
<1> QED
  BY <1>1, <1>5, <1>6

LEMMA LastsHead ==
  ASSUME NEW s \in Seq(Events), s # <<>>
  PROVE  Lasts(s) = Draw({Head(s)}, Lasts(Tail(s)))
<1> DEFINE u == Tail(s)
           n == Len(s)
           e == Head(s)
<1>1. /\ n \in Nat \ {0} /\ DOMAIN s = 1..n /\ DOMAIN u = 1..(n - 1)
      /\ s[1] = e
      /\ \A i \in 1..(n - 1) : u[i] = s[i + 1]
  <2>1. u \in Seq(Events) /\ Len(u) = n - 1 /\ n \in Nat \ {0}
    BY HeadTail
  <2>2. DOMAIN u = 1..Len(u) /\ DOMAIN s = 1..n
    BY <2>1
  <2> QED
    BY <2>1, <2>2, HeadTail
<1> DEFINE Stays(q, i) == \A j \in DOMAIN q : Same(q[i], q[j]) => j <= i
<1> HIDE DEF u, n, e
<1>2. 1..n = {1} \cup {i + 1 : i \in 1..(n - 1)}
  <2>1. \A i \in 1..n : i = 1 \/ (i - 1 \in 1..(n - 1) /\ i = (i - 1) + 1)
    BY <1>1
  <2>2. \A i \in 1..(n - 1) : i + 1 \in 1..n
    BY <1>1
  <2>3. 1 \in 1..n
    BY <1>1
  <2> QED
    BY <2>1, <2>2, <2>3
<1>3. ASSUME NEW i \in 1..(n - 1)
      PROVE  Stays(s, i + 1) <=> Stays(u, i)
  <2>1. \A j \in 1..(n - 1) : u[j] = s[j + 1] /\ (j <= i <=> j + 1 <= i + 1)
    BY <1>1
  <2>2. 1 <= i + 1
    BY <1>1
  <2>3. Stays(s, i + 1) <=>
          \A j \in 1..(n - 1) : Same(s[i + 1], s[j + 1]) => j + 1 <= i + 1
    <3> DEFINE R(j) == Same(s[i + 1], s[j]) => j <= i + 1
    <3>1. R(1)
      BY <2>2
    <3> HIDE DEF R
    <3>2. (\A j \in 1..n : R(j)) <=> (\A j \in 1..(n - 1) : R(j + 1))
      BY <1>2, <3>1
    <3> QED
      BY <1>1, <3>2 DEF R
  <2> QED
    BY <1>1, <2>1, <2>3
<1>4. Stays(s, 1) <=> \A i \in 1..(n - 1) : ~Same(e, u[i])
  <2> DEFINE R(j) == Same(e, s[j]) => j <= 1
  <2>1. R(1) /\ \A j \in 1..(n - 1) : R(j + 1) <=> ~Same(e, u[j])
    BY <1>1
  <2>2. Stays(s, 1) <=> \A j \in 1..n : R(j)
    BY <1>1
  <2> HIDE DEF R, Stays
  <2>3. (\A j \in 1..n : R(j)) <=> (\A j \in 1..(n - 1) : R(j + 1))
    BY <1>2, <2>1
  <2> QED
    BY <2>1, <2>2, <2>3
<1>5. Lasts(u) = {u[i] : i \in {i \in 1..(n - 1) : Stays(u, i)}}
  BY <1>1 DEF Lasts, Stays
<1>6. (\A i \in 1..(n - 1) : ~Same(e, u[i])) <=> (\A p \in Lasts(u) : ~Same(e, p))
  <2>1. ASSUME NEW i \in 1..(n - 1), Same(e, u[i])
        PROVE  \E p \in Lasts(u) : Same(e, p)
    <3>1. u \in Seq(Events) /\ i \in DOMAIN u
      BY <1>1, HeadTail DEF u
    <3>2. PICK k \in DOMAIN u : Same(u[i], u[k]) /\ Stays(u, k)
      BY <3>1, LastOccurrence DEF Stays
    <3>3. Same(e, u[k]) /\ u[k] \in Lasts(u)
      BY <1>1, <1>5, <2>1, <3>2 DEF Same
    <3> QED
      BY <3>3
  <2> QED
    BY <1>5, <2>1
<1>7. Lasts(s) = {s[i] : i \in {i \in 1..n : Stays(s, i)}}
  BY <1>1 DEF Lasts, Stays
<1> HIDE DEF Stays
<1>8. \A p : p \in Lasts(s) <=> (p = e /\ Stays(s, 1)) \/ p \in Lasts(u)
  <2>1. \A i \in 1..(n - 1) : s[i + 1] = u[i] /\ (Stays(s, i + 1) <=> Stays(u, i))
    BY <1>1, <1>3
  <2>2. s[1] = e
    BY <1>1
  <2>3. \A p : p \in Lasts(s) <=> \E i \in 1..n : Stays(s, i) /\ p = s[i]
    BY <1>7
  <2>4. \A p : p \in Lasts(u) <=> \E i \in 1..(n - 1) : Stays(u, i) /\ p = u[i]
    BY <1>5
  <2>5. \A p : (\E i \in 1..n : Stays(s, i) /\ p = s[i]) <=>
               (Stays(s, 1) /\ p = s[1])
               \/ \E i \in 1..(n - 1) : Stays(s, i + 1) /\ p = s[i + 1]
    BY <1>2
  <2> QED
    BY <2>1, <2>2, <2>3, <2>4, <2>5
<1>9. Stays(s, 1) <=> \A p \in Lasts(u) : ~Same(e, p)
  BY <1>4, <1>6
<1>10. Lasts(s) = Draw({e}, Lasts(u))
  BY <1>8, <1>9 DEF Draw
<1> QED
  BY <1>10 DEF e, u

-----------------------------------------------------------------------------
(* What is stored.                                                         *)
Ordered(s) == \A i, j \in DOMAIN s : i < j /\ Same(s[i], s[j]) => s[i].n < s[j].n

LEMMA EventType ==
  ASSUME NEW e \in Events
  PROVE  e.n \in Nat /\ e.x \in Nat
BY DEF Events

LEMMA NewestReplaced ==
  ASSUME NEW E \in SUBSET Events, NEW D \in SUBSET E, NEW e \in Events,
         \A d \in D : Same(d, e),
         \A f \in E : Same(f, e) => f.n < e.n
  PROVE  Newest((E \ D) \cup {e}) = Draw(Newest(E), {e})
<1>1. \A f \in E \cup {e} : f.n \in Nat
  BY EventType
<1>2. ASSUME NEW p \in E, ~Same(p, e)
      PROVE  /\ p \in E \ D
             /\ (\A f \in (E \ D) \cup {e} : Same(p, f) => f.n <= p.n)
                  <=> (\A f \in E : Same(p, f) => f.n <= p.n)
  <2>1. \A f \in D \cup {e} : ~Same(p, f)
    BY <1>2 DEF Same
  <2> QED
    BY <1>2, <2>1
<1>3. ASSUME NEW p \in E, Same(p, e)
      PROVE  ~(\A f \in (E \ D) \cup {e} : Same(p, f) => f.n <= p.n)
  <2>1. p.n < e.n
    BY <1>3
  <2>2. ~(e.n <= p.n)
    BY <1>1, <2>1
  <2> QED
    BY <1>3, <2>2
<1>4. \A f \in (E \ D) \cup {e} : Same(e, f) => f.n <= e.n
  BY <1>1 DEF Same
<1>5. \A p \in E : p = e => Same(p, e)
  BY DEF Same
<1>6. \A p : p \in Newest((E \ D) \cup {e})
              <=> (p \in Newest(E) /\ ~Same(p, e)) \/ p = e
  BY <1>2, <1>3, <1>4, <1>5 DEF Newest
<1> QED
  BY <1>6 DEF Draw

LEMMA LastsAreNewest ==
  ASSUME NEW s \in Seq(Events), Ordered(s)
  PROVE  Lasts(s) = Newest(ToSet(s))
<1>1. DOMAIN s = 1..Len(s) /\ Len(s) \in Nat
  OBVIOUS
<1>2. ASSUME NEW i \in DOMAIN s, NEW j \in DOMAIN s, Same(s[i], s[j])
      PROVE  j <= i <=> s[j].n <= s[i].n
  <2>1. s[i].n \in Nat /\ s[j].n \in Nat
    <3>1. s[i] \in Events /\ s[j] \in Events
      OBVIOUS
    <3> QED
      BY <3>1, EventType
  <2>2. Same(s[j], s[i])
    BY <1>2 DEF Same
  <2>3. i < j => s[i].n < s[j].n
    BY <1>2 DEF Ordered
  <2>4. j < i => s[j].n < s[i].n
    BY <2>2 DEF Ordered
  <2> HIDE <1>2
  <2>5. i \in Nat /\ j \in Nat /\ (i = j => s[i].n = s[j].n)
    BY <1>1
  <2> QED
    BY <2>1, <2>3, <2>4, <2>5
<1>3. \A i \in DOMAIN s :
        (\A j \in DOMAIN s : Same(s[i], s[j]) => j <= i)
        <=> (\A j \in DOMAIN s : Same(s[i], s[j]) => s[j].n <= s[i].n)
  BY <1>2
<1> QED
  BY <1>3 DEF Lasts, Newest, ToSet

LEMMA OrderedTogether ==
  ASSUME NEW s \in Seq(Events), NEW u \in Seq(Events), Ordered(s), Ordered(u),
         \A i \in DOMAIN s : \A j \in DOMAIN u : s[i].type # u[j].type
  PROVE  /\ Ordered(s \o u) /\ ToSet(s \o u) = ToSet(s) \cup ToSet(u)
         /\ \A k \in DOMAIN (s \o u) :
              (\E i \in DOMAIN s : (s \o u)[k] = s[i]) \/ \E j \in DOMAIN u : (s \o u)[k] = u[j]
<1> DEFINE h == s \o u
           m == Len(s)
           n == Len(u)
<1>1. /\ m \in Nat /\ n \in Nat /\ DOMAIN s = 1..m /\ DOMAIN u = 1..n
      /\ DOMAIN h = 1..(m + n)
      /\ \A i \in 1..m : h[i] = s[i]
      /\ \A i \in 1..n : h[m + i] = u[i]
  OBVIOUS
<1> HIDE DEF h, m, n
<1>2. ASSUME NEW k \in DOMAIN h
      PROVE  \/ k \in 1..m /\ h[k] = s[k]
             \/ k - m \in 1..n /\ h[k] = u[k - m]
  <2>1. CASE k <= m
    BY <1>1, <2>1
  <2>2. CASE ~(k <= m)
    <3>1. k - m \in 1..n /\ m + (k - m) = k
      BY <1>1, <2>2
    <3> QED
      BY <1>1, <3>1
  <2> QED
    BY <2>1, <2>2
<1>3. Ordered(h)
  <2> SUFFICES ASSUME NEW i \in DOMAIN h, NEW j \in DOMAIN h, i < j, Same(h[i], h[j])
               PROVE  h[i].n < h[j].n
    BY DEF Ordered
  <2>1. CASE i \in 1..m /\ h[i] = s[i] /\ j \in 1..m /\ h[j] = s[j]
    BY <1>1, <2>1 DEF Ordered
  <2>2. CASE i - m \in 1..n /\ h[i] = u[i - m] /\ j - m \in 1..n /\ h[j] = u[j - m]
    <3>1. i - m < j - m
      BY <1>1
    <3> QED
      BY <1>1, <2>2, <3>1 DEF Ordered
  <2>3. CASE i \in 1..m /\ h[i] = s[i] /\ j - m \in 1..n /\ h[j] = u[j - m]
    BY <1>1, <2>3 DEF Same
  <2>4. CASE i - m \in 1..n /\ h[i] = u[i - m] /\ j \in 1..m /\ h[j] = s[j]
    BY <1>1, <2>4
  <2> QED
    BY <1>2, <2>1, <2>2, <2>3, <2>4
<1>4. ToSet(h) = ToSet(s) \cup ToSet(u)
  <2>1. \A i \in 1..m : i \in DOMAIN h
    BY <1>1
  <2>2. \A i \in 1..n : m + i \in DOMAIN h
    BY <1>1
  <2>3. ToSet(h) \subseteq ToSet(s) \cup ToSet(u)
    BY <1>1, <1>2 DEF ToSet
  <2>4. ToSet(s) \subseteq ToSet(h)
    BY <1>1, <2>1 DEF ToSet
  <2>5. ToSet(u) \subseteq ToSet(h)
    BY <1>1, <2>2 DEF ToSet
  <2> QED
    BY <2>3, <2>4, <2>5
<1>5. ASSUME NEW k \in DOMAIN h
      PROVE  (\E i \in DOMAIN s : h[k] = s[i]) \/ \E j \in DOMAIN u : h[k] = u[j]
  BY <1>1, <1>2
<1> QED
  BY <1>3, <1>4, <1>5 DEF h

LEMMA StoredOrdered ==
  ASSUME ServerType, Ascending(candlesticks, "candle"),
         Ascending(indicators, "indicators"), Ascending(orders, "order")
  PROVE  /\ ToSet(Stored) = AllStored /\ AllStored \in SUBSET Events
         /\ Lasts(Stored) = Latest
<1>1. candlesticks \in Seq(Events) /\ indicators \in Seq(Events) /\ orders \in Seq(Events)
      /\ candlesticks \o indicators \in Seq(Events) /\ Stored \in Seq(Events)
  BY StoredType DEF ServerType
<1>2. Ordered(candlesticks) /\ Ordered(indicators) /\ Ordered(orders)
  BY DEF Ascending, Ordered
<1> DEFINE s == candlesticks \o indicators
<1>3. \A i \in DOMAIN candlesticks : \A j \in DOMAIN indicators :
        candlesticks[i].type # indicators[j].type
  BY DEF Ascending
<1>4. /\ Ordered(s) /\ ToSet(s) = ToSet(candlesticks) \cup ToSet(indicators)
      /\ \A k \in DOMAIN s : (\E i \in DOMAIN candlesticks : s[k] = candlesticks[i])
                              \/ \E j \in DOMAIN indicators : s[k] = indicators[j]
  BY <1>1, <1>2, <1>3, OrderedTogether
<1>5. \A k \in DOMAIN s : s[k].type # "order"
  BY <1>4 DEF Ascending
<1> HIDE DEF s
<1>6. \A k \in DOMAIN s : \A j \in DOMAIN orders : s[k].type # orders[j].type
  BY <1>5 DEF Ascending
<1>7. s \in Seq(Events) /\ Stored = s \o orders
  BY <1>1 DEF s, Stored
<1>8. Ordered(Stored) /\ ToSet(Stored) = ToSet(s) \cup ToSet(orders)
  BY <1>1, <1>2, <1>4, <1>6, <1>7, OrderedTogether
<1>9. Lasts(Stored) = Latest
  BY <1>1, <1>8, LastsAreNewest DEF Latest
<1>10. ToSet(Stored) \in SUBSET Events
  BY <1>1 DEF ToSet
<1> QED
  BY <1>4, <1>8, <1>9, <1>10 DEF AllStored

LEMMA Stores ==
  ASSUME NEW s \in Seq(Events), NEW kind, Ascending(s, kind), NEW e \in Events,
         e.type = kind, Below(s, e.n)
  PROVE  /\ Ascending(Append(s, e), kind) /\ UpTo(Append(s, e), e.n)
         /\ ToSet(Append(s, e)) = ToSet(s) \cup {e}
<1> DEFINE h == Append(s, e)
           n == Len(s)
<1>1. /\ n \in Nat /\ DOMAIN s = 1..n /\ DOMAIN h = 1..(n + 1)
      /\ \A i \in 1..n : h[i] = s[i]
      /\ h[n + 1] = e
      /\ e.n \in Nat
  BY Appended, EventType
<1> HIDE DEF h, n
<1>2. \A i \in 1..n : s[i].n \in Nat /\ s[i].n < e.n /\ s[i].type = kind
  <2>1. \A i \in 1..n : s[i] \in Events
    BY <1>1
  <2> QED
    BY <1>1, <2>1, EventType DEF Below, Ascending
<1>3. \A i \in 1..(n + 1) : i = n + 1 \/ i \in 1..n
  BY <1>1
<1>4. ASSUME NEW i \in 1..(n + 1), NEW j \in 1..(n + 1), i < j
      PROVE  h[i].n < h[j].n
  <2>1. i \in 1..n
    BY <1>1, <1>4
  <2>2. CASE j = n + 1
    BY <1>1, <1>2, <2>1, <2>2
  <2>3. CASE j \in 1..n
    BY <1>1, <1>4, <2>1, <2>3 DEF Ascending
  <2> QED
    BY <1>3, <2>2, <2>3
<1>5. Ascending(h, kind)
  BY <1>1, <1>2, <1>3, <1>4 DEF Ascending
<1>6. UpTo(h, e.n)
  BY <1>1, <1>2, <1>3 DEF UpTo
<1>7. ToSet(h) = ToSet(s) \cup {e}
  <2>1. 1..(n + 1) = 1..n \cup {n + 1}
    BY <1>1
  <2> QED
    BY <1>1, <2>1 DEF ToSet
<1> QED
  BY <1>5, <1>6, <1>7 DEF h

LEMMA StoresInPlace ==
  ASSUME NEW s \in Seq(Events), s # <<>>, NEW kind, Ascending(s, kind), NEW e \in Events,
         e.type = kind, Below(s, e.n)
  PROVE  /\ Ascending(Append(Front(s), e), kind) /\ UpTo(Append(Front(s), e), e.n)
         /\ ToSet(Append(Front(s), e)) = (ToSet(s) \ {Last(s)}) \cup {e}
         /\ Last(s) \in ToSet(s) /\ Last(s).type = kind
<1> DEFINE f == Front(s)
           n == Len(s)
<1>1. /\ f \in Seq(Events) /\ n \in Nat \ {0} /\ Len(f) = n - 1
      /\ \A i \in 1..(n - 1) : f[i] = s[i]
      /\ Last(s) = s[n]
      /\ DOMAIN s = 1..n
  <2>1. DOMAIN s = 1..n
    OBVIOUS
  <2> QED
    BY <2>1, FrontLast
<1>2. DOMAIN f = 1..(n - 1)
  BY <1>1
<1> HIDE DEF f, n
<1>3. \A i \in 1..(n - 1) : i \in 1..n /\ i < n
  BY <1>1
<1>4. Ascending(f, kind) /\ Below(f, e.n)
  BY <1>1, <1>2, <1>3 DEF Ascending, Below
<1>5. n \in 1..n
  BY <1>1
<1>6. Last(s) \in ToSet(s) /\ Last(s).type = kind
  BY <1>1, <1>5 DEF ToSet, Ascending
<1>7. \A i \in 1..(n - 1) : s[i] # s[n]
  <2> SUFFICES ASSUME NEW i \in 1..(n - 1), s[i] = s[n] PROVE FALSE
    OBVIOUS
  <2>1. s[i].n < s[n].n
    BY <1>1, <1>3, <1>5 DEF Ascending
  <2>2. s[n] \in Events
    BY <1>1, <1>5
  <2>3. s[n].n \in Nat
    BY <2>2, EventType
  <2> QED
    BY <2>1, <2>3
<1>8. ToSet(f) = ToSet(s) \ {Last(s)}
  <2>1. 1..n = 1..(n - 1) \cup {n}
    BY <1>1
  <2> QED
    BY <1>1, <1>2, <1>7, <2>1 DEF ToSet
<1>9. /\ Ascending(Append(f, e), kind) /\ UpTo(Append(f, e), e.n)
      /\ ToSet(Append(f, e)) = ToSet(f) \cup {e}
  BY <1>1, <1>4, Stores
<1> QED
  BY <1>6, <1>8, <1>9 DEF f

LEMMA BelowSet ==
  ASSUME NEW s, NEW n, Below(s, n)
  PROVE  \A e \in ToSet(s) : e.n < n
BY DEF Below, ToSet

LEMMA KindSet ==
  ASSUME NEW s, NEW kind, Ascending(s, kind)
  PROVE  \A e \in ToSet(s) : e.type = kind
BY DEF Ascending, ToSet

\* Stored takes the event in; of the events before only one may go, which
\* had the same place, and all of the kind have lower numbers.
Takes(e) ==
  /\ \E D \in SUBSET AllStored :
       (\A d \in D : Same(d, e)) /\ AllStored' = (AllStored \ D) \cup {e}
  /\ \A f \in AllStored : f.type = e.type => f.n < e.n

LEMMA StoreStep ==
  ASSUME ServerType, StoreInv, CallInv, FeedType, NEW w \in Writer, Store(w),
         UNCHANGED <<feedVars, orderVars>>
  PROVE  StoreInv' /\ Takes(call[w])
<1> DEFINE e == call[w]
<1>1. /\ e \in Events /\ stage[w] = "lock"
      /\ candlesticks \in Seq(Events) /\ indicators \in Seq(Events) /\ orders \in Seq(Events)
      /\ call' = call /\ stage' = [stage EXCEPT ![w] = "broadcast"]
      /\ StoreCandle(e) \/ StoreIndicators(e) \/ StoreOrder(e)
  BY DEF Store, ServerType
<1>2. w \in {"feed", "orders"} /\ stage'[w] = "broadcast"
      /\ \A v \in Writer : v # w => stage'[v] = stage[v]
  BY <1>1, WriterConst DEF ServerType
<1>3. "feed" \in Writer /\ "orders" \in Writer
  BY WriterConst
<1>4. /\ w = "feed" => /\ e.n = taken
                       /\ \/ e.type = "candle" /\ todo = "none"
                          \/ e.type = "indicators" /\ todo = "web"
      /\ w = "orders" => e.type = "order" /\ e.n = told
  BY <1>1 DEF CallInv
<1>5. todo' = todo /\ taken' = taken /\ told' = told
  BY DEF feedVars, orderVars
<1>6. \A f \in ToSet(candlesticks) : f.type = "candle"
  BY KindSet DEF StoreInv
<1>7. \A f \in ToSet(indicators) : f.type = "indicators"
  BY KindSet DEF StoreInv
<1>8. \A f \in ToSet(orders) : f.type = "order"
  BY KindSet DEF StoreInv
<1>9. CASE e.type = "candle"
  <2>1. w = "feed" /\ e.n = taken /\ todo = "none" /\ Below(candlesticks, e.n)
        /\ stage'["orders"] = stage["orders"] /\ stage'["feed"] = "broadcast"
    BY <1>1, <1>2, <1>3, <1>4, <1>9 DEF StoreInv, FeedStores
  <2>2. indicators' = indicators /\ orders' = orders
        /\ candlesticks' = IF candlesticks # <<>> /\ Last(candlesticks).x = e.x
                           THEN Append(Front(candlesticks), e)
                           ELSE Append(candlesticks, e)
    BY <1>1, <1>9 DEF StoreCandle, StoreIndicators, StoreOrder
  <2>3. /\ Ascending(candlesticks', "candle") /\ UpTo(candlesticks', taken)
        /\ \E D \in SUBSET ToSet(candlesticks) :
             /\ \A d \in D : Same(d, e)
             /\ ToSet(candlesticks') = (ToSet(candlesticks) \ D) \cup {e}
    <3>1. CASE candlesticks # <<>> /\ Last(candlesticks).x = e.x
      <4>1. /\ Ascending(candlesticks', "candle") /\ UpTo(candlesticks', taken)
            /\ ToSet(candlesticks') = (ToSet(candlesticks) \ {Last(candlesticks)}) \cup {e}
            /\ Last(candlesticks) \in ToSet(candlesticks)
            /\ Last(candlesticks).type = "candle"
        BY <1>1, <1>9, <2>1, <2>2, <3>1, StoresInPlace DEF StoreInv
      <4>2. Same(Last(candlesticks), e)
        BY <1>9, <3>1, <4>1 DEF Same
      <4> QED
        BY <4>1, <4>2
    <3>2. CASE ~(candlesticks # <<>> /\ Last(candlesticks).x = e.x)
      <4>1. /\ Ascending(candlesticks', "candle") /\ UpTo(candlesticks', taken)
            /\ ToSet(candlesticks') = (ToSet(candlesticks) \ {}) \cup {e}
        BY <1>1, <1>9, <2>1, <2>2, <3>2, Stores DEF StoreInv
      <4> QED
        BY <4>1
    <3> QED
      BY <3>1, <3>2
  <2>4. StoreInv'
    BY <1>5, <2>1, <2>2, <2>3 DEF StoreInv, FeedStores
  <2>5. PICK D \in SUBSET ToSet(candlesticks) :
          /\ \A d \in D : Same(d, e)
          /\ ToSet(candlesticks') = (ToSet(candlesticks) \ D) \cup {e}
    BY <2>3
  <2>6. \A d \in D : d.type = "candle"
    BY <1>6
  <2>7. AllStored' = (AllStored \ D) \cup {e}
    BY <1>7, <1>8, <2>2, <2>5, <2>6 DEF AllStored
  <2>8. \A f \in AllStored : f.type = e.type => f.n < e.n
    BY <1>7, <1>8, <1>9, <2>1, BelowSet DEF AllStored
  <2>9. D \in SUBSET AllStored
    BY DEF AllStored
  <2> HIDE DEF e
  <2>10. Takes(e)
    BY <2>5, <2>7, <2>8, <2>9 DEF Takes
  <2> QED
    BY <2>4, <2>10 DEF e
<1>10. CASE e.type = "indicators"
  <2>1. w = "feed" /\ e.n = taken /\ todo = "web" /\ Below(indicators, e.n)
        /\ stage'["orders"] = stage["orders"] /\ stage'["feed"] = "broadcast"
        /\ Below(candlesticks, taken)
    BY <1>1, <1>2, <1>3, <1>4, <1>10 DEF StoreInv, FeedStores
  <2>2. indicators' = Append(indicators, e) /\ orders' = orders
        /\ candlesticks' = candlesticks
    BY <1>1, <1>10 DEF StoreCandle, StoreIndicators, StoreOrder
  <2>3. /\ Ascending(indicators', "indicators") /\ UpTo(indicators', taken)
        /\ ToSet(indicators') = ToSet(indicators) \cup {e}
    BY <1>1, <1>10, <2>1, <2>2, Stores DEF StoreInv
  <2>4. StoreInv'
    BY <1>5, <2>1, <2>2, <2>3 DEF StoreInv, FeedStores
  <2>5. AllStored' = (AllStored \ {}) \cup {e}
    BY <2>2, <2>3 DEF AllStored
  <2>6. \A f \in AllStored : f.type = e.type => f.n < e.n
    BY <1>6, <1>8, <1>10, <2>1, BelowSet DEF AllStored
  <2> HIDE DEF e
  <2>7. Takes(e)
    BY <2>5, <2>6 DEF Takes
  <2> QED
    BY <2>4, <2>7 DEF e
<1>11. CASE e.type = "order"
  <2>1. w = "orders" /\ e.n = told /\ Below(orders, e.n)
        /\ stage'["feed"] = stage["feed"] /\ stage'["orders"] = "broadcast"
    BY <1>1, <1>2, <1>3, <1>4, <1>11 DEF StoreInv
  <2>2. orders' = Append(orders, e) /\ indicators' = indicators
        /\ candlesticks' = candlesticks
    BY <1>1, <1>11 DEF StoreCandle, StoreIndicators, StoreOrder
  <2>3. /\ Ascending(orders', "order") /\ UpTo(orders', told)
        /\ ToSet(orders') = ToSet(orders) \cup {e}
    BY <1>1, <1>11, <2>1, <2>2, Stores DEF StoreInv
  <2>4. StoreInv'
    BY <1>1, <1>5, <2>1, <2>2, <2>3 DEF StoreInv, FeedStores
  <2>5. AllStored' = (AllStored \ {}) \cup {e}
    BY <2>2, <2>3 DEF AllStored
  <2>6. \A f \in AllStored : f.type = e.type => f.n < e.n
    BY <1>6, <1>7, <1>11, <2>1, BelowSet DEF AllStored
  <2> HIDE DEF e
  <2>7. Takes(e)
    BY <2>5, <2>6 DEF Takes
  <2> QED
    BY <2>4, <2>7 DEF e
<1> QED
  BY <1>2, <1>4, <1>9, <1>10, <1>11

-----------------------------------------------------------------------------
(* The numbers of the events and the writers' calls.                       *)
LEMMA UpToBelow ==
  ASSUME NEW s \in Seq(Events), NEW n \in Nat, UpTo(s, n)
  PROVE  UpTo(s, n + 1) /\ Below(s, n + 1)
<1>1. \A i \in DOMAIN s : s[i] \in Events
  OBVIOUS
<1>2. \A i \in DOMAIN s : s[i].n \in Nat
  BY <1>1, EventType
<1> QED
  BY <1>2 DEF UpTo, Below

LEMMA NumbersKept ==
  ASSUME StoreInv, CallInv, UNCHANGED <<storeVars, call, stage, item, taken, todo, told>>
  PROVE  StoreInv' /\ CallInv'
BY DEF StoreInv, CallInv, FeedStores, AllStored, storeVars

LEMMA StoresType ==
  ASSUME ServerType
  PROVE  candlesticks \in Seq(Events) /\ indicators \in Seq(Events) /\ orders \in Seq(Events)
BY DEF ServerType

LEMMA WriterStage ==
  ASSUME ServerType, CallInv, NEW w \in Writer, NEW v \in Writer, v # w,
         stage[w] # "idle", stage[v] # "idle"
  PROVE  ~Same(call[v], call[w])
BY WriterConst DEF CallInv, Same

LEMMA NumbersOfStore ==
  ASSUME ServerType, StoreInv, CallInv, FeedType, NEW w \in Writer, Store(w),
         UNCHANGED <<feedVars, orderVars>>
  PROVE  StoreInv' /\ CallInv' /\ Takes(call[w])
<1>1. StoreInv' /\ Takes(call[w])
  BY StoreStep
<1>2. call' = call /\ stage' = [stage EXCEPT ![w] = "broadcast"] /\ stage[w] = "lock"
  BY DEF Store
<1>3. \A v \in Writer : stage'[v] # "idle" => stage[v] # "idle"
  BY <1>2 DEF ServerType
<1>4. ASSUME NEW v \in Writer, stage'[v] = "broadcast"
      PROVE  call'[v] \in AllStored'
  <2>1. CASE v = w
    BY <1>1, <1>2, <2>1 DEF Takes
  <2>2. CASE v # w
    <3>1. stage[v] = "broadcast"
      BY <1>2, <1>4, <2>2 DEF ServerType
    <3>2. call[v] \in AllStored
      BY <3>1 DEF CallInv
    <3>3. ~Same(call[v], call[w])
      BY <1>2, <2>2, <3>1, WriterStage
    <3> QED
      BY <1>1, <1>2, <3>2, <3>3 DEF Takes
  <2> QED
    BY <2>1, <2>2
<1>5. item' = item /\ taken' = taken /\ todo' = todo /\ told' = told
  BY DEF feedVars, orderVars
<1>6. CallInv'
  BY <1>2, <1>3, <1>4, <1>5, WriterConst DEF CallInv
<1> QED
  BY <1>1, <1>6

LEMMA NumbersOfBroadcast ==
  ASSUME ServerType, StoreInv, CallInv, NEW w \in Writer, broadcastSSE(w),
         UNCHANGED <<feedVars, orderVars>>
  PROVE  StoreInv' /\ CallInv'
<1>1. /\ candlesticks' = candlesticks /\ indicators' = indicators /\ orders' = orders
      /\ stage' = [stage EXCEPT ![w] = "idle"]
      /\ call' = [call EXCEPT ![w] = NoEvent]
      /\ item' = item /\ taken' = taken /\ todo' = todo /\ told' = told
  BY DEF broadcastSSE, storeVars, feedVars, orderVars
<1>2. \A v \in Writer : stage'[v] # "idle" => stage'[v] = stage[v] /\ call'[v] = call[v]
  BY <1>1 DEF ServerType
<1>3. StoreInv'
  BY <1>1, <1>2, WriterConst DEF StoreInv, FeedStores
<1>4. CallInv'
  BY <1>1, <1>2, WriterConst DEF CallInv, AllStored
<1> QED
  BY <1>3, <1>4

\* A call begins.
LEMMA NumbersOfOn ==
  ASSUME ServerType, NEW w \in Writer, NEW e, On(w, e)
  PROVE  /\ stage[w] = "idle" /\ stage'[w] = "lock" /\ call'[w] = e
         /\ \A v \in Writer : v # w => stage'[v] = stage[v] /\ call'[v] = call[v]
         /\ candlesticks' = candlesticks /\ indicators' = indicators /\ orders' = orders
         /\ AllStored' = AllStored
BY DEF On, ServerType, storeVars, AllStored

LEMMA CallsOfFeed ==
  ASSUME FeedType, ServerType, StoreInv, CallInv,
         NEW e \in Events, On("feed", e), e.n = item.n,
         UNCHANGED <<taken, item, told>>,
         \/ e.type = "candle" /\ todo = "web" /\ todo' = "none"
         \/ e.type = "indicators" /\ todo = "controller" /\ todo' = "web"
  PROVE  StoreInv' /\ CallInv'
<1>1. "feed" \in Writer /\ "orders" \in Writer /\ "feed" # "orders"
  BY WriterConst
<1>2. /\ stage["feed"] = "idle" /\ stage'["feed"] = "lock" /\ call'["feed"] = e
      /\ \A v \in Writer : v # "feed" => stage'[v] = stage[v] /\ call'[v] = call[v]
      /\ candlesticks' = candlesticks /\ indicators' = indicators /\ orders' = orders
      /\ AllStored' = AllStored
  BY <1>1, NumbersOfOn
<1>3. stage'["orders"] = stage["orders"] /\ call'["orders"] = call["orders"]
  BY <1>1, <1>2
<1>4. StoreInv'
  BY <1>2, <1>3 DEF StoreInv, FeedStores
<1>5. CallInv'
  BY <1>2, <1>3, WriterConst DEF CallInv
<1> QED
  BY <1>4, <1>5

LEMMA NumbersOfOrder ==
  ASSUME FeedType, ServerType, StoreInv, CallInv, OnOrder
  PROVE  StoreInv' /\ CallInv'
<1> DEFINE e == [type |-> "order", x |-> told + 1, n |-> told + 1]
<1>1. "feed" \in Writer /\ "orders" \in Writer /\ "feed" # "orders" /\ told \in Nat
  BY WriterConst DEF FeedType
<1>2. /\ On("orders", e) /\ told' = told + 1
      /\ item' = item /\ taken' = taken /\ todo' = todo
  BY DEF OnOrder, feedVars
<1>3. e.type = "order" /\ e.n = told + 1
  OBVIOUS
<1> HIDE DEF e
<1>4. /\ stage["orders"] = "idle" /\ stage'["orders"] = "lock" /\ call'["orders"] = e
      /\ \A v \in Writer : v # "orders" => stage'[v] = stage[v] /\ call'[v] = call[v]
      /\ candlesticks' = candlesticks /\ indicators' = indicators /\ orders' = orders
      /\ AllStored' = AllStored
  BY <1>1, <1>2, NumbersOfOn
<1>5. stage'["feed"] = stage["feed"] /\ call'["feed"] = call["feed"]
  BY <1>1, <1>4
<1>6. UpTo(orders, told + 1) /\ Below(orders, told + 1)
  BY <1>1, StoresType, UpToBelow DEF StoreInv
<1>7. StoreInv'
  BY <1>2, <1>4, <1>5, <1>6 DEF StoreInv, FeedStores
<1>8. CallInv'
  BY <1>2, <1>3, <1>4, <1>5, WriterConst DEF CallInv
<1> QED
  BY <1>7, <1>8

LEMMA NumbersOfHandOut ==
  ASSUME FeedInv, ServerType, StoreInv, CallInv, FeedHandsOut
  PROVE  StoreInv' /\ CallInv'
<1>1. /\ todo = "none" /\ stage["feed"] = "idle"
      /\ taken' = taken + 1 /\ item'.n = taken' /\ todo' # "none"
      /\ UNCHANGED <<controllerVars, serverVars, orderVars, past>>
  BY HandedOut
<1>2. /\ candlesticks' = candlesticks /\ indicators' = indicators /\ orders' = orders
      /\ stage' = stage /\ call' = call /\ told' = told
  BY <1>1 DEF serverVars, orderVars
<1>3. taken \in Nat
  BY DEF FeedInv, FeedType
<1>4. /\ UpTo(candlesticks, taken + 1) /\ Below(candlesticks, taken + 1)
      /\ UpTo(indicators, taken + 1) /\ Below(indicators, taken + 1)
  BY <1>3, StoresType, UpToBelow DEF StoreInv
<1>5. StoreInv'
  BY <1>1, <1>2, <1>4 DEF StoreInv, FeedStores
<1>6. CallInv'
  BY <1>1, <1>2 DEF CallInv, AllStored
<1> QED
  BY <1>5, <1>6

LEMMA ServerStepKeeps ==
  ASSUME NEW c \in Connection,
         Register(c) \/ RLock(c) \/ SendStored(c) \/ Forward(c) \/ Leave(c)
           \/ Disconnect(c) \/ Cleanup(c)
  PROVE  UNCHANGED <<storeVars, call, stage>>
BY DEF Register, RLock, SendStored, Forward, Leave, Disconnect, Cleanup

LEMMA CandleEvent ==
  ASSUME FeedType
  PROVE  [type |-> "candle", x |-> item.time, n |-> item.n] \in Events
<1>1. item.time \in Nat /\ item.n \in Nat
  BY DEF FeedType
<1> QED
  BY <1>1 DEF Events

LEMMA NumbersStep ==
  ASSUME FeedInv, ServerType, StoreInv, CallInv, [Next]_vars
  PROVE  StoreInv' /\ CallInv'
<1>0. FeedType
  BY DEF FeedInv
<1>1. CASE FeedHandsOut
  BY <1>1, NumbersOfHandOut
<1>2. CASE CallController
  <2>1. /\ \/ UNCHANGED serverVars
           \/ \E e \in Events : On("feed", e) /\ e.type = "indicators" /\ e.n = item.n
        /\ todo = "controller" /\ todo' = "web"
        /\ UNCHANGED <<past, bar, taken, item, told>>
    BY <1>2, CallControllerStep
  <2>2. CASE UNCHANGED serverVars
    <3>1. /\ candlesticks' = candlesticks /\ indicators' = indicators /\ orders' = orders
          /\ stage' = stage /\ call' = call
      BY <2>2 DEF serverVars
    <3>2. stage["feed"] = "idle"
      BY <2>1 DEF CallInv
    <3>3. StoreInv'
      BY <2>1, <3>1, <3>2 DEF StoreInv, FeedStores
    <3>4. CallInv'
      BY <2>1, <3>1, <3>2 DEF CallInv, AllStored
    <3> QED
      BY <3>3, <3>4
  <2>3. CASE \E e \in Events : On("feed", e) /\ e.type = "indicators" /\ e.n = item.n
    BY <1>0, <2>1, <2>3, CallsOfFeed
  <2> QED
    BY <2>1, <2>2, <2>3
<1>3. CASE CallWebServer
  <2> DEFINE e == [type |-> "candle", x |-> item.time, n |-> item.n]
  <2>1. /\ todo = "web" /\ On("feed", e) /\ todo' = "none"
        /\ UNCHANGED <<taken, item, told>>
    BY <1>3 DEF CallWebServer, orderVars
  <2>2. e \in Events /\ e.type = "candle" /\ e.n = item.n
    BY <1>0, CandleEvent
  <2> HIDE DEF e
  <2> QED
    BY <1>0, <2>1, <2>2, CallsOfFeed
<1>4. CASE OnOrder
  BY <1>0, <1>4, NumbersOfOrder
<1>5. CASE Start
  BY <1>5, NumbersKept DEF Start, serverVars, feedVars, orderVars, storeVars
<1>6. CASE ServerStep /\ UNCHANGED <<controllerVars, feedVars, orderVars>>
  <2>1. ASSUME NEW w \in Writer, Store(w) PROVE StoreInv' /\ CallInv'
    BY <1>0, <1>6, <2>1, NumbersOfStore
  <2>2. ASSUME NEW w \in Writer, broadcastSSE(w) PROVE StoreInv' /\ CallInv'
    BY <1>6, <2>2, NumbersOfBroadcast
  <2>3. ASSUME NEW c \in Connection,
               Register(c) \/ RLock(c) \/ SendStored(c) \/ Forward(c) \/ Leave(c)
                 \/ Disconnect(c) \/ Cleanup(c)
        PROVE  StoreInv' /\ CallInv'
    <3>1. UNCHANGED <<storeVars, call, stage>>
      BY <2>3, ServerStepKeeps
    <3> QED
      BY <1>6, <3>1, NumbersKept DEF feedVars, orderVars
  <2> QED
    BY <1>6, <2>1, <2>2, <2>3 DEF ServerStep
<1>7. CASE UNCHANGED vars
  BY <1>7, NumbersKept DEF vars, serverVars, feedVars, orderVars, storeVars
<1> QED
  BY <1>1, <1>2, <1>3, <1>4, <1>5, <1>6, <1>7, Steps

-----------------------------------------------------------------------------
(* What a step does to the pages: a call begins, a writer stores or        *)
(* broadcasts, a handler goes on, or nothing that they show changes.       *)
Quiet == UNCHANGED <<storeVars, Unsent, handlerVars, clientVars, gone>>

NumberInv == FeedInv /\ ServerType /\ StoreInv /\ CallInv

LEMMA QuietCall ==
  ASSUME ServerType, NEW w \in Writer, NEW e, On(w, e)
  PROVE  Quiet
<1>1. /\ stage[w] = "idle" /\ stage'[w] = "lock"
      /\ \A v \in Writer : v # w => stage'[v] = stage[v] /\ call'[v] = call[v]
  BY NumbersOfOn
<1>2. \A v \in Writer : stage'[v] = "broadcast" <=> stage[v] = "broadcast"
  BY <1>1
<1>3. \A v \in Writer : stage[v] = "broadcast" => call'[v] = call[v]
  BY <1>1
<1>4. Unsent' = Unsent
  BY <1>2, <1>3 DEF Unsent
<1> QED
  BY <1>4 DEF Quiet, On

LEMMA PageSteps ==
  ASSUME NumberInv, [Next]_vars
  PROVE  \/ Quiet /\ ServerType'
         \/ ServerStep /\ UNCHANGED <<feedVars, orderVars>> /\ ServerType'
<1>0. FeedType
  BY DEF NumberInv, FeedInv
<1>1. ASSUME UNCHANGED serverVars PROVE Quiet /\ ServerType'
  <2>1. UNCHANGED <<storeVars, call, stage, handlerVars, clientVars, gone>>
    BY <1>1 DEF serverVars, storeVars, handlerVars, clientVars
  <2>2. Unsent' = Unsent
    BY <2>1 DEF Unsent
  <2> QED
    BY <2>1, <2>2 DEF Quiet, NumberInv, ServerType, storeVars, handlerVars, clientVars
<1>2. ASSUME NEW w \in Writer, NEW e \in Events, On(w, e) PROVE Quiet /\ ServerType'
  BY <1>2, QuietCall, EventOfOn DEF NumberInv
<1>3. CASE FeedHandsOut
  BY <1>1, <1>3, HandedOut DEF NumberInv
<1>4. CASE CallController
  <2>1. "feed" \in Writer
    BY WriterConst
  <2> QED
    BY <1>1, <1>2, <1>4, <2>1, CallControllerStep DEF NumberInv
<1>5. CASE CallWebServer
  <2>1. "feed" \in Writer
    BY WriterConst
  <2> QED
    BY <1>0, <1>2, <1>5, <2>1, CandleEvent DEF CallWebServer
<1>6. CASE OnOrder
  <2>1. "orders" \in Writer /\ told \in Nat
    BY <1>0, WriterConst DEF FeedType
  <2>2. [type |-> "order", x |-> told + 1, n |-> told + 1] \in Events
    BY <2>1 DEF Events
  <2> QED
    BY <1>2, <1>6, <2>1, <2>2 DEF OnOrder
<1>7. CASE Start
  BY <1>1, <1>7 DEF Start
<1>8. CASE ServerStep /\ UNCHANGED <<controllerVars, feedVars, orderVars>>
  BY <1>8, TypeOfServerStep DEF NumberInv
<1>9. CASE UNCHANGED vars
  BY <1>1, <1>9 DEF vars
<1> QED
  BY <1>3, <1>4, <1>5, <1>6, <1>7, <1>8, <1>9, Steps

-----------------------------------------------------------------------------
(* Places.                                                                 *)
LEMMA PlacedStays ==
  ASSUME NEW w \in Writer, Takes(call[w]), NEW p, Placed(p, AllStored)
  PROVE  Placed(p, AllStored')
<1>1. PICK f \in AllStored : Same(p, f)
  BY DEF Placed
<1>2. PICK D \in SUBSET AllStored :
        (\A d \in D : Same(d, call[w])) /\ AllStored' = (AllStored \ D) \cup {call[w]}
  BY DEF Takes
<1>3. CASE f \in D
  <2>1. Same(p, call[w]) /\ call[w] \in AllStored'
    BY <1>1, <1>2, <1>3 DEF Same
  <2> QED
    BY <2>1 DEF Placed, Same
<1>4. CASE f \notin D
  BY <1>1, <1>2, <1>4 DEF Placed, Same
<1> QED
  BY <1>3, <1>4

LEMMA PlacedSelf ==
  ASSUME NEW e \in AllStored
  PROVE  Placed(e, AllStored)
BY DEF Placed, Same

LEMMA LatestOf ==
  ASSUME ServerType, StoreInv, NEW f \in AllStored
  PROVE  \E l \in Latest : Same(f, l)
<1>1. ToSet(Stored) = AllStored /\ Lasts(Stored) = Latest /\ Stored \in Seq(Events)
  BY StoredOrdered, StoredType DEF StoreInv
<1>2. PICK i \in DOMAIN Stored : f = Stored[i]
  BY <1>1 DEF ToSet
<1>3. PICK k \in DOMAIN Stored :
        /\ Same(Stored[i], Stored[k])
        /\ \A j \in DOMAIN Stored : Same(Stored[k], Stored[j]) => j <= k
  BY <1>1, LastOccurrence
<1>4. Stored[k] \in Lasts(Stored)
  BY <1>3 DEF Lasts
<1> QED
  BY <1>1, <1>2, <1>3, <1>4

\* A page that is sent what is stored shows the newest of it.
LEMMA StoredDrawn ==
  ASSUME ServerType, StoreInv, PlaceInv, NEW c \in Connection
  PROVE  /\ DrawAll(page[c], Stored) = Latest
         /\ Latest = Newest(AllStored)
<1>1. ToSet(Stored) = AllStored /\ Lasts(Stored) = Latest
  BY StoredOrdered DEF StoreInv
<1>2. \A p \in page[c] : \E l \in Latest : Same(p, l)
  <2> SUFFICES ASSUME NEW p \in page[c] PROVE \E l \in Latest : Same(p, l)
    OBVIOUS
  <2>1. PICK f \in AllStored : Same(p, f)
    BY DEF PlaceInv, Placed
  <2>2. PICK l \in Latest : Same(f, l)
    BY LatestOf
  <2> QED
    BY <2>1, <2>2 DEF Same
<1>3. Draw(page[c], Latest) = Latest
  BY <1>2, DrawOver
<1> QED
  BY <1>1, <1>3 DEF DrawAll, Latest

LEMMA NoneMissedIs ==
  ASSUME ServerType, StoreInv, PlaceInv
  PROVE  NoneMissed => NothingMissed
<1> SUFFICES ASSUME NoneMissed, NEW c \in sseClients \ (missed \cup gone)
             PROVE  LET drawn == IF at[c] = "stream" THEN page[c]
                                 ELSE DrawAll(page[c], Stored)
                    IN  Draw(DrawAll(drawn, channel[c]), Unsent) = Latest
  BY DEF NothingMissed
<1>1. c \in Connection
  BY DEF ServerType
<1>2. DrawAll(page[c], Stored) = Latest /\ Latest = Newest(AllStored)
  BY <1>1, StoredDrawn
<1>3. CaughtUp(c)
  BY DEF NoneMissed
<1>4. Base(c) = IF at[c] = "stream" THEN page[c] ELSE DrawAll(page[c], Stored)
  BY <1>2 DEF Base
<1> QED
  BY <1>2, <1>3, <1>4 DEF CaughtUp, DrawAll

LEMMA PlacedWhenStoresStay ==
  ASSUME UNCHANGED storeVars, NEW p, Placed(p, AllStored)
  PROVE  Placed(p, AllStored')
BY DEF Placed, AllStored, storeVars

\* A handler's step keeps what it shows and what is on its way in place.
LEMMA PlaceStep ==
  ASSUME NumberInv, PlaceInv, [Next]_vars
  PROVE  PlaceInv'
<1>0. ServerType /\ StoreInv /\ CallInv /\ FeedType
  BY DEF NumberInv, FeedInv
<1>1. ASSUME \A p : Placed(p, AllStored) => Placed(p, AllStored'),
             \A c \in Connection : \A e \in page'[c] : Placed(e, AllStored),
             \A c \in Connection : \A i \in DOMAIN channel'[c] :
               Placed(channel'[c][i], AllStored)
      PROVE  PlaceInv'
  BY <1>1 DEF PlaceInv
<1>2. ASSUME UNCHANGED <<page, channel>>, \A p : Placed(p, AllStored) => Placed(p, AllStored')
      PROVE  PlaceInv'
  BY <1>1, <1>2 DEF PlaceInv
<1>3. ASSUME UNCHANGED storeVars
      PROVE  \A p : Placed(p, AllStored) => Placed(p, AllStored')
  BY <1>3, PlacedWhenStoresStay
<1>4. CASE Quiet
  BY <1>2, <1>3, <1>4 DEF Quiet, handlerVars, clientVars
<1>5. ASSUME NEW w \in Writer, Store(w), UNCHANGED <<feedVars, orderVars>>
      PROVE  PlaceInv'
  <2>1. Takes(call[w])
    BY <1>0, <1>5, NumbersOfStore
  <2>2. \A p : Placed(p, AllStored) => Placed(p, AllStored')
    BY <2>1, PlacedStays
  <2> QED
    BY <1>2, <1>5, <2>2 DEF Store, handlerVars, clientVars
<1>6. ASSUME NEW w \in Writer, broadcastSSE(w)
      PROVE  PlaceInv'
  <2>1. page' = page /\ UNCHANGED storeVars /\ stage[w] = "broadcast"
    BY <1>6 DEF broadcastSSE, handlerVars
  <2>2. call[w] \in AllStored /\ call[w] \in Events
    BY <1>0, <2>1 DEF CallInv, ServerType
  <2>3. ASSUME NEW c \in Connection, NEW i \in DOMAIN channel'[c]
        PROVE  Placed(channel'[c][i], AllStored)
    <3>1. channel[c] \in Seq(Events)
      BY <1>0 DEF ServerType
    <3>2. CASE channel'[c] = channel[c]
      BY <2>3, <3>2 DEF PlaceInv
    <3>3. CASE channel'[c] = Append(channel[c], call[w])
      <4>1. i = Len(channel[c]) + 1 \/ i \in DOMAIN channel[c]
        BY <2>2, <2>3, <3>1, <3>3, Appended
      <4>2. CASE i = Len(channel[c]) + 1
        BY <2>2, <3>1, <3>3, <4>2, Appended, PlacedSelf
      <4>3. CASE i \in DOMAIN channel[c]
        <5>1. channel'[c][i] = channel[c][i]
          BY <2>2, <3>1, <3>3, <4>3, Appended
        <5> QED
          BY <4>3, <5>1 DEF PlaceInv
      <4> QED
        BY <4>1, <4>2, <4>3
    <3> QED
      BY <1>6, <3>2, <3>3 DEF broadcastSSE
  <2>4. \A c \in Connection : \A e \in page'[c] : Placed(e, AllStored)
    BY <2>1 DEF PlaceInv
  <2> QED
    BY <1>1, <1>3, <2>1, <2>3, <2>4
<1>7. ASSUME NEW c \in Connection, Register(c)
      PROVE  PlaceInv'
  <2>1. ASSUME NEW d \in Connection, NEW e \in page'[d] PROVE Placed(e, AllStored)
    <3>1. e \in page[d]
      BY <1>0, <1>7, <2>1 DEF Register, ServerType, Blank
    <3> QED
      BY <3>1 DEF PlaceInv
  <2>2. ASSUME NEW d \in Connection, NEW i \in DOMAIN channel'[d]
        PROVE  Placed(channel'[d][i], AllStored)
    <3>1. channel'[d] = <<>> \/ channel'[d] = channel[d]
      BY <1>0, <1>7 DEF Register, ServerType
    <3> QED
      BY <2>2, <3>1 DEF PlaceInv
  <2> QED
    BY <1>1, <1>3, <1>7, <2>1, <2>2 DEF Register
<1>8. ASSUME NEW c \in Connection, RLock(c) \/ Leave(c) \/ Disconnect(c) \/ Cleanup(c)
      PROVE  PlaceInv'
  BY <1>2, <1>3, <1>8 DEF RLock, Leave, Disconnect, Cleanup, handlerVars, clientVars
<1>9. ASSUME NEW c \in Connection, SendStored(c)
      PROVE  PlaceInv'
  <2>1. channel' = channel /\ UNCHANGED storeVars
    BY <1>9 DEF SendStored, clientVars
  <2>2. DrawAll(page[c], Stored) = Newest(AllStored)
    BY <1>0, StoredDrawn
  <2>3. ASSUME NEW d \in Connection, NEW e \in page'[d] PROVE Placed(e, AllStored)
    <3>1. e \in page[d] \/ e \in Newest(AllStored)
      BY <1>0, <1>9, <2>2, <2>3 DEF SendStored, ServerType
    <3>2. e \in Newest(AllStored) => e \in AllStored
      BY DEF Newest
    <3> QED
      BY <3>1, <3>2, PlacedSelf DEF PlaceInv
  <2>4. \A d \in Connection : \A i \in DOMAIN channel'[d] : Placed(channel'[d][i], AllStored)
    BY <2>1 DEF PlaceInv
  <2> QED
    BY <1>1, <1>3, <2>1, <2>3, <2>4
<1>10. ASSUME NEW c \in Connection, Forward(c)
       PROVE  PlaceInv'
  <2>0. channel[c] \in Seq(Events) /\ channel[c] # <<>>
    BY <1>0, <1>10 DEF Forward, ServerType
  <2> DEFINE h == Head(channel[c])
             u == Tail(channel[c])
  <2>1. /\ UNCHANGED storeVars
        /\ channel' = [channel EXCEPT ![c] = u]
        /\ page' = IF c \in gone THEN page ELSE [page EXCEPT ![c] = Draw(page[c], {h})]
    BY <1>10 DEF Forward
  <2>2. /\ u \in Seq(Events) /\ Len(channel[c]) \in Nat \ {0} /\ Len(u) = Len(channel[c]) - 1
        /\ h = channel[c][1] /\ \A i \in 1..(Len(channel[c]) - 1) : u[i] = channel[c][i + 1]
    BY <2>0, HeadTail
  <2>3. DOMAIN channel[c] = 1..Len(channel[c]) /\ DOMAIN u = 1..(Len(channel[c]) - 1)
    BY <2>0, <2>2
  <2> HIDE DEF h, u
  <2>4. 1 \in DOMAIN channel[c] /\ \A i \in DOMAIN u : i + 1 \in DOMAIN channel[c]
    BY <2>2, <2>3
  <2>5. Placed(h, AllStored) /\ \A i \in DOMAIN u : Placed(u[i], AllStored)
    BY <2>2, <2>3, <2>4 DEF PlaceInv
  <2>6. ASSUME NEW d \in Connection, NEW e \in page'[d] PROVE Placed(e, AllStored)
    <3>1. page'[d] = page[d] \/ page'[d] = Draw(page[d], {h})
      BY <1>0, <2>1 DEF ServerType
    <3>2. e \in page[d] \/ e = h
      BY <2>6, <3>1 DEF Draw
    <3> QED
      BY <2>5, <3>2 DEF PlaceInv
  <2>7. ASSUME NEW d \in Connection, NEW i \in DOMAIN channel'[d]
        PROVE  Placed(channel'[d][i], AllStored)
    <3>1. channel'[d] = channel[d] \/ channel'[d] = u
      BY <1>0, <2>1 DEF ServerType
    <3> QED
      BY <2>5, <2>7, <3>1 DEF PlaceInv
  <2> QED
    BY <1>1, <1>3, <2>1, <2>6, <2>7
<1> QED
  BY <1>4, <1>5, <1>6, <1>7, <1>8, <1>9, <1>10, PageSteps DEF ServerStep

-----------------------------------------------------------------------------
\* The clean-up and the clients.
LEMMA ClosedStep ==
  ASSUME NumberInv, ClosedInv, [Next]_vars
  PROVE  ClosedInv'
<1>1. CASE Quiet
  BY <1>1 DEF Quiet, ClosedInv, clientVars
<1>2. ASSUME NEW w \in Writer, Store(w) \/ broadcastSSE(w) PROVE ClosedInv'
  <2>1. CASE Store(w)
    BY <2>1 DEF Store, ClosedInv, clientVars
  <2>2. CASE broadcastSSE(w)
    <3>1. ~(\E c \in sseClients : c \in closed)
      BY DEF ClosedInv
    <3>2. /\ panicked' = (panicked \/ \E c \in sseClients : c \in closed)
          /\ sseClients' = sseClients /\ closed' = closed
      BY <2>2 DEF broadcastSSE
    <3> QED
      BY <3>1, <3>2 DEF ClosedInv
  <2> QED
    BY <1>2, <2>1, <2>2
<1>3. ASSUME NEW c \in Connection,
             Register(c) \/ RLock(c) \/ SendStored(c) \/ Forward(c) \/ Leave(c)
               \/ Disconnect(c) \/ Cleanup(c)
      PROVE  ClosedInv'
  BY <1>3 DEF Register, RLock, SendStored, Forward, Leave, Disconnect, Cleanup, ClosedInv,
              clientVars
<1> QED
  BY <1>1, <1>2, <1>3, PageSteps DEF ServerStep

-----------------------------------------------------------------------------
(* Nothing is missed.                                                      *)
Inv == NumberInv /\ PlaceInv /\ ClosedInv /\ NoneMissed

LEMMA MissedQuiet ==
  ASSUME NoneMissed, Quiet
  PROVE  NoneMissed'
BY DEF Quiet, NoneMissed, CaughtUp, Base, AllStored, storeVars, handlerVars, clientVars

\* A step of a handler that adds no client and shows no other events keeps
\* the pages caught up.
LEMMA MissedKept ==
  ASSUME NoneMissed, UNCHANGED <<storeVars, call, stage, channel, page, missed>>,
         sseClients' \subseteq sseClients, gone \subseteq gone',
         \A d \in sseClients' \ (missed' \cup gone') : at'[d] = "stream" <=> at[d] = "stream"
  PROVE  NoneMissed'
<1> SUFFICES ASSUME NEW d \in sseClients' \ (missed' \cup gone') PROVE CaughtUp(d)'
  BY DEF NoneMissed
<1>1. CaughtUp(d)
  BY DEF NoneMissed
<1>2. AllStored' = AllStored /\ Unsent' = Unsent
  BY DEF AllStored, Unsent, storeVars
<1>3. Base(d)' = Base(d)
  BY <1>2 DEF Base
<1> QED
  BY <1>1, <1>2, <1>3 DEF CaughtUp

LEMMA MissedByStore ==
  ASSUME Inv, NEW w \in Writer, Store(w), UNCHANGED <<feedVars, orderVars>>
  PROVE  NoneMissed'
<1> DEFINE e == call[w]
           L == Newest(AllStored)
<1>0. ServerType /\ StoreInv /\ CallInv /\ FeedType
  BY DEF Inv, NumberInv, FeedInv
<1>1. /\ stage[w] = "lock" /\ stage' = [stage EXCEPT ![w] = "broadcast"] /\ call' = call
      /\ UNCHANGED <<at, page, channel, sseClients, missed, gone>>
  BY DEF Store, handlerVars, clientVars
<1>2. e \in Events /\ AllStored \in SUBSET Events
  BY <1>0, StoredOrdered DEF ServerType, StoreInv
<1>3. Takes(e)
  BY <1>0, NumbersOfStore
<1>4. Newest(AllStored') = Draw(L, {e})
  <2>1. PICK D \in SUBSET AllStored :
          (\A d \in D : Same(d, e)) /\ AllStored' = (AllStored \ D) \cup {e}
    BY <1>3 DEF Takes
  <2>2. \A f \in AllStored : Same(f, e) => f.n < e.n
    BY <1>3 DEF Takes, Same
  <2> QED
    BY <1>2, <2>1, <2>2, NewestReplaced
<1>5. Unsent' = Draw(Unsent, {e})
  <2>1. \A v \in Writer : stage'[v] = "broadcast" <=> stage[v] = "broadcast" \/ v = w
    BY <1>0, <1>1 DEF ServerType
  <2>2. Unsent' = Unsent \cup {e}
    BY <1>1, <2>1 DEF Unsent
  <2>3. \A u \in Unsent : ~Same(u, e)
    <3>1. \A v \in Writer : stage[v] = "broadcast" => v # w /\ stage[v] # "idle"
      BY <1>1
    <3>2. \A v \in Writer : stage[v] = "broadcast" => ~Same(call[v], e)
      BY <1>0, <1>1, <3>1, WriterStage
    <3> QED
      BY <3>2 DEF Unsent
  <2> QED
    BY <2>2, <2>3, DrawApart
<1> HIDE DEF e
<1> SUFFICES ASSUME NEW c \in sseClients \ (missed \cup gone) PROVE CaughtUp(c)'
  BY <1>1 DEF NoneMissed
<1>6. CaughtUp(c)
  BY DEF Inv, NoneMissed
<1> DEFINE B == Lasts(channel[c])
<1>7. channel'[c] = channel[c]
  BY <1>1
<1>8. CASE at[c] = "stream"
  <2>1. Base(c)' = page[c] /\ Base(c) = page[c]
    BY <1>1, <1>8 DEF Base
  <2>2. Draw(Draw(page[c], B), Unsent) = L
    BY <1>6, <2>1 DEF CaughtUp
  <2>3. Draw(Draw(page[c], B), Draw(Unsent, {e})) = Draw(L, {e})
    BY <2>2, DrawTwice
  <2> QED
    BY <1>4, <1>5, <1>7, <2>1, <2>3 DEF CaughtUp
<1>9. CASE at[c] # "stream"
  <2>1. Base(c)' = Draw(L, {e}) /\ Base(c) = L
    BY <1>1, <1>4, <1>9 DEF Base
  <2>2. Draw(Draw(L, B), Unsent) = L
    BY <1>6, <2>1 DEF CaughtUp
  <2> HIDE DEF L, B
  <2>3. Draw(L, Draw(B, Unsent)) = L
    BY <2>2, DrawTwice
  <2>4. Draw(Draw(Draw(L, {e}), Draw(B, Unsent)), {e}) = Draw(Draw(L, Draw(B, Unsent)), {e})
    BY DrawBefore
  <2>5. Draw(Draw(Draw(L, {e}), Draw(B, Unsent)), {e}) = Draw(L, {e})
    BY <2>3, <2>4
  <2>6. Draw(Draw(L, {e}), Draw(B, Unsent)) = Draw(Draw(Draw(L, {e}), B), Unsent)
    BY DrawTwice
  <2>7. Draw(Draw(Draw(L, {e}), B), Draw(Unsent, {e})) = Draw(L, {e})
    BY <2>5, <2>6, DrawTwice
  <2> QED
    BY <1>4, <1>5, <1>7, <2>1, <2>7 DEF CaughtUp, L, B
<1> QED
  BY <1>8, <1>9

LEMMA MissedByBroadcast ==
  ASSUME Inv, NEW w \in Writer, broadcastSSE(w)
  PROVE  NoneMissed'
<1> DEFINE e == call[w]
           L == Newest(AllStored)
<1>0. ServerType /\ StoreInv /\ CallInv
  BY DEF Inv, NumberInv
<1>1. /\ stage[w] = "broadcast" /\ stage' = [stage EXCEPT ![w] = "idle"]
      /\ call' = [call EXCEPT ![w] = NoEvent]
      /\ UNCHANGED <<at, page, sseClients, gone>>
      /\ missed' = missed \cup {c \in sseClients : Full(c)}
      /\ AllStored' = AllStored
  BY DEF broadcastSSE, handlerVars, storeVars, AllStored
<1>2. e \in Events
  BY <1>0 DEF ServerType
<1>3. Draw({e}, Unsent') = Unsent
  <2>1. \A v \in Writer : stage[v] = "broadcast" <=> stage'[v] = "broadcast" \/ v = w
    BY <1>0, <1>1 DEF ServerType
  <2>2. \A v \in Writer : stage'[v] = "broadcast" => v # w /\ call'[v] = call[v]
    BY <1>0, <1>1 DEF ServerType
  <2>3. Unsent = Unsent' \cup {e}
    BY <2>1, <2>2 DEF Unsent
  <2>4. \A u \in Unsent' : ~Same(u, e)
    <3>1. \A v \in Writer : stage'[v] = "broadcast" => ~Same(call[v], e)
      BY <1>0, <1>1, <2>1, <2>2, WriterStage
    <3> QED
      BY <2>2, <3>1 DEF Unsent
  <2> QED
    BY <2>3, <2>4, DrawApart
<1> HIDE DEF e
<1> SUFFICES ASSUME NEW c \in sseClients \ (missed' \cup gone) PROVE CaughtUp(c)'
  BY <1>1 DEF NoneMissed
<1>4. c \in Connection /\ c \notin missed /\ ~Full(c) /\ c \notin closed
  BY <1>0, <1>1 DEF ServerType, Inv, ClosedInv
<1>5. CaughtUp(c)
  BY <1>4 DEF Inv, NoneMissed
<1>6. channel'[c] = Append(channel[c], e) /\ channel[c] \in Seq(Events)
  BY <1>0, <1>4 DEF broadcastSSE, ServerType, e
<1> DEFINE A == Base(c)
           B == Lasts(channel[c])
<1>7. Base(c)' = A
  BY <1>1 DEF Base
<1>8. Lasts(channel'[c]) = Draw(B, {e})
  BY <1>2, <1>6, LastsAppend
<1>9. Draw(Draw(A, B), Unsent) = L
  BY <1>5 DEF CaughtUp
<1> HIDE DEF A, B, L
<1>10. Draw(Draw(A, Draw(B, {e})), Unsent') = L
  <2>1. Draw(A, Draw(B, {e})) = Draw(Draw(A, B), {e})
    BY DrawTwice
  <2>2. Draw(Draw(Draw(A, B), {e}), Unsent') = Draw(Draw(A, B), Draw({e}, Unsent'))
    BY DrawTwice
  <2> QED
    BY <1>3, <1>9, <2>1, <2>2
<1> QED
  BY <1>1, <1>7, <1>8, <1>10 DEF CaughtUp, L

LEMMA MissedByRegister ==
  ASSUME Inv, NEW c \in Connection, Register(c)
  PROVE  NoneMissed'
<1>0. ServerType /\ StoreInv /\ CallInv
  BY DEF Inv, NumberInv
<1>1. /\ at' = [at EXCEPT ![c] = "registered"] /\ channel' = [channel EXCEPT ![c] = <<>>]
      /\ sseClients' = sseClients \cup {c} /\ gone' = gone \ {c} /\ missed' = missed \ {c}
      /\ page' \in {page, [page EXCEPT ![c] = Blank]}
      /\ AllStored' = AllStored /\ Unsent' = Unsent
  BY DEF Register, AllStored, Unsent, storeVars
<1> SUFFICES ASSUME NEW d \in sseClients' \ (missed' \cup gone') PROVE CaughtUp(d)'
  BY DEF NoneMissed
<1>2. CASE d = c
  <2>1. Base(d)' = Newest(AllStored) /\ channel'[d] = <<>>
    BY <1>0, <1>1, <1>2 DEF Base, ServerType
  <2>2. \A u \in Unsent : u \in Newest(AllStored)
    <3> SUFFICES ASSUME NEW v \in Writer, stage[v] = "broadcast"
                 PROVE  call[v] \in Newest(AllStored)
      BY DEF Unsent
    <3>1. call[v] \in AllStored
      BY <1>0 DEF CallInv
    <3>2. \/ v = "feed" /\ call[v].n = taken /\ call[v].type \in {"candle", "indicators"}
          \/ v = "orders" /\ call[v].n = told /\ call[v].type = "order"
      BY <1>0, WriterConst DEF CallInv
    <3>3. /\ \A f \in ToSet(candlesticks) : f.type = "candle" /\ f.n <= taken
          /\ \A f \in ToSet(indicators) : f.type = "indicators" /\ f.n <= taken
          /\ \A f \in ToSet(orders) : f.type = "order" /\ f.n <= told
      BY <1>0 DEF StoreInv, Ascending, UpTo, ToSet
    <3>4. \A f \in AllStored : Same(call[v], f) => f.n <= call[v].n
      BY <3>2, <3>3 DEF AllStored, Same
    <3> QED
      BY <3>1, <3>4 DEF Newest
  <2>3. Draw(Newest(AllStored), Unsent) = Newest(AllStored)
    <3>0. AllStored \in SUBSET Events
      BY <1>0, StoredOrdered DEF StoreInv
    <3>1. \A p \in Newest(AllStored) : \A u \in Unsent : Same(p, u) => p = u
      <4> SUFFICES ASSUME NEW p \in Newest(AllStored), NEW u \in Unsent, Same(p, u)
                   PROVE  p = u
        OBVIOUS
      <4>1. /\ p \in Events /\ u \in Events /\ p \in AllStored /\ u \in AllStored
            /\ u \in Newest(AllStored)
        BY <2>2, <3>0 DEF Newest
      <4>2. Same(u, p)
        BY DEF Same
      <4>3. u.n <= p.n /\ p.n <= u.n
        BY <4>1, <4>2 DEF Newest
      <4>4. p.n = u.n
        BY <4>1, <4>3, EventType
      <4> QED
        BY <4>1, <4>4 DEF Same, Events
    <3> QED
      BY <2>2, <3>1 DEF Draw
  <2>4. Draw(Draw(Newest(AllStored), Lasts(<<>>)), Unsent) = Newest(AllStored)
    BY <2>3, DrawNothing
  <2> QED
    BY <1>1, <2>1, <2>4 DEF CaughtUp
<1>3. CASE d # c
  <2>1. d \in sseClients \ (missed \cup gone) /\ d \in Connection
    BY <1>0, <1>1, <1>3 DEF ServerType
  <2>2. CaughtUp(d)
    BY <2>1 DEF Inv, NoneMissed
  <2>3. at'[d] = at[d] /\ page'[d] = page[d] /\ channel'[d] = channel[d]
    BY <1>0, <1>1, <1>3, <2>1 DEF ServerType
  <2> QED
    BY <1>1, <2>2, <2>3 DEF CaughtUp, Base
<1> QED
  BY <1>2, <1>3

LEMMA MissedByHandler ==
  ASSUME Inv, NEW c \in Connection,
         RLock(c) \/ SendStored(c) \/ Forward(c) \/ Leave(c) \/ Disconnect(c) \/ Cleanup(c)
  PROVE  NoneMissed'
<1>0. ServerType /\ StoreInv /\ PlaceInv /\ NoneMissed
  BY DEF Inv, NumberInv
<1>1. CASE RLock(c)
  BY <1>0, <1>1, MissedKept DEF RLock, clientVars, ServerType
<1>2. CASE Leave(c)
  BY <1>0, <1>2, MissedKept DEF Leave, clientVars, ServerType, Inv, ClosedInv
<1>3. CASE Disconnect(c)
  BY <1>0, <1>3, MissedKept DEF Disconnect, clientVars, handlerVars
<1>4. CASE Cleanup(c)
  BY <1>0, <1>4, MissedKept DEF Cleanup, handlerVars
<1>5. CASE SendStored(c)
  <2>1. /\ at[c] = "snapshot" /\ at' = [at EXCEPT ![c] = "stream"]
        /\ page' = IF c \in gone THEN page ELSE [page EXCEPT ![c] = DrawAll(page[c], Stored)]
        /\ UNCHANGED <<channel, sseClients, missed, gone>>
        /\ AllStored' = AllStored /\ Unsent' = Unsent
    BY <1>5 DEF SendStored, clientVars, storeVars, AllStored, Unsent
  <2> SUFFICES ASSUME NEW d \in sseClients \ (missed \cup gone) PROVE CaughtUp(d)'
    BY <2>1 DEF NoneMissed
  <2>2. CaughtUp(d) /\ d \in Connection
    BY <1>0 DEF NoneMissed, ServerType
  <2>3. Base(d)' = Base(d)
    <3>1. CASE d = c
      <4>1. at'[d] = "stream" /\ page'[d] = DrawAll(page[c], Stored)
        BY <1>0, <2>1, <2>2, <3>1 DEF ServerType
      <4>2. DrawAll(page[c], Stored) = Newest(AllStored)
        BY <1>0, StoredDrawn
      <4> QED
        BY <2>1, <3>1, <4>1, <4>2 DEF Base
    <3>2. CASE d # c
      BY <1>0, <2>1, <2>2, <3>2 DEF Base, ServerType
    <3> QED
      BY <3>1, <3>2
  <2> QED
    BY <2>1, <2>2, <2>3 DEF CaughtUp
<1>6. CASE Forward(c)
  <2> DEFINE h == Head(channel[c])
             u == Tail(channel[c])
  <2>1. /\ at[c] = "stream" /\ at' = at /\ channel[c] # <<>>
        /\ channel' = [channel EXCEPT ![c] = u]
        /\ page' = IF c \in gone THEN page ELSE [page EXCEPT ![c] = Draw(page[c], {h})]
        /\ UNCHANGED <<sseClients, missed, gone>>
        /\ AllStored' = AllStored /\ Unsent' = Unsent
    BY <1>6 DEF Forward, storeVars, AllStored, Unsent
  <2> HIDE DEF h, u
  <2> SUFFICES ASSUME NEW d \in sseClients \ (missed \cup gone) PROVE CaughtUp(d)'
    BY <2>1 DEF NoneMissed
  <2>2. CaughtUp(d) /\ d \in Connection
    BY <1>0 DEF NoneMissed, ServerType
  <2>3. CASE d = c
    <3>1. Base(d) = page[c] /\ Base(d)' = Draw(page[c], {h}) /\ channel'[d] = u
      BY <1>0, <2>1, <2>2, <2>3 DEF Base, ServerType
    <3>2. Lasts(channel[c]) = Draw({h}, Lasts(u))
      BY <1>0, <2>1, LastsHead DEF ServerType, h, u
    <3>3. Draw(Draw(page[c], {h}), Lasts(u)) = Draw(page[c], Lasts(channel[c]))
      BY <3>2, DrawTwice
    <3> QED
      BY <2>1, <2>2, <2>3, <3>1, <3>3 DEF CaughtUp
  <2>4. CASE d # c
    <3>1. channel'[d] = channel[d] /\ page'[d] = page[d] /\ at'[d] = at[d]
      BY <1>0, <2>1, <2>2, <2>4 DEF ServerType
    <3> QED
      BY <2>1, <2>2, <3>1 DEF CaughtUp, Base
  <2> QED
    BY <2>3, <2>4
<1> QED
  BY <1>1, <1>2, <1>3, <1>4, <1>5, <1>6

LEMMA InvInit == Init => Inv
<1> SUFFICES ASSUME Init PROVE Inv
  OBVIOUS
<1>1. FeedInv
  BY FeedInit
<1>2. /\ candlesticks = <<>> /\ indicators = <<>> /\ orders = <<>>
      /\ call = [w \in Writer |-> NoEvent] /\ stage = [w \in Writer |-> "idle"]
      /\ readers = {} /\ sseClients = {} /\ channel = [c \in Connection |-> <<>>]
      /\ closed = {} /\ panicked = FALSE /\ at = [c \in Connection |-> "none"]
      /\ gone = {} /\ page = [c \in Connection |-> Blank] /\ missed = {}
  BY DEF Init, ServerInit
<1>3. ServerType
  <2>1. NoEvent \in Events /\ <<>> \in Seq(Events) /\ Len(<<>>) = 0 /\ Blank \in SUBSET Events
    BY DEF NoEvent, Events, Blank
  <2>2. \A c \in Connection : Len(channel[c]) <= Capacity
    BY <1>2, <2>1, CapacityNat
  <2> QED
    BY <1>2, <2>1, <2>2 DEF ServerType
<1>4. StoreInv
  <2>1. \A w \in Writer : stage[w] = "idle"
    BY <1>2
  <2>2. todo = "none" /\ "feed" \in Writer /\ "orders" \in Writer
    BY WriterConst DEF Init
  <2> QED
    BY <1>2, <2>1, <2>2 DEF StoreInv, FeedStores, Ascending, UpTo
<1>5. CallInv
  BY <1>2, WriterConst DEF CallInv, Init
<1>6. PlaceInv
  BY <1>2 DEF PlaceInv, Blank
<1>7. ClosedInv /\ NoneMissed
  BY <1>2 DEF ClosedInv, NoneMissed
<1> QED
  BY <1>1, <1>3, <1>4, <1>5, <1>6, <1>7 DEF Inv, NumberInv

LEMMA InvStep == Inv /\ [Next]_vars => Inv'
<1> SUFFICES ASSUME Inv, [Next]_vars PROVE Inv'
  OBVIOUS
<1>1. NumberInv /\ PlaceInv /\ ClosedInv /\ NoneMissed
  BY DEF Inv
<1>2. FeedInv'
  BY <1>1, FeedInvStep DEF NumberInv
<1>3. StoreInv' /\ CallInv'
  BY <1>1, NumbersStep DEF NumberInv
<1>4. ServerType'
  BY <1>1, PageSteps
<1>5. PlaceInv' /\ ClosedInv'
  BY <1>1, PlaceStep, ClosedStep
<1>6. NoneMissed'
  BY <1>1, PageSteps, MissedQuiet, MissedByStore, MissedByBroadcast, MissedByRegister,
     MissedByHandler DEF ServerStep
<1> QED
  BY <1>2, <1>3, <1>4, <1>5, <1>6 DEF Inv, NumberInv

(* What the bot's goroutines keep has its type; the channel of a           *)
(* connection holds at most its capacity, and the lock for reading is held *)
(* by the handlers in the snapshot (webserver/webserver.go:157).           *)
THEOREM TypeCorrect == Spec => []TypeOK
<1>1. Inv => TypeOK
  <2> SUFFICES ASSUME FeedType, ControllerType, ServerType PROVE TypeOK
    BY DEF Inv, NumberInv, FeedInv
  <2>1. {started, seen, panicked} \subseteq BOOLEAN
    BY DEF ControllerType, ServerType
  <2> QED
    BY <2>1 DEF TypeOK, FeedType, ControllerType, ServerType
<1> QED
  BY <1>1, InvInit, InvStep, PTL DEF Spec

(* No event is sent to a closed channel (webserver/webserver.go:124): the  *)
(* clean-up takes the channel from the clients before it closes it.        *)
THEOREM NoSendToClosed == Spec => []NeverSentToClosed
<1>1. Inv => NeverSentToClosed
  BY DEF Inv, ClosedInv, NeverSentToClosed
<1> QED
  BY <1>1, InvInit, InvStep, PTL DEF Spec

(* A connected page misses nothing (webserver/webserver.go:133): with the  *)
(* events on their way it shows each bar at its last revision, all         *)
(* indicators and all orders, whenever it connects and loses its           *)
(* connection, unless its channel was full.                                *)
THEOREM PagesMissNothing == Spec => []NothingMissed
<1>1. Inv => NothingMissed
  BY NoneMissedIs DEF Inv, NumberInv
<1> QED
  BY <1>1, InvInit, InvStep, PTL DEF Spec
=============================================================================
