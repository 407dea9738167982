-------------------------- MODULE CandleAggregator --------------------------
(***************************************************************************)
(* CandleAggregator of exchange/upbit.go: folds the one-second candles of  *)
(* the websocket into bars of one timeframe.  A bar is abstracted to the   *)
(* set of candles it aggregates: its open, high, low, close and volume are *)
(* functions of that set, and its volume is positive exactly when the set  *)
(* is not empty, since the exchange sends a candle for a second with       *)
(* trades.  The exchange sends a second several times, each revision       *)
(* replacing the one before, in the order of time.                         *)
(*                                                                         *)
(* CandlesSubscription enters the aggregator into the map, sets its key    *)
(* and pushes the candle of the running interval, with requests between    *)
(* them and without a lock, while the websocket's goroutine already pushes *)
(* to it.  Each of the three, and each push, is a step.                    *)
(***************************************************************************)
EXTENDS Integers, Sequences

CONSTANTS
  Duration, \* of the timeframes in seconds; 0 for "1s"
  Day,      \* seconds between two midnights in Seoul
  Horizon,  \* bound: the last second modelled
  Rev       \* revisions of a one-second candle

ASSUME CandleAssumption ==
  /\ Duration \subseteq Nat
  /\ Day \in Nat \ {0}
  /\ Horizon \in Nat
  /\ Rev \subseteq Nat \ {0}

Second    == 0..Horizon
NoKey     == -1  \* currentKey.IsZero()
Preloaded == 0   \* the revision of the period candle fetched by REST
Candle    == [time : Second, rev : Rev]
Bar       == SUBSET [time : Int, rev : Rev \cup {Preloaded}]

VARIABLES
  D,           \* duration of the aggregator's timeframe
  stage,       \* where CandlesSubscription is
  currentKey,  \* end of the interval being formed
  buffer,      \* candles by second
  partial,     \* the last incomplete bar sent to candleCh
  finals,      \* history: the complete bars sent to candleCh
  last,        \* history: the latest revision of every second pushed
  newest,      \* history: time of the newest candle pushed
  base,        \* history: start of the interval CandlesSubscription fetches
  late,        \* history: its candle came when the interval was closed
  closedAt     \* history: starts of the intervals closed so far

vars == <<D, stage, currentKey, buffer, partial, finals, last, newest, base,
          late, closedAt>>

-----------------------------------------------------------------------------
TruncateKST(t) ==
  LET midnight == (t \div Day) * Day
  IN  IF D = 0 THEN t ELSE midnight + ((t - midnight) \div D) * D

initCurrentKey(t) ==
  IF TruncateKST(t) = t THEN t ELSE TruncateKST(t) + D

\* A later candle of a second replaces the earlier one.
Store(candles, c) == {x \in candles : x.time # c.time} \cup {c}

buildPartialCandle(candles, start, now) ==
  {x \in candles : start <= x.time /\ x.time < now}

aggregateBuffer(candles, start) ==
  {x \in candles : start < x.time /\ x.time < start + D}

\* Mutants: the whole buffer is cleared; the first second of the interval
\* stays.
RemoveAll(candles, start) == {}
RemoveTooFew(candles, start) ==
  {x \in candles : ~(start < x.time /\ x.time < start + D)}

removeOldSeconds(candles, start) ==
  {x \in candles : ~(start <= x.time /\ x.time < start + D)}

-----------------------------------------------------------------------------
Init ==
  /\ D \in Duration
  /\ stage = "none"
  /\ currentKey = NoKey
  /\ buffer = {}
  /\ partial = [start |-> 0, time |-> 0, bar |-> {}]
  /\ finals = <<>>
  /\ last = {}
  /\ newest = 0
  /\ base = 0
  /\ late = FALSE
  /\ closedAt = {}

\* CandlesSubscription enters the aggregator into the map of the websocket...
Register ==
  /\ stage = "none"
  /\ stage' = "registered"
  /\ UNCHANGED <<D, currentKey, buffer, partial, finals, last, newest, base,
                 late, closedAt>>

\* ... sets its key by the clock, which is not behind the exchange's...
InitKey(now) ==
  LET k == initCurrentKey(now) IN
  /\ stage = "registered"
  /\ k >= currentKey
  /\ stage' = IF D = 0 THEN "done" ELSE "fetching"
  /\ currentKey' = k
  /\ base' = k - D
  /\ UNCHANGED <<D, buffer, partial, finals, last, newest, late, closedAt>>

\* ... and pushes the candle of the running interval, if the exchange has one,
\* as the second at its start.  What this push returns is dropped; it closes
\* nothing, its time being before the key.
Preload(found) ==
  /\ stage = "fetching"
  /\ stage' = "done"
  /\ buffer' = IF found THEN Store(buffer, [time |-> base, rev |-> Preloaded])
                        ELSE buffer
  /\ late' = (found /\ currentKey > base + D)
  /\ UNCHANGED <<D, currentKey, partial, finals, last, newest, base, closedAt>>

\* Nobody receives from candleCh before CandlesSubscription has returned: the
\* first bar that is sent holds the websocket up until then.
HeldUp == stage # "done" /\ (partial.bar # {} \/ finals # <<>>)

\* push1sCandle sets the key by the candle when there is none yet.
KeyAt(c) == IF currentKey = NoKey THEN initCurrentKey(c.time) ELSE currentKey

Sent(bar, start) ==
  IF bar = {} THEN finals ELSE Append(finals, [time |-> start, bar |-> bar])

\* Mutant: only the first candle of a second is sent.
PushSecondOnce(c) ==
  /\ D = 0
  /\ buffer' = Store(buffer, c)
  /\ finals' = IF \E x \in buffer : x.time = c.time THEN finals
                                                  ELSE Sent({c}, c.time)
  /\ UNCHANGED <<currentKey, partial, closedAt>>

\* A candle of the "1s" timeframe is sent as it is, marked complete.
PushSecond(c) ==
  /\ D = 0
  /\ buffer' = Store(buffer, c)
  /\ finals' = Sent({c}, c.time)
  /\ UNCHANGED <<currentKey, partial, closedAt>>

PushPartial(c, candles) ==
  LET start == KeyAt(c) - D
      bar == buildPartialCandle(candles, start, c.time)
  IN  partial' = IF bar = {} THEN partial
                 ELSE [start |-> start, time |-> c.time, bar |-> bar]

\* The candle falls before currentKey: the interval goes on.
PushWithin(c) ==
  /\ D > 0
  /\ c.time < KeyAt(c)
  /\ buffer' = Store(buffer, c)
  /\ PushPartial(c, buffer')
  /\ currentKey' = KeyAt(c)
  /\ UNCHANGED <<finals, closedAt>>

\* Mutants: the bar is closed again and again; one candle too early; with
\* the candles of before; the interval that began at the candle is skipped.
PushAcrossStuck(c) ==
  LET start == KeyAt(c) - D IN
  /\ D > 0
  /\ c.time >= KeyAt(c)
  /\ PushPartial(c, Store(buffer, c))
  /\ finals' = IF Len(finals) > 3 THEN finals
               ELSE Sent(aggregateBuffer(Store(buffer, c), start), start)
  /\ buffer' = Store(buffer, c)
  /\ closedAt' = closedAt \cup {start}
  /\ currentKey' = KeyAt(c)

PushAcrossEarly(c) ==
  LET start == KeyAt(c) - D IN
  /\ D > 0
  /\ c.time >= KeyAt(c) - 1
  /\ PushPartial(c, Store(buffer, c))
  /\ finals' = Sent(aggregateBuffer(Store(buffer, c), start), start)
  /\ buffer' = removeOldSeconds(Store(buffer, c), start)
  /\ currentKey' = KeyAt(c) + D
  /\ closedAt' = closedAt \cup {start}

PushAcrossJump(c) ==
  LET start == KeyAt(c) - D IN
  /\ D > 0
  /\ c.time >= KeyAt(c)
  /\ PushPartial(c, Store(buffer, c))
  /\ finals' = Sent(aggregateBuffer(Store(buffer, c), start), start)
  /\ buffer' = removeOldSeconds(Store(buffer, c), start)
  /\ currentKey' = initCurrentKey(c.time + D)
  /\ closedAt' = closedAt \cup {start}

\* It reaches or passes currentKey: the interval before the key is closed.
PushAcross(c) ==
  LET start == KeyAt(c) - D IN
  /\ D > 0
  /\ c.time >= KeyAt(c)
  /\ PushPartial(c, Store(buffer, c))
  /\ finals' = Sent(aggregateBuffer(Store(buffer, c), start), start)
  /\ buffer' = removeOldSeconds(Store(buffer, c), start)
  /\ currentKey' = KeyAt(c) + D
  /\ closedAt' = closedAt \cup {start}

push1sCandle(c) ==
  /\ stage # "none" /\ ~HeldUp
  /\ c.time >= newest
  /\ \A x \in last : x.time = c.time => x.rev <= c.rev
  /\ PushSecond(c) \/ PushWithin(c) \/ PushAcross(c)
  /\ last' = Store(last, c)
  /\ newest' = c.time
  /\ UNCHANGED <<D, stage, base, late>>

Next ==
  \/ Register
  \/ \E now \in Second : InitKey(now)
  \/ \E found \in BOOLEAN : Preload(found)
  \/ \E c \in Candle : push1sCandle(c)

Spec == Init /\ [][Next]_vars
-----------------------------------------------------------------------------
OnePerSecond(candles) == \A x, y \in candles : x.time = y.time => x = y

TypeOK ==
  /\ D \in Duration
  /\ stage \in {"none", "registered", "fetching", "done"}
  /\ currentKey \in Nat \cup {NoKey}
  /\ buffer \in Bar
  /\ partial \in [start : Int, time : Int, bar : Bar]
  /\ finals \in Seq([time : Int, bar : Bar])
  /\ last \in SUBSET Candle
  /\ newest \in Second
  /\ base \in Int /\ late \in BOOLEAN
  /\ closedAt \in SUBSET Int
  /\ OnePerSecond(buffer)
  /\ OnePerSecond(last)

(* A complete bar holds the final revision of every second that was ever   *)
(* pushed for the inside of its interval: it is never sent while a second  *)
(* of it can still change, and never misses one.  The second at the start  *)
(* is not part of it, which is what BarsWhole is about.                    *)
FinalIsFinal ==
  D > 0 =>
    \A i \in 1..Len(finals) :
      finals[i].bar = {x \in last : /\ finals[i].time < x.time
                                    /\ x.time < finals[i].time + D}

(* What push1sCandle and aggregateBuffer say of themselves: a complete bar *)
(* is that of [currentKey - duration, currentKey), of [minKey,             *)
(* minKey + duration), the second at the start included.                   *)
BarsWhole ==
  D > 0 =>
    \A i \in 1..Len(finals) :
      finals[i].bar = {x \in last : /\ finals[i].time <= x.time
                                    /\ x.time < finals[i].time + D}

(* Complete bars come in the order of time and never overlap, even when    *)
(* the stream was silent for several intervals.                            *)
FinalsInOrder ==
  D > 0 =>
    \A i, j \in 1..Len(finals) :
      i < j => finals[i].time + D <= finals[j].time

(* A second of a closed interval is in a complete bar: the one loss is the *)
(* second at the start of an interval (BarsWhole).                         *)
NothingForgotten ==
  D > 0 =>
    \A x \in last :
      base <= x.time /\ x.time < currentKey - D =>
        \/ x.time \in closedAt
        \/ \E i \in 1..Len(finals) : x \in finals[i].bar

(* What a closed interval leaves behind is removed: the buffer keeps the   *)
(* running interval and what the stream sent ahead of it, the seconds      *)
(* older than the interval that was fetched, and the candle fetched for    *)
(* that interval when the websocket has closed it meanwhile.  The buffer   *)
(* of the "1s" timeframe is never pruned.                                  *)
BufferPruned ==
  D > 0 =>
    \A x \in buffer :
      \/ x.time >= currentKey - D
      \/ x.time < base
      \/ late /\ x.rev = Preloaded

(* An incomplete bar holds the latest revision of every second pushed      *)
(* between the start of its interval and its time, unless the candle       *)
(* fetched for the interval has taken the place of its first second.       *)
PartialIsCurrent ==
  D > 0 =>
    LET held   == {x \in partial.bar : x.rev # Preloaded}
        inside == {x \in last : partial.start <= x.time /\ x.time < partial.time}
    IN  /\ held \subseteq inside
        /\ \A x \in inside :
             \/ x \in held
             \/ /\ x.time = partial.start
                /\ [time |-> x.time, rev |-> Preloaded] \in partial.bar

(* On the "1s" timeframe every candle is passed on, in order.              *)
SecondsPassedOn ==
  D = 0 => /\ \A x \in last : \E i \in 1..Len(finals) : finals[i].bar = {x}
           /\ \A i, j \in 1..Len(finals) :
                i < j => finals[i].time <= finals[j].time

(* The invariant that carries the proofs: how the buffer relates to all    *)
(* that was pushed, and where the stream stands.                           *)
Window ==
  /\ stage = "none" => last = {} /\ finals = <<>> /\ partial.bar = {}
  /\ currentKey = NoKey => last = {} /\ finals = <<>> /\ buffer = {}
  /\ stage = "none" => currentKey = NoKey
  /\ stage \in {"fetching", "done"} => currentKey # NoKey /\ currentKey - D >= base
  /\ partial.time <= newest
  /\ \A x \in last : x.time <= newest /\ x.rev # Preloaded
  /\ \A x \in last :
       x.time >= currentKey - D =>
         \/ x \in buffer
         \/ x.time = base /\ [time |-> base, rev |-> Preloaded] \in buffer
  /\ \A x \in buffer :
       IF x.rev = Preloaded THEN x.time = base /\ stage = "done" ELSE x \in last
  /\ currentKey - D = base \/ newest >= currentKey - D
  /\ \A i \in 1..Len(finals) :
       finals[i].time + D <= newest /\ finals[i].time + D <= currentKey - D

=============================================================================
