----------------------- MODULE CandleAggregatorProofs -----------------------
(***************************************************************************)
(* Proofs about CandleAggregator, for every timeframe, horizon and set of  *)
(* revisions.                                                              *)
(***************************************************************************)
EXTENDS CandleAggregator, TLAPS

LEMMA AppendFacts ==
  ASSUME NEW S, NEW seq \in Seq(S), NEW x \in S
  PROVE  /\ Append(seq, x) \in Seq(S)
         /\ Len(seq) \in Nat
         /\ Len(Append(seq, x)) = Len(seq) + 1
         /\ Append(seq, x)[Len(seq) + 1] = x
         /\ \A i \in 1..Len(seq) : Append(seq, x)[i] = seq[i]
  OBVIOUS

Final == [time : Int, bar : Bar]

\* A candle pushed is a candle of the buffer's kind.
LEMMA CandleKind ==
  ASSUME NEW c \in Candle
  PROVE  /\ c \in [time : Int, rev : Rev \cup {Preloaded}]
         /\ c.time \in Second /\ c.time \in Int
         /\ c.rev # Preloaded
  BY CandleAssumption DEF Candle, Second, Preloaded

LEMMA StoreFacts ==
  ASSUME NEW c \in Candle, NEW candles
  PROVE  /\ candles \in Bar => Store(candles, c) \in Bar
         /\ candles \in SUBSET Candle => Store(candles, c) \in SUBSET Candle
         /\ OnePerSecond(candles) => OnePerSecond(Store(candles, c))
         /\ c \in Store(candles, c)
         /\ \A x : x \in Store(candles, c) <=>
                     x = c \/ (x \in candles /\ x.time # c.time)
  BY CandleKind DEF Store, Bar, OnePerSecond

-----------------------------------------------------------------------------
(* Types. *)

LEMMA DivFacts ==
  ASSUME NEW a \in Nat, NEW b \in Nat \ {0}
  PROVE  /\ a \div b \in Nat
         /\ (a \div b) * b \in Nat
         /\ (a \div b) * b <= a
  <1>1. /\ a \div b \in Int /\ a % b \in 0..(b - 1)
        /\ a = b * (a \div b) + (a % b)
    OBVIOUS
  <1> DEFINE q == a \div b
             r == a % b
  <1>2. q \in Int /\ r \in 0..(b - 1) /\ a = b * q + r
    BY <1>1
  <1> HIDE DEF q, r
  <1>3. q \in Nat
    <2>1. SUFFICES ASSUME q <= -1
                   PROVE  FALSE
      BY <1>2
    <2>2. b * q <= -b
      BY <1>2, <2>1
    <2> QED
      BY <1>2, <2>2
  <1>4. q * b \in Nat /\ q * b = b * q
    BY <1>3
  <1>5. q * b <= a
    BY <1>2, <1>4
  <1> QED
    BY <1>3, <1>4, <1>5 DEF q

\* The key of a second lies at most one interval ahead of it.
LEMMA KeyFacts ==
  ASSUME TypeOK, NEW t \in Second
  PROVE  /\ initCurrentKey(t) \in Nat
         /\ D > 0 => initCurrentKey(t) - D <= t
  <1>1. t \in Nat /\ D \in Nat
    BY CandleAssumption DEF Second, TypeOK
  <1>2. TruncateKST(t) \in Nat /\ TruncateKST(t) <= t
    <2>1. CASE D = 0
      BY <1>1, <2>1 DEF TruncateKST
    <2>2. CASE D # 0
      <3> DEFINE m == (t \div Day) * Day
                 n == ((t - m) \div D) * D
      <3>1. m \in Nat /\ m <= t
        BY <1>1, CandleAssumption, DivFacts
      <3>2. TruncateKST(t) = m + n
        BY <2>2 DEF TruncateKST
      <3> HIDE DEF m
      <3>3. t - m \in Nat
        BY <1>1, <3>1
      <3>4. n \in Nat /\ n <= t - m
        BY <1>1, <2>2, <3>3, DivFacts
      <3> HIDE DEF n
      <3> QED
        BY <1>1, <3>1, <3>2, <3>4
    <2> QED
      BY <2>1, <2>2
  <1> QED
    BY <1>1, <1>2 DEF initCurrentKey

LEMMA SentFacts ==
  ASSUME TypeOK, NEW bar \in Bar, NEW start \in Int
  PROVE  /\ Sent(bar, start) \in Seq(Final)
         /\ Len(Sent(bar, start)) \in Nat
         /\ Len(finals) \in Nat
         /\ \A i \in 1..Len(finals) :
              /\ Sent(bar, start)[i] = finals[i]
              /\ i \in 1..Len(Sent(bar, start))
         /\ \A i \in 1..Len(Sent(bar, start)) :
              \/ i \in 1..Len(finals)
              \/ /\ i = Len(finals) + 1
                 /\ Sent(bar, start)[i] = [time |-> start, bar |-> bar]
         /\ bar # {} =>
              \E i \in 1..Len(Sent(bar, start)) : Sent(bar, start)[i].bar = bar
  <1> DEFINE f == [time |-> start, bar |-> bar]
  <1>1. f \in Final /\ finals \in Seq(Final)
    BY DEF TypeOK, Final
  <1>2. Len(finals) \in Nat
    BY <1>1
  <1>3. CASE bar = {}
    BY <1>1, <1>2, <1>3 DEF Sent
  <1>4. CASE bar # {}
    <2>1. Sent(bar, start) = Append(finals, f)
      BY <1>4 DEF Sent
    <2>2. /\ Append(finals, f) \in Seq(Final)
          /\ Len(Append(finals, f)) = Len(finals) + 1
          /\ Append(finals, f)[Len(finals) + 1] = f
          /\ \A i \in 1..Len(finals) : Append(finals, f)[i] = finals[i]
      BY <1>1, AppendFacts
    <2>3. \A i \in 1..(Len(finals) + 1) : i \in 1..Len(finals) \/ i = Len(finals) + 1
      BY <1>2
    <2>4. Len(finals) + 1 \in 1..(Len(finals) + 1) /\ f.bar = bar
      BY <1>2
    <2> QED
      BY <1>2, <2>1, <2>2, <2>3, <2>4
  <1> QED
    BY <1>3, <1>4

LEMMA FinalsType ==
  ASSUME TypeOK
  PROVE  /\ Len(finals) \in Nat
         /\ \A i \in 1..Len(finals) : finals[i].time \in Int
  <1>1. finals \in Seq(Final)
    BY DEF TypeOK, Final
  <1>2. Len(finals) \in Nat /\ \A i \in 1..Len(finals) : finals[i] \in Final
    BY <1>1
  <1>3. \A f \in Final : f.time \in Int
    BY DEF Final
  <1> QED
    BY <1>2, <1>3

LEMMA TypeInit == Init => TypeOK
  <1> SUFFICES ASSUME Init
               PROVE  TypeOK
    OBVIOUS
  <1>1. {} \in Bar /\ {} \in SUBSET Candle /\ 0 \in Second /\ 0 \in Int
    BY CandleAssumption DEF Bar, Second
  <1>2. finals \in Seq([time : Int, bar : Bar])
    BY DEF Init
  <1> QED
    BY <1>1, <1>2 DEF Init, TypeOK, OnePerSecond

LEMMA TypeNext == TypeOK /\ [Next]_vars => TypeOK'
  <1> SUFFICES ASSUME TypeOK, [Next]_vars
               PROVE  TypeOK'
    OBVIOUS
  <1>0. D \in Int
    BY CandleAssumption DEF TypeOK
  <1>1. CASE Register
    BY <1>1 DEF Register, TypeOK, OnePerSecond
  <1>4. ASSUME NEW now \in Second, InitKey(now)
        PROVE  TypeOK'
    <2>1. initCurrentKey(now) \in Nat /\ initCurrentKey(now) - D \in Int
      BY <1>0, KeyFacts
    <2> QED
      BY <1>4, <2>1 DEF InitKey, TypeOK, OnePerSecond
  <1>5. ASSUME NEW found \in BOOLEAN, Preload(found)
        PROVE  TypeOK'
    <2> DEFINE p == [time |-> base, rev |-> Preloaded]
    <2>1. p \in [time : Int, rev : Rev \cup {Preloaded}]
      BY DEF TypeOK
    <2>2. buffer' \in Bar /\ OnePerSecond(buffer')
      <3> HIDE DEF p
      <3>1. buffer' = IF found THEN Store(buffer, p) ELSE buffer
        BY <1>5 DEF Preload, p
      <3> QED
        BY <2>1, <3>1 DEF Store, Bar, OnePerSecond, TypeOK
    <2> QED
      BY <1>5, <2>2 DEF Preload, TypeOK, OnePerSecond
  <1>2. ASSUME NEW c \in Candle, push1sCandle(c)
        PROVE  TypeOK'
    <2> DEFINE b == Store(buffer, c)
               key == KeyAt(c)
               start == KeyAt(c) - D
    <2>0. key \in Nat /\ start \in Int
      <3>1. c.time \in Second
        BY CandleKind
      <3> QED
        BY <1>0, <3>1, KeyFacts DEF TypeOK, KeyAt
    <2>1. /\ b \in Bar /\ OnePerSecond(b)
          /\ last' \in SUBSET Candle /\ OnePerSecond(last')
          /\ c.time \in Second /\ c.time \in Int
          /\ start \in Int
          /\ newest' = c.time /\ UNCHANGED <<D, stage, base, late>>
      BY <1>0, <1>2, <2>0, StoreFacts, CandleKind DEF TypeOK, push1sCandle
    <2>2. /\ aggregateBuffer(b, start) \in Bar
          /\ removeOldSeconds(b, start) \in Bar
          /\ buildPartialCandle(b, start, c.time) \in Bar
          /\ OnePerSecond(removeOldSeconds(b, start))
          /\ {c} \in Bar
      BY <2>1, CandleKind
      DEF Bar, aggregateBuffer, removeOldSeconds, buildPartialCandle, OnePerSecond
    <2>3. ASSUME PushPartial(c, b)
          PROVE  partial' \in [start : Int, time : Int, bar : Bar]
      BY <2>1, <2>2, <2>3 DEF PushPartial, TypeOK
    <2> HIDE DEF b, start, key
    <2>4. CASE PushSecond(c)
      <3>1. finals' \in Seq(Final)
        BY <2>1, <2>2, <2>4, SentFacts DEF PushSecond
      <3> QED
        BY <2>1, <2>4, <3>1 DEF PushSecond, TypeOK, Final, b
    <2>5. CASE PushWithin(c)
      <3>1. /\ buffer' = b /\ PushPartial(c, b) /\ currentKey' = key
            /\ UNCHANGED <<finals, closedAt>>
        BY <2>5 DEF PushWithin, b, key
      <3> QED
        BY <2>0, <2>1, <2>3, <3>1 DEF TypeOK
    <2>6. CASE PushAcross(c)
      <3>1. /\ PushPartial(c, b)
            /\ finals' = Sent(aggregateBuffer(b, start), start)
            /\ buffer' = removeOldSeconds(b, start)
            /\ currentKey' = key + D
            /\ closedAt' = closedAt \cup {start}
        BY <2>6 DEF PushAcross, b, start, key
      <3>2. finals' \in Seq(Final)
        BY <2>1, <2>2, <3>1, SentFacts
      <3>3. key + D \in Nat
        BY <2>0, CandleAssumption DEF TypeOK
      <3> QED
        BY <2>1, <2>2, <2>3, <3>1, <3>2, <3>3 DEF TypeOK, Final
    <2> QED
      BY <1>2, <2>4, <2>5, <2>6 DEF push1sCandle
  <1>3. CASE UNCHANGED vars
    BY <1>3 DEF vars, TypeOK, OnePerSecond
  <1> QED
    BY <1>1, <1>2, <1>3, <1>4, <1>5 DEF Next

-----------------------------------------------------------------------------
(* The window of the buffer, and what the complete bars hold. *)

Correct ==
  /\ Window
  /\ FinalIsFinal
  /\ FinalsInOrder
  /\ NothingForgotten
  /\ BufferPruned
  /\ PartialIsCurrent

LEMMA CorrectInit == Init /\ D > 0 => Correct
  <1> SUFFICES ASSUME Init, D > 0
               PROVE  Correct
    OBVIOUS
  <1>1. D \in Int
    BY CandleAssumption DEF Init
  <1>2. /\ last = {} /\ buffer = {} /\ newest = 0
        /\ currentKey = NoKey /\ stage = "none"
        /\ partial.start = 0 /\ partial.time = 0 /\ partial.bar = {}
        /\ Len(finals) = 0 /\ finals = <<>>
    BY DEF Init
  <1>3. newest >= currentKey - D
    BY <1>1, <1>2 DEF NoKey
  <1>4. \A i \in 1..Len(finals) : FALSE
    BY <1>2
  <1>5. Window
    BY <1>2, <1>3, <1>4 DEF Window
  <1>6. FinalIsFinal /\ FinalsInOrder
    BY <1>4 DEF FinalIsFinal, FinalsInOrder
  <1>7. NothingForgotten /\ BufferPruned /\ PartialIsCurrent
    BY <1>2 DEF NothingForgotten, BufferPruned, PartialIsCurrent
  <1> QED
    BY <1>5, <1>6, <1>7 DEF Correct

LEMMA CorrectRegister ==
  ASSUME TypeOK, Correct, D > 0, Register
  PROVE  Correct'
  <1>1. /\ stage = "none" /\ stage' = "registered"
        /\ UNCHANGED <<D, currentKey, buffer, partial, finals, last, newest, base,
                       late, closedAt>>
    BY DEF Register
  <1>2. Window'
    BY <1>1 DEF Correct, Window
  <1> QED
    BY <1>1, <1>2 DEF Correct, FinalIsFinal, FinalsInOrder, NothingForgotten,
                      BufferPruned, PartialIsCurrent

\* The key moves forward only, and the interval to fetch is the running one.
LEMMA CorrectInitKey ==
  ASSUME TypeOK, Correct, D > 0, NEW now \in Second, InitKey(now)
  PROVE  Correct'
  <1>1. PICK k \in Nat : k = initCurrentKey(now)
    BY KeyFacts
  <1>2. /\ stage = "registered" /\ stage' = "fetching"
        /\ currentKey' = k /\ base' = k - D /\ k >= currentKey
        /\ UNCHANGED <<D, buffer, partial, finals, last, newest, late, closedAt>>
    BY <1>1 DEF InitKey
  <1>3. /\ D \in Int /\ currentKey \in Int /\ base \in Int /\ k - D \in Int
        /\ k # NoKey
        /\ \A x \in last : x.time \in Int
        /\ \A x \in buffer : x.time \in Int
        /\ \A i \in 1..Len(finals) : finals[i].time \in Int
    <2>1. D \in Int /\ currentKey \in Int /\ base \in Int
      BY CandleAssumption DEF TypeOK, NoKey
    <2>2. k - D \in Int /\ k # NoKey
      BY <1>1, <2>1 DEF NoKey
    <2>3. (\A x \in last : x.time \in Int) /\ (\A x \in buffer : x.time \in Int)
      BY DEF TypeOK, Bar, Candle, Second
    <2> QED
      BY <2>1, <2>2, <2>3, FinalsType
  <1>4. /\ \A x \in buffer : x.rev # Preloaded /\ x \in last
        /\ \A x \in last : x.time >= currentKey - D => x \in buffer
    BY <1>2 DEF Correct, Window, Preloaded
  <1>5. \A i \in 1..Len(finals) :
          finals[i].time + D <= newest /\ finals[i].time + D <= k - D
    <2>1. \A i \in 1..Len(finals) :
            finals[i].time + D <= newest /\ finals[i].time + D <= currentKey - D
      BY DEF Correct, Window
    <2> QED
      BY <1>2, <1>3, <2>1
  <1>6. \A x \in last : x.time >= k - D => x \in buffer
    BY <1>2, <1>3, <1>4
  <1>7. Window'
    BY <1>2, <1>3, <1>4, <1>5, <1>6 DEF Correct, Window
  <1>8. FinalIsFinal' /\ FinalsInOrder'
    BY <1>2 DEF Correct, FinalIsFinal, FinalsInOrder
  <1>9. NothingForgotten'
    BY <1>2, <1>3 DEF NothingForgotten
  <1>10. BufferPruned'
    BY <1>2, <1>3 DEF BufferPruned
  <1>11. PartialIsCurrent'
    BY <1>2 DEF Correct, PartialIsCurrent
  <1> QED
    BY <1>7, <1>8, <1>9, <1>10, <1>11 DEF Correct

\* The fetched candle takes the place of the first second of its interval.
LEMMA CorrectPreload ==
  ASSUME TypeOK, Correct, D > 0, NEW found \in BOOLEAN, Preload(found)
  PROVE  Correct'
  <1> DEFINE p == [time |-> base, rev |-> Preloaded]
  <1>1. /\ stage = "fetching" /\ stage' = "done"
        /\ buffer' = IF found THEN Store(buffer, p) ELSE buffer
        /\ late' = (found /\ currentKey > base + D)
        /\ UNCHANGED <<D, currentKey, partial, finals, last, newest, base, closedAt>>
    BY DEF Preload
  <1>2. p.time = base /\ p.rev = Preloaded
    OBVIOUS
  <1>3. /\ D \in Int /\ currentKey \in Int /\ base \in Int
        /\ currentKey - D >= base
        /\ \A x \in buffer : x.rev # Preloaded /\ x \in last
        /\ \A x \in last : x.time >= currentKey - D => x \in buffer
    BY <1>1, CandleAssumption DEF TypeOK, NoKey, Correct, Window, Preloaded
  <1> HIDE DEF p
  <1>4. \A x \in buffer' :
          \/ x \in buffer /\ x.rev # Preloaded /\ x \in last
          \/ x = p /\ found
    BY <1>1, <1>3 DEF Store
  <1>5. \A x \in last :
          x.time >= currentKey - D => x \in buffer' \/ (x.time = base /\ p \in buffer')
    BY <1>1, <1>2, <1>3 DEF Store
  <1>6. Window'
    <2>1. \A x \in buffer' :
            IF x.rev = Preloaded THEN x.time = base /\ stage' = "done" ELSE x \in last
      BY <1>1, <1>2, <1>4
    <2> QED
      BY <1>1, <1>5, <2>1 DEF Correct, Window, p
  <1>7. FinalIsFinal' /\ FinalsInOrder' /\ NothingForgotten' /\ PartialIsCurrent'
    BY <1>1 DEF Correct, FinalIsFinal, FinalsInOrder, NothingForgotten, PartialIsCurrent
  <1>8. BufferPruned'
    <2> SUFFICES ASSUME NEW x \in buffer'
                 PROVE  \/ x.time >= currentKey - D
                        \/ x.time < base
                        \/ late' /\ x.rev = Preloaded
      BY <1>1 DEF BufferPruned
    <2>1. CASE x \in buffer /\ x.rev # Preloaded
      BY <2>1 DEF Correct, BufferPruned
    <2>2. CASE x = p /\ found
      <3>1. CASE currentKey > base + D
        <4>1. late'
          BY <1>1, <2>2, <3>1
        <4> QED
          BY <1>2, <2>2, <4>1
      <3>2. CASE ~(currentKey > base + D)
        <4>1. base >= currentKey - D
          BY <1>3, <3>2
        <4> QED
          BY <1>2, <2>2, <4>1
      <3> QED
        BY <3>1, <3>2
    <2> QED
      BY <1>4, <2>1, <2>2
  <1> QED
    BY <1>6, <1>7, <1>8 DEF Correct

\* What a push means for the history, whichever branch it takes.
LEMMA PushFacts ==
  ASSUME TypeOK, Correct, D > 0, NEW c \in Candle, push1sCandle(c)
  PROVE  /\ c.time \in Int /\ newest \in Int /\ c.time >= newest
         /\ c.rev # Preloaded
         /\ newest' = c.time /\ base' = base /\ D' = D
         /\ stage' = stage /\ late' = late /\ stage # "none"
         /\ c \in last'
         /\ \A x : x \in last' <=> x = c \/ (x \in last /\ x.time # c.time)
         /\ \A x \in last' : x.time \in Int /\ x.time <= c.time /\ x.rev # Preloaded
         /\ \A x : x.time < newest => (x \in last' <=> x \in last)
         /\ \A x \in Store(buffer, c) : x.time \in Int
  <1>1. /\ c.time \in Int /\ newest \in Int /\ c.time >= newest
        /\ c.rev # Preloaded
        /\ newest' = c.time /\ base' = base /\ D' = D
        /\ stage' = stage /\ late' = late /\ stage # "none"
        /\ last' = Store(last, c)
    BY CandleKind DEF push1sCandle, TypeOK, Second
  <1>2. \A x : x \in last' <=> x = c \/ (x \in last /\ x.time # c.time)
    BY <1>1 DEF Store
  <1>3. \A x : x \in Store(buffer, c) <=> x = c \/ (x \in buffer /\ x.time # c.time)
    BY DEF Store
  <1>4. \A x \in last : x.time \in Int /\ x.time <= newest /\ x.rev # Preloaded
    BY DEF TypeOK, Correct, Window, Candle, Second
  <1>5. \A x \in last' : x.time \in Int /\ x.time <= c.time /\ x.rev # Preloaded
    BY <1>1, <1>2, <1>4
  <1>6. \A x : x.time < newest => (x \in last' <=> x \in last)
    <2>1. \A x \in last : x.time < newest => x.time # c.time
      BY <1>1, <1>4
    <2>2. ~(c.time < newest)
      BY <1>1
    <2> QED
      BY <1>2, <2>1, <2>2
  <1>7. \A x \in Store(buffer, c) : x.time \in Int
    BY <1>1, <1>3 DEF TypeOK, Bar
  <1> QED
    BY <1>1, <1>2, <1>5, <1>6, <1>7

\* Where the push finds the interval it falls into, and the buffer.
LEMMA KeyAtFacts ==
  ASSUME TypeOK, Correct, D > 0, NEW c \in Candle, push1sCandle(c),
         NEW start, start = KeyAt(c) - D
  PROVE  /\ KeyAt(c) \in Nat /\ start \in Int /\ KeyAt(c) = start + D
         /\ D \in Int /\ base \in Int
         /\ start = base \/ c.time >= start
         /\ stage \in {"fetching", "done"} => start >= base
         /\ \A x \in last : x.time < start => x.time < currentKey - D
         /\ \A i \in 1..Len(finals) :
              /\ finals[i].time \in Int
              /\ finals[i].time + D <= newest /\ finals[i].time + D <= start
         /\ \A x \in Store(buffer, c) :
              IF x.rev = Preloaded
              THEN x.time = base /\ base <= start /\ stage = "done"
              ELSE x \in last'
         /\ \A x \in last' :
              x.time >= start =>
                \/ x \in Store(buffer, c)
                \/ /\ x.time = base /\ base = start
                   /\ [time |-> base, rev |-> Preloaded] \in Store(buffer, c)
         /\ \A x \in buffer :
              x.time >= start \/ x.time < base \/ (late /\ x.rev = Preloaded)
  <1>1. /\ D \in Int /\ base \in Int /\ newest \in Int /\ c.time \in Int
        /\ c.time \in Second /\ c.time >= newest /\ stage # "none"
    BY CandleAssumption, PushFacts, CandleKind DEF TypeOK
  <1>2. KeyAt(c) \in Nat
    BY <1>1, KeyFacts DEF KeyAt, TypeOK
  <1>3. start \in Int /\ KeyAt(c) = start + D
    BY <1>1, <1>2
  <1>4. \A x : x \in Store(buffer, c) <=> x = c \/ (x \in buffer /\ x.time # c.time)
    BY DEF Store
  <1>5. CASE currentKey = NoKey
    <2>1. last = {} /\ finals = <<>> /\ buffer = {} /\ stage = "registered"
      BY <1>1, <1>5 DEF Correct, Window, TypeOK
    <2>2. \A i \in 1..Len(finals) : FALSE
      BY <2>1
    <2>3. c.time >= start
      BY <1>1, <1>2, <1>5, KeyFacts DEF KeyAt
    <2>4. \A x \in Store(buffer, c) : x = c
      BY <1>4, <2>1
    <2>5. c \in Store(buffer, c) /\ c.rev # Preloaded /\ c \in last'
      BY <1>4, PushFacts
    <2>6. \A x \in last' : x = c
      BY <2>1, PushFacts
    <2> QED
      BY <1>1, <1>2, <1>3, <2>1, <2>2, <2>3, <2>4, <2>5, <2>6
  <1>6. CASE currentKey # NoKey
    <2>1. currentKey = KeyAt(c) /\ start = currentKey - D
      BY <1>6 DEF KeyAt
    <2>2. start = base \/ c.time >= start
      <3>1. start = base \/ newest >= start
        BY <2>1 DEF Correct, Window
      <3> QED
        BY <1>1, <1>3, <3>1
    <2>3. stage \in {"fetching", "done"} => start >= base
      BY <2>1 DEF Correct, Window
    <2>4. \A i \in 1..Len(finals) :
            /\ finals[i].time \in Int
            /\ finals[i].time + D <= newest /\ finals[i].time + D <= start
      BY <2>1, FinalsType DEF Correct, Window
    <2>5. \A x \in Store(buffer, c) :
            IF x.rev = Preloaded
            THEN x.time = base /\ base <= start /\ stage = "done"
            ELSE x \in last'
      <3>1. \A x \in buffer :
              IF x.rev = Preloaded THEN x.time = base /\ stage = "done" ELSE x \in last
        BY DEF Correct, Window
      <3> QED
        BY <1>1, <1>3, <1>4, <2>3, <3>1, PushFacts
    <2>6. ASSUME NEW x \in last', x.time >= start
          PROVE  \/ x \in Store(buffer, c)
                 \/ /\ x.time = base /\ base = start
                    /\ [time |-> base, rev |-> Preloaded] \in Store(buffer, c)
      <3>1. CASE x = c
        BY <1>4, <3>1
      <3>2. CASE x # c
        <4> DEFINE p == [time |-> base, rev |-> Preloaded]
        <4>1. x \in last /\ x.time # c.time
          BY <3>2, PushFacts
        <4>2. x \in buffer \/ (x.time = base /\ p \in buffer)
          BY <2>1, <2>6, <4>1 DEF Correct, Window
        <4>3. p.time = base /\ p.rev = Preloaded
          OBVIOUS
        <4> HIDE DEF p
        <4>4. CASE x \in buffer
          BY <1>4, <4>1, <4>4
        <4>5. CASE x.time = base /\ p \in buffer
          <5>1. p \in Store(buffer, c)
            BY <1>4, <4>1, <4>3, <4>5
          <5>2. base <= start
            BY <2>5, <4>3, <5>1
          <5> QED
            BY <1>1, <1>3, <2>6, <4>5, <5>1, <5>2 DEF p
        <4> QED
          BY <4>2, <4>4, <4>5
      <3> QED
        BY <3>1, <3>2
    <2>7. \A x \in buffer :
            x.time >= start \/ x.time < base \/ (late /\ x.rev = Preloaded)
      BY <2>1 DEF Correct, BufferPruned
    <2>8. \A x \in last : x.time < start => x.time < currentKey - D
      BY <2>1
    <2> QED
      BY <1>1, <1>2, <1>3, <2>2, <2>3, <2>4, <2>5, <2>6, <2>7, <2>8
  <1> QED
    BY <1>5, <1>6

\* The incomplete bar sent by a push is up to date.
LEMMA PartialPush ==
  ASSUME TypeOK, Correct, D > 0, NEW c \in Candle, push1sCandle(c),
         PushPartial(c, Store(buffer, c))
  PROVE  PartialIsCurrent' /\ partial'.time <= newest'
  <1>0. PICK start : start = KeyAt(c) - D
    OBVIOUS
  <1> DEFINE bar == buildPartialCandle(Store(buffer, c), start, c.time)
  <1>1. start \in Int /\ base \in Int
    BY <1>0, KeyAtFacts
  <1>2. partial.time \in Int /\ partial.time <= newest
    BY DEF TypeOK, Correct, Window
  <1>3. CASE partial' = partial
    <2>1. \A x \in last' : x.time < partial.time => x.time < newest
      BY <1>2, PushFacts
    <2>2. \A x \in last : x.time < partial.time => x.time < newest
      BY <1>2 DEF TypeOK, Candle, Second
    <2>3. {x \in last' : partial.start <= x.time /\ x.time < partial.time}
            = {x \in last : partial.start <= x.time /\ x.time < partial.time}
      BY <2>1, <2>2, PushFacts
    <2>4. partial.time <= c.time
      BY <1>2, PushFacts
    <2> QED
      BY <1>3, <2>3, <2>4, PushFacts DEF Correct, PartialIsCurrent
  <1>4. CASE partial' = [start |-> start, time |-> c.time, bar |-> bar]
    <2>1. partial'.start = start /\ partial'.time = c.time /\ partial'.bar = bar
      BY <1>4
    <2>2. \A x \in bar : x.rev # Preloaded =>
            x \in last' /\ start <= x.time /\ x.time < c.time
      BY <1>0, KeyAtFacts DEF buildPartialCandle
    <2>3. ASSUME NEW x \in last', start <= x.time, x.time < c.time
          PROVE  \/ x \in bar /\ x.rev # Preloaded
                 \/ x.time = start /\ [time |-> x.time, rev |-> Preloaded] \in bar
      <3>1. x.time \in Int /\ x.time >= start /\ x.rev # Preloaded
        BY <1>1, <2>3, PushFacts
      <3>2. CASE x \in Store(buffer, c)
        BY <2>3, <3>1, <3>2 DEF buildPartialCandle
      <3>3. CASE /\ x.time = base /\ base = start
                 /\ [time |-> base, rev |-> Preloaded] \in Store(buffer, c)
        <4> DEFINE p == [time |-> base, rev |-> Preloaded]
        <4>1. p.time = base
          OBVIOUS
        <4>2. p \in Store(buffer, c)
          BY <3>3
        <4> HIDE DEF p
        <4>3. p \in bar
          BY <2>3, <3>3, <4>1, <4>2 DEF buildPartialCandle
        <4> QED
          BY <3>3, <4>3 DEF p
      <3> QED
        BY <1>0, <3>1, <3>2, <3>3, KeyAtFacts
    <2>4. c.time <= c.time
      BY PushFacts
    <2> HIDE DEF bar
    <2>5. PartialIsCurrent'
      BY <2>1, <2>2, <2>3, PushFacts DEF PartialIsCurrent
    <2> QED
      BY <2>1, <2>4, <2>5, PushFacts
  <1> QED
    BY <1>0, <1>3, <1>4 DEF PushPartial

LEMMA CorrectWithin ==
  ASSUME TypeOK, Correct, D > 0, NEW c \in Candle, push1sCandle(c), PushWithin(c)
  PROVE  Correct'
  <1>0. PICK start : start = KeyAt(c) - D
    OBVIOUS
  <1>1. /\ buffer' = Store(buffer, c) /\ PushPartial(c, Store(buffer, c))
        /\ UNCHANGED <<finals, closedAt>>
        /\ currentKey' = KeyAt(c)
        /\ c.time < KeyAt(c)
    BY DEF PushWithin
  <1>2. /\ start \in Int /\ D \in Int /\ base \in Int /\ KeyAt(c) \in Nat
        /\ currentKey' - D = start /\ currentKey' # NoKey
        /\ start = base \/ c.time >= start
        /\ \A i \in 1..Len(finals) :
             /\ finals[i].time \in Int
             /\ finals[i].time + D <= newest /\ finals[i].time + D <= start
    BY <1>0, <1>1, KeyAtFacts DEF NoKey
  <1>3. PartialIsCurrent' /\ partial'.time <= newest'
    BY <1>1, PartialPush
  <1>4. Window'
    <2>1. \A i \in 1..Len(finals) :
            finals[i].time + D <= c.time /\ finals[i].time + D <= start
      BY <1>2, PushFacts
    <2>2. \A x \in last' :
            x.time >= start =>
              \/ x \in Store(buffer, c)
              \/ /\ x.time = base
                 /\ [time |-> base, rev |-> Preloaded] \in Store(buffer, c)
      BY <1>0, KeyAtFacts
    <2>3. \A x \in Store(buffer, c) :
            IF x.rev = Preloaded THEN x.time = base /\ stage = "done" ELSE x \in last'
      BY <1>0, KeyAtFacts
    <2>4. stage \in {"fetching", "done"} => start >= base
      BY <1>0, KeyAtFacts
    <2> QED
      BY <1>1, <1>2, <1>3, <2>1, <2>2, <2>3, <2>4, PushFacts DEF Window
  <1>5. FinalIsFinal'
    <2> SUFFICES ASSUME NEW i \in 1..Len(finals)
                 PROVE  finals[i].bar = {x \in last' : /\ finals[i].time < x.time
                                                       /\ x.time < finals[i].time + D}
      BY <1>1, PushFacts DEF FinalIsFinal
    <2>1. finals[i].time + D <= newest
      BY <1>2
    <2>2. \A x \in last' : x.time < finals[i].time + D => x.time < newest
      BY <1>2, <2>1, PushFacts
    <2>3. \A x \in last : x.time < finals[i].time + D => x.time < newest
      <3>1. \A x \in last : x.time \in Int
        BY DEF TypeOK, Candle, Second
      <3>2. newest \in Int
        BY PushFacts
      <3> QED
        BY <1>2, <2>1, <3>1, <3>2
    <2>4. finals[i].bar = {x \in last : /\ finals[i].time < x.time
                                        /\ x.time < finals[i].time + D}
      BY DEF Correct, FinalIsFinal
    <2> QED
      BY <2>2, <2>3, <2>4, PushFacts
  <1>6. FinalsInOrder'
    BY <1>1, PushFacts DEF Correct, FinalsInOrder
  <1>7. NothingForgotten'
    <2> SUFFICES ASSUME NEW x \in last', base <= x.time, x.time < start
                 PROVE  x.time \in closedAt \/ \E i \in 1..Len(finals) : x \in finals[i].bar
      BY <1>1, <1>2, PushFacts DEF NothingForgotten
    <2>1. x # c
      BY <1>2, PushFacts
    <2>2. x \in last /\ x.time < currentKey - D
      BY <1>0, <2>1, KeyAtFacts, PushFacts
    <2> QED
      BY <2>2 DEF Correct, NothingForgotten
  <1>8. BufferPruned'
    <2> SUFFICES ASSUME NEW x \in Store(buffer, c)
                 PROVE  x.time >= start \/ x.time < base \/ (late /\ x.rev = Preloaded)
      BY <1>1, <1>2, PushFacts DEF BufferPruned
    <2>1. CASE x = c
      BY <1>2, <2>1, PushFacts
    <2>2. CASE x # c
      <3>1. x \in buffer
        BY <2>2 DEF Store
      <3> QED
        BY <1>0, <3>1, KeyAtFacts
    <2> QED
      BY <2>1, <2>2
  <1> QED
    BY <1>3, <1>4, <1>5, <1>6, <1>7, <1>8 DEF Correct

LEMMA CorrectAcross ==
  ASSUME TypeOK, Correct, D > 0, NEW c \in Candle, push1sCandle(c), PushAcross(c)
  PROVE  Correct'
  <1>1. PICK start \in Int : start = KeyAt(c) - D
    BY KeyAtFacts
  <1>2. PICK b : b = Store(buffer, c)
    OBVIOUS
  <1>3. PICK bar : bar = aggregateBuffer(b, start)
    OBVIOUS
  <1>4. /\ c.time >= KeyAt(c)
        /\ PushPartial(c, Store(buffer, c))
        /\ finals' = Sent(bar, start)
        /\ buffer' = removeOldSeconds(b, start)
        /\ currentKey' = KeyAt(c) + D
        /\ closedAt' = closedAt \cup {start}
    BY <1>1, <1>2, <1>3 DEF PushAcross
  <1>5. PICK key \in Nat : key = KeyAt(c)
    BY <1>1, KeyAtFacts
  <1>50. /\ D \in Int /\ base \in Int /\ key = start + D
         /\ currentKey' - D = key /\ currentKey' # NoKey
         /\ c.time >= key
         /\ \A i \in 1..Len(finals) : finals[i].time \in Int
    <2>1. D \in Int /\ base \in Int
      BY CandleAssumption DEF TypeOK
    <2>2. key = start + D /\ currentKey' - D = key /\ currentKey' # NoKey
      BY <1>1, <1>4, <1>5, <2>1 DEF NoKey
    <2> QED
      BY <1>4, <1>5, <2>1, <2>2, FinalsType
  <1>51. /\ \A x \in b :
              IF x.rev = Preloaded
              THEN x.time = base /\ base <= start /\ stage = "done"
              ELSE x \in last'
         /\ \A x \in last' :
              x.time >= start =>
                \/ x \in b
                \/ /\ x.time = base /\ base = start
                   /\ [time |-> base, rev |-> Preloaded] \in b
         /\ stage \in {"fetching", "done"} => start >= base
    BY <1>1, <1>2, KeyAtFacts
  <1>6. bar = {x \in last' : start < x.time /\ x.time < start + D}
    <2>1. \A x \in b : start < x.time => x \in last'
      BY <1>2, <1>50, <1>51, PushFacts
    <2>2. \A x \in last' : start < x.time => x \in b
      BY <1>50, <1>51, PushFacts
    <2> QED
      BY <1>3, <2>1, <2>2 DEF aggregateBuffer
  <1>7. bar \in Bar
    <2>1. b \in Bar
      BY <1>2, StoreFacts DEF TypeOK
    <2> QED
      BY <1>3, <2>1 DEF Bar, aggregateBuffer
  <1>8. /\ Len(finals') \in Nat /\ Len(finals) \in Nat
        /\ \A i \in 1..Len(finals) : finals'[i] = finals[i] /\ i \in 1..Len(finals')
        /\ \A i \in 1..Len(finals') :
             \/ i \in 1..Len(finals)
             \/ /\ i = Len(finals) + 1
                /\ finals'[i].time = start /\ finals'[i].bar = bar
        /\ bar # {} => \E i \in 1..Len(finals') : finals'[i].bar = bar
    <2>1. start \in Int
      BY <1>1, CandleAssumption DEF TypeOK
    <2>2. /\ Len(finals') \in Nat /\ Len(finals) \in Nat
          /\ \A i \in 1..Len(finals) : finals'[i] = finals[i] /\ i \in 1..Len(finals')
          /\ \A i \in 1..Len(finals') :
               \/ i \in 1..Len(finals)
               \/ /\ i = Len(finals) + 1
                  /\ finals'[i] = [time |-> start, bar |-> bar]
          /\ bar # {} => \E i \in 1..Len(finals') : finals'[i].bar = bar
      BY <1>4, <1>7, <2>1, SentFacts
    <2>3. [time |-> start, bar |-> bar].time = start /\ [time |-> start, bar |-> bar].bar = bar
      OBVIOUS
    <2> QED
      BY <2>2, <2>3
  <1>9. \A i \in 1..Len(finals) :
          finals[i].time + D <= newest /\ finals[i].time + D <= start
    BY <1>1, KeyAtFacts
  <1>10. PartialIsCurrent' /\ partial'.time <= newest'
    BY <1>4, PartialPush
  <1>11. Window'
    <2>1. \A x \in last' : x.time >= key => x \in buffer'
      <3>1. \A x \in last' : x.time >= key => x.time # start /\ x.time >= start
        BY <1>50, PushFacts
      <3> QED
        BY <1>4, <1>50, <1>51, <3>1, PushFacts DEF removeOldSeconds
    <2>2. \A x \in buffer' :
            IF x.rev = Preloaded THEN x.time = base /\ stage = "done" ELSE x \in last'
      BY <1>4, <1>51 DEF removeOldSeconds
    <2>4. stage \in {"fetching", "done"} => key >= base
      BY <1>50, <1>51
    <2>3. \A i \in 1..Len(finals') :
            finals'[i].time + D <= c.time /\ finals'[i].time + D <= key
      <3> TAKE i \in 1..Len(finals')
      <3>1. CASE i \in 1..Len(finals)
        <4>1. /\ finals'[i].time \in Int
              /\ finals'[i].time + D <= start
          BY <1>8, <1>9, <1>50, <3>1
        <4> QED
          BY <1>50, <4>1, PushFacts
      <3>2. CASE finals'[i].time = start
        BY <1>50, <3>2, PushFacts
      <3> QED
        BY <1>8, <3>1, <3>2
    <2> QED
      BY <1>10, <1>50, <2>1, <2>2, <2>3, <2>4, PushFacts DEF Window
  <1>12. FinalIsFinal'
    <2> SUFFICES ASSUME NEW i \in 1..Len(finals')
                 PROVE  finals'[i].bar = {x \in last' : /\ finals'[i].time < x.time
                                                        /\ x.time < finals'[i].time + D}
      BY PushFacts DEF FinalIsFinal
    <2>1. CASE i \in 1..Len(finals)
      <3>1. finals[i].time + D <= newest /\ finals'[i] = finals[i]
        BY <1>8, <1>9, <2>1
      <3> DEFINE t == finals[i].time
      <3>2. /\ t \in Int /\ D \in Int /\ newest \in Int
            /\ \A x \in last' : x.time \in Int
        BY <1>50, <2>1, PushFacts
      <3>3. t + D <= newest
        BY <3>1
      <3> HIDE DEF t
      <3>4. \A x \in last' : x.time < t + D => x.time < newest
        BY <3>2, <3>3
      <3>5. \A x \in last : x.time \in Int
        BY DEF TypeOK, Candle, Second
      <3>6. \A x \in last : x.time < t + D => x.time < newest
        BY <3>2, <3>3, <3>5
      <3> USE DEF t
      <3>7. finals[i].bar = {x \in last : /\ finals[i].time < x.time
                                          /\ x.time < finals[i].time + D}
        BY <2>1 DEF Correct, FinalIsFinal
      <3> QED
        BY <3>1, <3>4, <3>6, <3>7, PushFacts
    <2>2. CASE finals'[i].time = start /\ finals'[i].bar = bar
      BY <1>6, <2>2
    <2> QED
      BY <1>8, <2>1, <2>2
  <1>13. FinalsInOrder'
    <2> SUFFICES ASSUME NEW i \in 1..Len(finals'), NEW j \in 1..Len(finals'), i < j
                 PROVE  finals'[i].time + D <= finals'[j].time
      BY PushFacts DEF FinalsInOrder
    <2>1. i \in 1..Len(finals)
      BY <1>8
    <2>2. CASE j \in 1..Len(finals)
      BY <1>8, <2>1, <2>2 DEF Correct, FinalsInOrder
    <2>3. CASE finals'[j].time = start
      BY <1>8, <1>9, <2>1, <2>3
    <2> QED
      BY <1>8, <2>2, <2>3
  <1>14. NothingForgotten'
    <2> SUFFICES ASSUME NEW x \in last', base <= x.time, x.time < key
                 PROVE  \/ x.time \in closedAt'
                        \/ \E i \in 1..Len(finals') : x \in finals'[i].bar
      BY <1>50, PushFacts DEF NothingForgotten
    <2>1. CASE x.time < start
      <3>1. x \in last
        <4>1. x.time # c.time
          BY <1>50, <2>1, PushFacts
        <4> QED
          BY <4>1, PushFacts
      <3>2. x.time \in closedAt \/ \E i \in 1..Len(finals) : x \in finals[i].bar
        <4>1. x.time < currentKey - D
          BY <1>1, <2>1, <3>1, KeyAtFacts
        <4> QED
          BY <3>1, <4>1 DEF Correct, NothingForgotten
      <3> QED
        BY <1>4, <1>8, <3>2
    <2>2. CASE x.time = start
      BY <1>4, <2>2
    <2>3. CASE start < x.time
      <3>1. x \in bar
        BY <1>6, <1>50, <2>3
      <3> QED
        BY <1>8, <3>1
    <2> QED
      BY <2>1, <2>2, <2>3, PushFacts
  <1>15. BufferPruned'
    <2> SUFFICES ASSUME NEW x \in buffer'
                 PROVE  x.time >= key \/ x.time < base \/ (late /\ x.rev = Preloaded)
      BY <1>50, PushFacts DEF BufferPruned
    <2>1. x \in b /\ ~(start <= x.time /\ x.time < start + D) /\ x.time \in Int
      BY <1>2, <1>4, PushFacts DEF removeOldSeconds
    <2>2. CASE x = c
      BY <1>50, <2>2
    <2>3. CASE x # c
      <3>1. x \in buffer
        BY <1>2, <2>1, <2>3 DEF Store
      <3>2. x.time >= start \/ x.time < base \/ (late /\ x.rev = Preloaded)
        BY <1>1, <3>1, KeyAtFacts
      <3> QED
        BY <1>50, <2>1, <3>2
    <2> QED
      BY <2>2, <2>3
  <1> QED
    BY <1>10, <1>11, <1>12, <1>13, <1>14, <1>15 DEF Correct

LEMMA CorrectNext == TypeOK /\ Correct /\ [Next]_vars /\ D > 0 => Correct'
  <1> SUFFICES ASSUME TypeOK, Correct, [Next]_vars, D > 0
               PROVE  Correct'
    OBVIOUS
  <1>1. CASE UNCHANGED vars
    BY <1>1 DEF vars, Correct, Window, FinalIsFinal, FinalsInOrder,
                NothingForgotten, BufferPruned, PartialIsCurrent
  <1>2. ASSUME NEW c \in Candle, push1sCandle(c)
        PROVE  Correct'
    <2>1. ~PushSecond(c)
      BY DEF PushSecond
    <2> QED
      BY <1>2, <2>1, CorrectWithin, CorrectAcross DEF push1sCandle
  <1> QED
    BY <1>1, <1>2, CorrectRegister, CorrectInitKey, CorrectPreload DEF Next

-----------------------------------------------------------------------------
(* The "1s" timeframe, whose candles are complete bars at once. *)

Seconds ==
  /\ SecondsPassedOn
  /\ D = 0 => \A i \in 1..Len(finals) : finals[i].time <= newest

LEMMA SecondsInit == Init => Seconds
  <1> SUFFICES ASSUME Init
               PROVE  Seconds
    OBVIOUS
  <1>1. last = {} /\ Len(finals) = 0
    BY DEF Init
  <1>2. \A i \in 1..Len(finals) : FALSE
    BY <1>1
  <1> QED
    BY <1>1, <1>2 DEF Seconds, SecondsPassedOn

\* The candle is the last bar, and no bar is later than it.
LEMMA SecondsPush ==
  ASSUME TypeOK, Seconds, D = 0, NEW c \in Candle, push1sCandle(c)
  PROVE  Seconds'
  <1>1. /\ finals' = Sent({c}, c.time) /\ newest' = c.time /\ D' = D
        /\ c.time >= newest
        /\ last' = Store(last, c)
    BY CandleAssumption DEF push1sCandle, PushSecond, PushWithin, PushAcross
  <1>2. /\ c.time \in Int /\ newest \in Int /\ {c} \in Bar
        /\ \A i \in 1..Len(finals) : finals[i].time \in Int
    BY CandleKind, FinalsType DEF TypeOK, Second, Bar
  <1> DEFINE f == [time |-> c.time, bar |-> {c}]
             n == Len(finals)
  <1>3. /\ n \in Nat /\ Len(finals') = n + 1
        /\ finals'[n + 1] = f
        /\ \A i \in 1..n : finals'[i] = finals[i]
    <2>1. f \in Final /\ finals \in Seq(Final) /\ finals' = Append(finals, f)
      BY <1>1, <1>2 DEF TypeOK, Final, Sent
    <2> HIDE DEF f
    <2> QED
      BY <2>1, AppendFacts
  <1>4. f.time = c.time /\ f.bar = {c}
    OBVIOUS
  <1> HIDE DEF f, n
  <1>5. \A i \in 1..n : finals'[i].time \in Int /\ finals'[i].time <= newest
    BY <1>2, <1>3 DEF Seconds, n
  <1>6. \A i \in 1..(n + 1) : i \in 1..n \/ i = n + 1
    BY <1>3
  <1>7. \A i \in 1..(n + 1) : finals'[i].time <= c.time
    <2> TAKE i \in 1..(n + 1)
    <2>1. CASE i \in 1..n
      <3>1. /\ finals'[i].time \in Int /\ finals'[i].time <= newest
            /\ newest <= c.time
        BY <1>1, <1>2, <1>5, <2>1
      <3> QED
        BY <1>2, <3>1
    <2>2. CASE i = n + 1
      BY <1>2, <1>3, <1>4, <2>2
    <2> QED
      BY <1>6, <2>1, <2>2
  <1>8. \A x \in last' : \E i \in 1..(n + 1) : finals'[i].bar = {x}
    <2> TAKE x \in last'
    <2>1. CASE x = c
      <3>1. n + 1 \in 1..(n + 1)
        BY <1>3
      <3> QED
        BY <1>3, <1>4, <2>1, <3>1
    <2>2. CASE x # c
      <3>1. x \in last
        BY <1>1, <2>2 DEF Store
      <3>2. PICK i \in 1..n : finals[i].bar = {x}
        BY <3>1 DEF Seconds, SecondsPassedOn, n
      <3>3. i \in 1..(n + 1) /\ finals'[i].bar = {x}
        BY <1>3, <3>2
      <3> QED
        BY <3>3
    <2> QED
      BY <2>1, <2>2
  <1>9. \A i, j \in 1..(n + 1) : i < j => finals'[i].time <= finals'[j].time
    <2> SUFFICES ASSUME NEW i \in 1..(n + 1), NEW j \in 1..(n + 1), i < j
                 PROVE  finals'[i].time <= finals'[j].time
      OBVIOUS
    <2>1. i \in 1..n
      BY <1>3
    <2>2. CASE j \in 1..n
      BY <1>3, <2>1, <2>2 DEF Seconds, SecondsPassedOn, n
    <2>3. CASE j = n + 1
      BY <1>3, <1>4, <1>7, <2>3
    <2> QED
      BY <1>6, <2>2, <2>3
  <1> QED
    BY <1>1, <1>3, <1>7, <1>8, <1>9 DEF Seconds, SecondsPassedOn

LEMMA SecondsNext == TypeOK /\ Seconds /\ [Next]_vars => Seconds'
  <1> SUFFICES ASSUME TypeOK, Seconds, [Next]_vars
               PROVE  Seconds'
    OBVIOUS
  <1>1. ASSUME UNCHANGED <<D, last, finals, newest>>
        PROVE  Seconds'
    BY <1>1 DEF Seconds, SecondsPassedOn
  <1>2. CASE Register \/ (\E now \in Second : InitKey(now)) \/ (\E found \in BOOLEAN : Preload(found))
    BY <1>1, <1>2 DEF Register, InitKey, Preload
  <1>3. ASSUME NEW c \in Candle, push1sCandle(c)
        PROVE  Seconds'
    <2>1. CASE D = 0
      BY <1>3, <2>1, SecondsPush
    <2>2. CASE D # 0
      BY <1>3, <2>2 DEF push1sCandle, Seconds, SecondsPassedOn
    <2> QED
      BY <2>1, <2>2
  <1>4. CASE UNCHANGED vars
    BY <1>1, <1>4 DEF vars
  <1> QED
    BY <1>2, <1>3, <1>4 DEF Next

-----------------------------------------------------------------------------
(* The theorems. *)

LEMMA InvariantHolds == Spec => [](TypeOK /\ (D > 0 => Correct))
  <1>1. Init => TypeOK /\ (D > 0 => Correct)
    BY TypeInit, CorrectInit
  <1>2. TypeOK /\ (D > 0 => Correct) /\ [Next]_vars
          => (TypeOK /\ (D > 0 => Correct))'
    <2>1. [Next]_vars => D' = D
      BY DEF Next, Register, InitKey, Preload, push1sCandle, vars
    <2> QED
      BY <2>1, TypeNext, CorrectNext
  <1> QED
    BY <1>1, <1>2, PTL DEF Spec

(* The aggregator's state keeps its type, and the buffer holds one candle  *)
(* per second (the map of push1sCandle).                                   *)
THEOREM TypeCorrect == Spec => []TypeOK
  BY InvariantHolds, PTL

(* A complete bar of aggregateBuffer holds the last revision of every      *)
(* second inside its interval, for ever.                                   *)
THEOREM FinalsAreFinal == Spec => []FinalIsFinal
  <1>1. (D > 0 => Correct) => FinalIsFinal
    BY DEF Correct, FinalIsFinal
  <1> QED
    BY <1>1, InvariantHolds, PTL

(* push1sCandle closes the intervals in order and none twice.              *)
THEOREM FinalsOrdered == Spec => []FinalsInOrder
  <1>1. (D > 0 => Correct) => FinalsInOrder
    BY DEF Correct, FinalsInOrder
  <1> QED
    BY <1>1, InvariantHolds, PTL

(* push1sCandle loses no second of a closed interval but its first.        *)
THEOREM NoSecondForgotten == Spec => []NothingForgotten
  <1>1. (D > 0 => Correct) => NothingForgotten
    BY DEF Correct, NothingForgotten
  <1> QED
    BY <1>1, InvariantHolds, PTL

(* removeOldSeconds leaves nothing of a closed interval behind.            *)
THEOREM BufferStaysPruned == Spec => []BufferPruned
  <1>1. (D > 0 => Correct) => BufferPruned
    BY DEF Correct, BufferPruned
  <1> QED
    BY <1>1, InvariantHolds, PTL

(* buildPartialCandle sends what is known of the running interval.         *)
THEOREM PartialsAreCurrent == Spec => []PartialIsCurrent
  <1>1. (D > 0 => Correct) => PartialIsCurrent
    BY DEF Correct, PartialIsCurrent
  <1> QED
    BY <1>1, InvariantHolds, PTL

(* push1sCandle of the "1s" timeframe passes every candle on, whatever the *)
(* revisions of a second, in the order of time.                            *)
THEOREM SecondsArePassedOn == Spec => []SecondsPassedOn
  <1>1. Init => TypeOK /\ Seconds
    BY TypeInit, SecondsInit
  <1>2. TypeOK /\ Seconds /\ [Next]_vars => (TypeOK /\ Seconds)'
    BY TypeNext, SecondsNext
  <1>3. Seconds => SecondsPassedOn
    BY DEF Seconds
  <1> QED
    BY <1>1, <1>2, <1>3, PTL DEF Spec
=============================================================================
