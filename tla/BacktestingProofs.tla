------------------------- MODULE BacktestingProofs -------------------------
(***************************************************************************)
(* Proofs about the two programs of programs/backtesting, part by part:    *)
(* CandlesByPeriod fetches the candles of its period, once; the account of *)
(* backtest.go stays sound and refuses only orders decided on while others *)
(* were under way; that of validate.go is all money or all coins and loses *)
(* nothing, and its signals do not look ahead.  For every market, period,  *)
(* page size, capacity, warm-up, window and interleaving.                  *)
(***************************************************************************)
EXTENDS Backtesting, WellFoundedInduction, TLAPS

-----------------------------------------------------------------------------
(* Induction, and what loops compute. *)

\* Numbers that are some have a least: what induction comes down to here.
LEMMA Least ==
  ASSUME NEW T \in SUBSET Nat, T # {}
  PROVE  \E n \in T : \A m \in T : n <= m
<1>1. IsWellFoundedOn(OpToRel(<, Nat), Nat)
  BY NatLessThanWellFounded
<1>2. PICK n \in T : \A m \in T : ~(<<m, n>> \in OpToRel(<, Nat))
  BY <1>1, WFMin
<1>3. \A m \in T : ~(m < n)
  BY <1>2 DEF OpToRel
<1> QED
  BY <1>3

\* What holds at first and passes from each number to the next holds up to the last.
LEMMA Induct ==
  ASSUME NEW T, NEW from \in Nat, NEW last \in Nat, from \in T,
         \A i \in (from + 1)..last : i - 1 \in T => i \in T
  PROVE  \A i \in from..last : i \in T
<1> DEFINE Rest == {i \in from..last : i \notin T}
<1>1. CASE Rest = {}
  BY <1>1
<1>2. CASE Rest # {}
  <2>1. Rest \in SUBSET Nat
    OBVIOUS
  <2>2. PICK n \in Rest : \A m \in Rest : n <= m
    <3> HIDE DEF Rest
    <3> QED
      BY <1>2, <2>1, Least
  <2>3. n \in (from + 1)..last /\ n - 1 \in from..last
    <3>1. n # from
      BY <2>2
    <3> QED
      BY <2>2, <3>1
  <2>4. n - 1 \notin Rest
    <3> HIDE DEF Rest
    <3> QED
      BY <2>1, <2>2
  <2> QED
    BY <2>2, <2>3, <2>4
<1> QED
  BY <1>1, <1>2

\* What a loop computes step by step.
IsLoop(f, State, start, step, last) ==
  /\ f \in [0..last -> State]
  /\ f[0] = start
  /\ \A i \in 1..last : f[i] = step[i][f[i - 1]]

LEMMA LoopExists ==
  ASSUME NEW State, NEW start \in State, NEW step \in [Nat -> [State -> State]],
         NEW last \in Nat
  PROVE  \E f : IsLoop(f, State, start, step, last)
<1> USE DEF IsLoop
<1> DEFINE Loop(n, f) == IsLoop(f, State, start, step, n)
<1> DEFINE T == {n \in Nat : ~ \E f : Loop(n, f)}
<1>1. CASE T = {}
  BY <1>1
<1>2. CASE T # {}
  <2>1. PICK n \in T : \A m \in T : n <= m
    BY <1>2, Least
  <2>2. Loop(0, [i \in 0..0 |-> start])
    <3>1. 0 \in 0..0 /\ 1..0 = {}
      OBVIOUS
    <3> QED
      BY <3>1
  <2>3. n \in Nat /\ n # 0 /\ n - 1 \in Nat /\ n - 1 \notin T
    <3>1. 0 \notin T
      BY <2>2
    <3>2. n \in Nat
      OBVIOUS
    <3> HIDE DEF T
    <3> QED
      BY <2>1, <3>1, <3>2
  <2>4. PICK f : Loop(n - 1, f)
    BY <2>3
  <2> DEFINE next == step[n][f[n - 1]]
  <2> DEFINE g == [i \in 0..n |-> IF i < n THEN f[i] ELSE next]
  <2>5. n - 1 \in 0..(n - 1) /\ f[n - 1] \in State /\ next \in State
    BY <2>3, <2>4
  <2>6. ASSUME NEW i \in 0..n
        PROVE  g[i] = (IF i < n THEN f[i] ELSE next) /\ (i < n => i \in 0..(n - 1))
    BY <2>3
  <2>7. g \in [0..n -> State]
    BY <2>4, <2>5, <2>6
  <2>8. ASSUME NEW i \in 1..n
        PROVE  g[i] = step[i][g[i - 1]]
    <3>1. i \in 0..n /\ i - 1 \in 0..n /\ i - 1 < n /\ i \in Nat
      BY <2>3
    <3>2. g[i - 1] = f[i - 1]
      BY <2>6, <3>1
    <3>3. CASE i < n
      BY <2>3, <2>4, <2>6, <3>1, <3>2, <3>3
    <3>4. CASE i = n
      BY <2>6, <3>1, <3>2, <3>4
    <3> QED
      BY <2>3, <3>3, <3>4
  <2>9. g[0] = start
    BY <2>3, <2>4, <2>6
  <2>10. Loop(n, g)
    BY <2>7, <2>8, <2>9
  <2> QED
    BY <2>1, <2>10
<1> QED
  BY <1>1, <1>2

\* What a loop computes is determined by its start and its step.
LEMMA LoopOnly ==
  ASSUME NEW State, NEW start \in State, NEW step \in [Nat -> [State -> State]],
         NEW last \in Nat, NEW h, h[0] = start,
         \A i \in 1..last : h[i - 1] \in State => h[i] = step[i][h[i - 1]]
  PROVE  \A i \in 0..last : h[i] \in State
<1> DEFINE T == {i \in 0..last : h[i] \notin State}
<1> SUFFICES ASSUME T # {}  PROVE FALSE
  OBVIOUS
<1>1. PICK n \in T : \A m \in T : n <= m
  <2>1. T \subseteq Nat
    OBVIOUS
  <2> HIDE DEF T
  <2> QED
    BY <2>1, Least
<1>2. n # 0
  OBVIOUS
<1>3. n \in 1..last /\ n \in Nat /\ n - 1 \in 0..last /\ n - 1 \notin T
  BY <1>1, <1>2
<1>4. h[n - 1] \in State
  BY <1>3
<1> QED
  BY <1>3, <1>4

LEMMA FlattenedType ==
  ASSUME NEW S, NEW seqs \in Seq(Seq(S))
  PROVE  FlattenSeq(seqs) \in Seq(S)
<1> DEFINE N == Len(seqs)
<1>0. N \in Nat /\ seqs \in [1..N -> Seq(S)]
  OBVIOUS
<1>1. CASE N = 0
  <2>1. FlattenSeq(seqs) = seqs /\ seqs = <<>>
    BY <1>1 DEF FlattenSeq
  <2> QED
    BY <2>1
<1>2. CASE N # 0
  <2> DEFINE F(h) == [i \in 1..N |-> IF i = 1 THEN seqs[i] ELSE h[i - 1] \o seqs[i]]
  <2> DEFINE flatten == CHOOSE h : h = F(h)
  <2>1. FlattenSeq(seqs) = flatten[N]
    BY <1>2 DEF FlattenSeq
  <2> DEFINE All == Seq(S)
  <2> DEFINE next(i, s) == IF i = 1 THEN seqs[1]
                           ELSE IF i \in 1..N THEN s \o seqs[i] ELSE <<>>
  <2> DEFINE step == [i \in Nat |-> [s \in All |-> next(i, s)]]
  <2>2. ASSUME NEW i \in Nat, NEW s \in All
        PROVE  next(i, s) \in All
    <3>1. CASE i = 1
      BY <1>0, <1>2, <3>1
    <3>2. CASE i # 1 /\ i \in 1..N
      BY <1>0, <3>2
    <3>3. CASE i # 1 /\ i \notin 1..N
      BY <3>3
    <3> QED
      BY <3>1, <3>2, <3>3
  <2>3. <<>> \in All
    OBVIOUS
  <2>4. PICK f : IsLoop(f, All, <<>>, step, N)
    <3>1. step \in [Nat -> [All -> All]]
      <4> HIDE DEF next, All
      <4> QED
        BY <2>2
    <3> HIDE DEF All, step, N
    <3> QED
      BY <1>0, <2>3, <3>1, LoopExists
  <2> DEFINE g == [i \in 1..N |-> f[i]]
  <2>5. g = F(g)
    <3>1. ASSUME NEW i \in 1..N
          PROVE  f[i] = IF i = 1 THEN seqs[i] ELSE g[i - 1] \o seqs[i]
      <4>1. f[i - 1] \in All /\ i \in Nat
        <5>1. i - 1 \in 0..N /\ i \in Nat
          BY <1>0
        <5> QED
          BY <2>4, <5>1 DEF IsLoop
      <4>2. f[i] = next(i, f[i - 1])
        <5> HIDE DEF next, All, N
        <5> QED
          BY <2>4, <4>1 DEF IsLoop
      <4>3. i # 1 => g[i - 1] = f[i - 1]
        BY <1>0
      <4> QED
        BY <4>2, <4>3
    <3> HIDE DEF N
    <3> QED
      BY <3>1
  <2>6. flatten = F(flatten)
    <3> HIDE DEF F, g
    <3> QED
      BY <2>5
  <2> HIDE DEF flatten
  <2>7. \A i \in 1..N : flatten[i] = IF i = 1 THEN seqs[i] ELSE flatten[i - 1] \o seqs[i]
    BY <2>6
  <2> DEFINE T == {i \in 1..N : flatten[i] \notin Seq(S)}
  <2>8. T = {}
    <3> SUFFICES ASSUME T # {}  PROVE FALSE
      OBVIOUS
    <3>1. T \subseteq Nat
      BY <1>0
    <3>2. PICK n \in T : \A m \in T : n <= m
      <4> HIDE DEF T
      <4> QED
        BY <3>1, Least
    <3>3. n \in 1..N /\ n \in Nat
      BY <1>0
    <3>4. CASE n = 1
      BY <1>0, <2>7, <3>3, <3>4
    <3>5. CASE n # 1
      <4>1. n - 1 \in 1..N /\ n - 1 \notin T
        BY <1>0, <3>2, <3>3, <3>5
      <4>2. flatten[n - 1] \in Seq(S) /\ seqs[n] \in Seq(S)
        BY <1>0, <3>3, <4>1
      <4>3. flatten[n - 1] \o seqs[n] \in Seq(S)
        BY <4>2
      <4> QED
        BY <2>7, <3>3, <3>5, <4>3
    <3> QED
      BY <3>4, <3>5
  <2>9. N \in 1..N
    BY <1>0, <1>2
  <2> HIDE DEF N
  <2> QED
    BY <2>1, <2>8, <2>9
<1> QED
  BY <1>1, <1>2

-----------------------------------------------------------------------------
(* The candles of a period: CandlePages. *)

\* While the call goes on it holds the candles from toTime to the end, once.
PagesInv ==
  /\ asked \in Asked
  /\ toTime \in Int /\ toTime <= asked.end
  /\ allCandles \in [Traded -> Nat]
  /\ fetch \in {"request", "done", "failed"}
  /\ fetch = "request" =>
       \A t \in Traded :
         allCandles[t] = IF toTime <= t /\ t < asked.end THEN 1 ELSE 0
  /\ PeriodComplete

LEMMA AskedTypes ==
  ASSUME asked \in Asked
  PROVE  Traded \subseteq Int /\ asked.start \in Int /\ asked.end \in Int
  BY PagesAssumption DEF PagesAssumption, Traded

\* A page has all candles from its oldest one up to toTime, and no other.
LEMMA PageIsInterval ==
  ASSUME asked \in Asked, toTime \in Int,
         NEW page \in SUBSET Older, IsPage(page),
         NEW oldest \in page, \A t \in page : oldest <= t,
         NEW t \in Traded
  PROVE  t \in page <=> oldest <= t /\ t < toTime
<1>1. Traded \subseteq Int
  BY AskedTypes
<1>2. ASSUME t \in page  PROVE oldest <= t /\ t < toTime
  BY <1>2 DEF Older
<1>3. ASSUME oldest <= t, t < toTime, t \notin page  PROVE FALSE
  <2>1. t \in Older \ page
    BY <1>3 DEF Older
  <2>2. t < oldest
    BY <2>1 DEF IsPage
  <2>3. t \in Int /\ oldest \in Int
    BY <1>1 DEF Older
  <2> QED
    BY <1>3, <2>2, <2>3
<1> QED
  BY <1>2, <1>3

LEMMA PagesInitial == PagesInit => PagesInv
<1> SUFFICES ASSUME PagesInit  PROVE PagesInv
  OBVIOUS
<1> USE DEF PagesInit
<1>1. Traded \subseteq Int /\ asked.start \in Int /\ asked.end \in Int
  BY AskedTypes
<1>2. allCandles \in [Traded -> Nat]
  OBVIOUS
<1>3. \A t \in Traded :
        allCandles[t] = IF toTime <= t /\ t < asked.end THEN 1 ELSE 0
  BY <1>1
<1> QED
  BY <1>1, <1>2, <1>3 DEF PagesInv, PeriodComplete

LEMMA PagesStep == PagesInv /\ [PagesNext]_pagesVars => PagesInv'
<1> SUFFICES ASSUME PagesInv, [PagesNext]_pagesVars  PROVE PagesInv'
  OBVIOUS
<1>0. asked \in Asked /\ Traded \subseteq Int /\ asked.start \in Int /\ asked.end \in Int
  BY AskedTypes DEF PagesInv
<1>1. CASE NextPage
  <2>1. PICK page \in SUBSET Older : IsPage(page) /\ Page(page)
    BY <1>1 DEF NextPage
  <2>2. PICK oldest \in page :
          /\ \A t \in page : oldest <= t
          /\ allCandles' = [t \in Traded |-> allCandles[t] + IF t \in page THEN 1 ELSE 0]
          /\ IF oldest > asked.start
             THEN toTime' = oldest /\ UNCHANGED fetch
             ELSE fetch' = "done" /\ UNCHANGED toTime
          /\ UNCHANGED asked
    BY <2>1 DEF Page
  <2>3. oldest \in Int /\ oldest < toTime
    BY <1>0 DEF Older
  <2>4. Traded' = Traded
    BY <2>2 DEF Traded
  <2>5. ASSUME NEW t \in Traded
        PROVE  allCandles'[t] = IF oldest <= t /\ t < asked.end THEN 1 ELSE 0
    <3>1. t \in page <=> oldest <= t /\ t < toTime
      BY <1>0, <2>1, <2>2, PageIsInterval DEF PagesInv
    <3>2. allCandles[t] = IF toTime <= t /\ t < asked.end THEN 1 ELSE 0
      BY <1>1 DEF PagesInv, NextPage
    <3>3. allCandles'[t] = allCandles[t] + IF t \in page THEN 1 ELSE 0
      BY <2>2
    <3>4. t \in Int /\ toTime \in Int /\ toTime <= asked.end
      BY <1>0 DEF PagesInv
    <3> QED
      BY <1>0, <2>3, <3>1, <3>2, <3>3, <3>4
  <2>6. allCandles' \in [Traded' -> Nat]
    BY <2>2, <2>4 DEF PagesInv
  <2>7. CASE oldest > asked.start
    <3>1. fetch' = "request" /\ toTime' = oldest
      BY <1>1, <2>2, <2>7 DEF NextPage
    <3>2. toTime' \in Int /\ toTime' <= asked'.end
      BY <1>0, <2>2, <2>3, <3>1 DEF PagesInv
    <3>3. PeriodComplete'
      BY <3>1 DEF PeriodComplete
    <3> QED
      BY <1>0, <2>2, <2>4, <2>5, <2>6, <3>1, <3>2, <3>3 DEF PagesInv
  <2>8. CASE ~(oldest > asked.start)
    <3>1. fetch' = "done" /\ toTime' = toTime
      BY <2>2, <2>8
    <3>2. ASSUME NEW t \in Traded, asked.start <= t, t <= asked.end
          PROVE  allCandles'[t] = IF t < asked.end THEN 1 ELSE 0
      <4>1. oldest <= t
        BY <1>0, <2>3, <2>8, <3>2
      <4> QED
        BY <2>5, <4>1
    <3>3. PeriodComplete'
      BY <2>2, <2>4, <3>2 DEF PeriodComplete, InPeriod
    <3> QED
      BY <1>0, <2>2, <2>4, <2>6, <3>1, <3>3 DEF PagesInv
  <2> QED
    BY <2>7, <2>8
<1>2. CASE EmptyPage
  <2>1. Traded' = Traded
    BY <1>2 DEF EmptyPage, Traded
  <2>2. ASSUME NEW t \in Traded
        PROVE  allCandles'[t] = IF t < asked.end THEN 1 ELSE 0
    <3>1. ~(t < toTime)
      BY <1>2 DEF EmptyPage, Older
    <3>2. toTime <= t
      BY <1>0, <3>1 DEF PagesInv
    <3> QED
      BY <1>2, <3>2 DEF EmptyPage, PagesInv
  <2>3. PeriodComplete'
    BY <1>2, <2>1, <2>2 DEF EmptyPage, PeriodComplete, InPeriod
  <2> QED
    BY <1>0, <1>2, <2>1, <2>3 DEF EmptyPage, PagesInv
<1>3. CASE PageFails
  BY <1>3 DEF PageFails, PagesInv, PeriodComplete, Traded
<1>4. CASE UNCHANGED pagesVars
  BY <1>4 DEF pagesVars, PagesInv, PeriodComplete, InPeriod, Traded
<1> QED
  BY <1>1, <1>2, <1>3, <1>4 DEF PagesNext

(* Paging neither loses a candle before the end of the period nor doubles  *)
(* one, whatever the market, the period and the size of a page:            *)
(* CandlesByPeriod of exchange/upbit.go.                                   *)
THEOREM PeriodsComplete == PagesSpec => []PeriodComplete
<1>1. PagesInv => PeriodComplete
  BY DEF PagesInv
<1> QED
  BY PagesInitial, PagesStep, <1>1, PTL DEF PagesSpec

-----------------------------------------------------------------------------
(* The account of a backtest: Backtest. *)

BacktestOrder == [side : {"sell", "buy"}, amount : Nat, settled : BOOLEAN]

\* An order under way, of which the check may be over.
UnderWay == {"buy", "sell", "bought", "priced", "owing", "paid", "selling", "sold"}

BacktestType ==
  /\ closes \in Seq(Nat \ {0}) /\ bar \in 0..Len(closes) /\ currentPrice \in Nat
  /\ Coin \in Nat /\ KRW \in Nat
  /\ main \in {"load", "next", "position", "quote", "decide", "publish", "done"}
  /\ coinAmt \in Nat /\ krwAmt \in Nat /\ settled \in BOOLEAN
  /\ out \in Seq(BacktestOrder) /\ queue \in Seq(BacktestOrder)
  /\ order \in Seq(BacktestOrder)
  /\ processing \in {"idle"} \cup UnderWay
  /\ qty \in Nat
  /\ main = "load" => bar = 0
  /\ processing = "idle" => order = <<>>
  /\ processing \in UnderWay => Len(order) = 1
  /\ main # "publish" <=> out = <<>>

\* There is a price before there are orders, and what is being paid is there.
Covered ==
  /\ bar > 0 => currentPrice > 0
  /\ (out # <<>> \/ queue # <<>> \/ order # <<>>
        \/ main \in {"position", "quote", "decide"}) => bar > 0
  /\ processing = "buy" => order[1].side = "buy"
  /\ processing = "sell" => order[1].side = "sell"
  /\ processing \in {"bought", "priced", "owing"} => order[1].amount <= KRW
  /\ processing \in {"bought", "priced", "owing", "paid"} => order[1].side = "buy"
  /\ processing = "selling" => order[1].amount <= Coin
  /\ processing \in {"selling", "sold"} => order[1].side = "sell" /\ pay.cost \in Nat

\* What the account has is enough for an order.
Fits(o) == o.amount <= (IF o.side = "sell" THEN Coin ELSE KRW)

\* Two orders of one reading of the account.
Apart(o, p) == o.settled /\ p.settled => o.side # p.side

\* Until an order of a settled reading is checked, the account can pay for it.
StillFits ==
  /\ main \in {"quote", "decide"} /\ settled =>
       queue = <<>> /\ order = <<>> /\ coinAmt = Coin
       /\ (main = "decide" => krwAmt = KRW)
  /\ \A i \in DOMAIN out : out[i].settled => Fits(out[i])
  /\ \A i \in DOMAIN queue : queue[i].settled => Fits(queue[i])
  /\ processing \in {"buy", "sell"} /\ order[1].settled => Fits(order[1])
  /\ \A i, j \in DOMAIN out : i # j => Apart(out[i], out[j])
  /\ \A i, j \in DOMAIN queue : i # j => Apart(queue[i], queue[j])
  /\ \A i \in DOMAIN out, j \in DOMAIN queue : Apart(out[i], queue[j])
  /\ order # <<>> => /\ \A i \in DOMAIN out : Apart(order[1], out[i])
                     /\ \A i \in DOMAIN queue : Apart(order[1], queue[i])

BacktestInv ==
  BacktestType /\ Covered /\ StillFits /\ RefusedWhenBehind

\* What was read while orders were under way comes after them: an order of a
\* settled reading has only such orders before it.
SettledFirst ==
  /\ \A i, j \in DOMAIN out : out[i].settled => out[j].settled
  /\ \A i, j \in DOMAIN queue : i < j /\ queue[j].settled => queue[i].settled
  /\ \A i \in DOMAIN out, j \in DOMAIN queue : out[i].settled => queue[j].settled
  /\ order # <<>> =>
       /\ \A i \in DOMAIN out : out[i].settled => order[1].settled
       /\ \A i \in DOMAIN queue : queue[i].settled => order[1].settled

-----------------------------------------------------------------------------
LEMMA HalfNat ==
  ASSUME NEW n \in Nat
  PROVE  Half(n) \in Nat /\ Half(n) <= n
BY DEF Half

LEMMA TimesNat ==
  ASSUME NEW m \in Nat, NEW n \in Nat
  PROVE  m * n \in Nat
OBVIOUS

\* The orders of one candle: a sale within the coins and a purchase within
\* the money that were read.
Decision(orders) ==
  /\ orders \in Seq(BacktestOrder)
  /\ \A i \in DOMAIN orders :
       /\ orders[i].settled = settled
       /\ orders[i].amount <= (IF orders[i].side = "sell" THEN coinAmt ELSE krwAmt)
  /\ \A i, j \in DOMAIN orders : i # j => orders[i].side # orders[j].side

LEMMA SaleFits ==
  ASSUME BacktestType, NEW s
  PROVE  \/ Sale(s) = <<>>
         \/ \E n \in Nat : /\ n <= coinAmt
                           /\ Sale(s) = <<[side |-> "sell", amount |-> n,
                                           settled |-> settled]>>
<1>1. coinAmt \in Nat /\ Half(coinAmt) \in Nat /\ Half(coinAmt) <= coinAmt
  BY HalfNat DEF BacktestType
<1> QED
  BY <1>1 DEF Sale, executeSell

LEMMA PurchaseFits ==
  ASSUME BacktestType, NEW s
  PROVE  \/ Purchase(s) = <<>>
         \/ \E n \in Nat : /\ n <= krwAmt
                           /\ Purchase(s) = <<[side |-> "buy", amount |-> n,
                                               settled |-> settled]>>
<1>1. krwAmt \in Nat /\ Half(krwAmt) \in Nat /\ Half(krwAmt) <= krwAmt
  BY HalfNat DEF BacktestType
<1> QED
  BY <1>1 DEF Purchase, executeBuy

\* What an order read off the account is.
Allowed(o) ==
  /\ o \in BacktestOrder
  /\ o.settled = settled
  /\ o.amount <= (IF o.side = "sell" THEN coinAmt ELSE krwAmt)

LEMMA DecideOne ==
  ASSUME NEW o, Allowed(o)
  PROVE  Decision(<<o>>)
<1>1. DOMAIN <<o>> = {1} /\ <<o>>[1] = o
  OBVIOUS
<1>2. <<o>> \in Seq(BacktestOrder)
  BY DEF Allowed
<1> QED
  BY <1>1, <1>2 DEF Decision, Allowed

LEMMA DecideTwo ==
  ASSUME NEW o, NEW p, Allowed(o), Allowed(p), o.side # p.side
  PROVE  Decision(<<o>> \o <<p>>)
<1>1. o \in BacktestOrder /\ p \in BacktestOrder
  BY DEF Allowed
<1> HIDE DEF BacktestOrder
<1>2. <<o>> \o <<p>> \in Seq(BacktestOrder)
  BY <1>1
<1>3. /\ DOMAIN (<<o>> \o <<p>>) = {1, 2}
      /\ (<<o>> \o <<p>>)[1] = o /\ (<<o>> \o <<p>>)[2] = p
  OBVIOUS
<1> QED
  BY <1>2, <1>3 DEF Decision, Allowed

LEMMA SignalsDecide ==
  ASSUME BacktestType, NEW s
  PROVE  Decision(Sale(s) \o Purchase(s))
<1>0. settled \in BOOLEAN
  BY DEF BacktestType
<1>1. ASSUME NEW n \in Nat, n <= coinAmt
      PROVE  Allowed([side |-> "sell", amount |-> n, settled |-> settled])
  BY <1>0, <1>1 DEF BacktestOrder, Allowed
<1>2. ASSUME NEW n \in Nat, n <= krwAmt
      PROVE  Allowed([side |-> "buy", amount |-> n, settled |-> settled])
  BY <1>0, <1>2 DEF BacktestOrder, Allowed
<1>3. CASE Sale(s) = <<>> /\ Purchase(s) = <<>>
  BY <1>3 DEF Decision
<1>4. CASE Sale(s) = <<>> /\ Purchase(s) # <<>>
  <2>1. PICK n \in Nat : n <= krwAmt /\ Purchase(s) = <<[side |-> "buy", amount |-> n, settled |-> settled]>>
    BY <1>4, PurchaseFits
  <2>2. Sale(s) \o Purchase(s) = <<[side |-> "buy", amount |-> n, settled |-> settled]>>
    BY <1>4, <2>1
  <2> QED
    BY <1>2, <2>1, <2>2, DecideOne
<1>5. CASE Sale(s) # <<>> /\ Purchase(s) = <<>>
  <2>1. PICK n \in Nat : n <= coinAmt /\ Sale(s) = <<[side |-> "sell", amount |-> n, settled |-> settled]>>
    BY <1>5, SaleFits
  <2>2. Sale(s) \o Purchase(s) = <<[side |-> "sell", amount |-> n, settled |-> settled]>>
    BY <1>5, <2>1
  <2> QED
    BY <1>1, <2>1, <2>2, DecideOne
<1>6. CASE Sale(s) # <<>> /\ Purchase(s) # <<>>
  <2>1. PICK n \in Nat : n <= coinAmt /\ Sale(s) = <<[side |-> "sell", amount |-> n, settled |-> settled]>>
    BY <1>6, SaleFits
  <2>2. PICK m \in Nat : m <= krwAmt /\ Purchase(s) = <<[side |-> "buy", amount |-> m, settled |-> settled]>>
    BY <1>6, PurchaseFits
  <2> QED
    BY <1>1, <1>2, <2>1, <2>2, DecideTwo
<1> QED
  BY <1>3, <1>4, <1>5, <1>6

LEMMA RiskDecides ==
  ASSUME BacktestType
  PROVE  Decision(executeSell(Half(coinAmt)))
<1>1. coinAmt \in Nat /\ Half(coinAmt) \in Nat /\ Half(coinAmt) <= coinAmt
  BY HalfNat DEF BacktestType
<1>2. Allowed([side |-> "sell", amount |-> Half(coinAmt), settled |-> settled])
  BY <1>1 DEF BacktestType, BacktestOrder, Allowed
<1> QED
  BY <1>2, DecideOne DEF executeSell

-----------------------------------------------------------------------------
LEMMA BacktestInitial == BacktestInit => BacktestInv
<1> SUFFICES ASSUME BacktestInit  PROVE BacktestInv
  OBVIOUS
<1> USE BacktestAssumption DEF BacktestAssumption, BacktestInit
<1>1. BacktestType
  BY DEF BacktestType, UnderWay
<1>2. Covered
  BY DEF Covered
<1>3. StillFits
  BY DEF StillFits
<1>4. RefusedWhenBehind
  BY DEF RefusedWhenBehind
<1> QED
  BY <1>1, <1>2, <1>3, <1>4 DEF BacktestInv

\* main: what it decides on, it takes from the account it has read.
LEMMA IssueKeeps ==
  ASSUME BacktestInv, main = "decide", NEW orders, Decision(orders), Issue(orders)
  PROVE  BacktestInv'
<1> USE DEF BacktestInv, Issue, account, brokerVars
<1>1. BacktestType'
  BY DEF BacktestType, Decision
<1>2. Covered'
  BY DEF BacktestType, Covered
<1>3. StillFits'
  <2>1. \A i \in DOMAIN out' : out'[i].settled => settled
    BY DEF Decision
  <2>2. settled => queue = <<>> /\ order = <<>> /\ coinAmt = Coin /\ krwAmt = KRW
    BY DEF StillFits
  <2>3. \A i \in DOMAIN out' : out'[i].settled => Fits(out'[i])
    BY <2>1, <2>2 DEF Decision, Fits
  <2>4. \A i \in DOMAIN queue' : queue'[i].settled => Fits(queue'[i])
    BY DEF StillFits, Fits
  <2>5. processing' \in {"buy", "sell"} /\ order'[1].settled => Fits(order'[1])
    BY DEF StillFits, Fits
  <2>6. \A i, j \in DOMAIN out' : i # j => Apart(out'[i], out'[j])
    BY DEF Decision, Apart
  <2>7. \A i, j \in DOMAIN queue' : i # j => Apart(queue'[i], queue'[j])
    BY DEF StillFits
  <2>8. \A i \in DOMAIN out', j \in DOMAIN queue' : Apart(out'[i], queue'[j])
    BY <2>1, <2>2 DEF Apart
  <2>9. order' # <<>> => /\ \A i \in DOMAIN out' : Apart(order'[1], out'[i])
                        /\ \A i \in DOMAIN queue' : Apart(order'[1], queue'[i])
    BY <2>1, <2>2 DEF StillFits, Apart
  <2>10. main' \notin {"quote", "decide"}
    OBVIOUS
  <2> QED
    BY <2>3, <2>4, <2>5, <2>6, <2>7, <2>8, <2>9, <2>10 DEF StillFits, Apart, Fits
<1>4. RefusedWhenBehind'
  BY DEF RefusedWhenBehind
<1> QED
  BY <1>1, <1>2, <1>3, <1>4

LEMMA LoadKeeps ==
  ASSUME BacktestInv, NEW loaded \in Seq(Nat \ {0}), Load(loaded)
  PROVE  BacktestInv'
<1> USE DEF BacktestInv, Load, account, brokerVars
<1>1. BacktestType'
  BY DEF BacktestType
<1>2. Covered'
  BY DEF Covered
<1>3. StillFits'
  BY DEF StillFits, Fits, Apart
<1> QED
  BY <1>1, <1>2, <1>3 DEF RefusedWhenBehind

LEMMA NextCandleKeeps == BacktestInv /\ NextCandle => BacktestInv'
<1> SUFFICES ASSUME BacktestInv, NextCandle  PROVE BacktestInv'
  OBVIOUS
<1> USE DEF BacktestInv, NextCandle, account, brokerVars
<1>1. BacktestType'
  BY DEF BacktestType
<1>2. closes[bar + 1] > 0 /\ bar + 1 > 0
  BY DEF BacktestType
<1>3. Covered'
  BY <1>2 DEF Covered
<1>4. StillFits'
  BY DEF StillFits, Fits, Apart
<1> QED
  BY <1>1, <1>3, <1>4 DEF RefusedWhenBehind

LEMMA ReadCoinKeeps == BacktestInv /\ ReadCoin => BacktestInv'
<1> SUFFICES ASSUME BacktestInv, ReadCoin  PROVE BacktestInv'
  OBVIOUS
<1> USE DEF BacktestInv, ReadCoin, account, brokerVars
<1>1. BacktestType'
  BY DEF BacktestType
<1>2. Covered'
  BY DEF Covered
<1>3. StillFits'
  BY DEF StillFits, Fits, Apart
<1> QED
  BY <1>1, <1>2, <1>3 DEF RefusedWhenBehind

LEMMA ReadKRWKeeps == BacktestInv /\ ReadKRW => BacktestInv'
<1> SUFFICES ASSUME BacktestInv, ReadKRW  PROVE BacktestInv'
  OBVIOUS
<1> USE DEF BacktestInv, ReadKRW, account, brokerVars
<1>1. BacktestType'
  BY DEF BacktestType
<1>2. Covered'
  BY DEF Covered
<1>3. StillFits'
  BY DEF StillFits, Fits, Apart
<1> QED
  BY <1>1, <1>2, <1>3 DEF RefusedWhenBehind

LEMMA FinishKeeps == BacktestInv /\ Finish => BacktestInv'
<1> SUFFICES ASSUME BacktestInv, Finish  PROVE BacktestInv'
  OBVIOUS
<1> USE DEF BacktestInv, Finish, account, brokerVars
<1>1. BacktestType'
  BY DEF BacktestType
<1>2. Covered'
  BY DEF Covered
<1>3. StillFits'
  BY DEF StillFits, Fits, Apart
<1> QED
  BY <1>1, <1>2, <1>3 DEF RefusedWhenBehind

\* An order goes from one end of the queue to the other, and keeps what is
\* known of it.
LEMMA PublishKeeps == BacktestInv /\ Publish => BacktestInv'
<1> SUFFICES ASSUME BacktestInv, Publish  PROVE BacktestInv'
  OBVIOUS
<1> USE DEF BacktestInv, Publish, account, brokerVars
<1>0. out \in Seq(BacktestOrder) /\ out # <<>> /\ queue \in Seq(BacktestOrder)
  BY DEF BacktestType
<1>1. BacktestType'
  <2>1. out' \in Seq(BacktestOrder) /\ queue' \in Seq(BacktestOrder)
    BY <1>0
  <2> QED
    BY <2>1 DEF BacktestType
<1>2. Covered'
  BY <1>0 DEF Covered
<1>3. \A i \in DOMAIN out' : i + 1 \in DOMAIN out /\ out'[i] = out[i + 1] /\ i \in Nat \ {0}
  BY <1>0
<1>4. \A i \in DOMAIN queue' :
        \/ i \in DOMAIN queue /\ queue'[i] = queue[i]
        \/ i = Len(queue) + 1 /\ queue'[i] = out[1]
  BY <1>0
<1>5. 1 \in DOMAIN out
  BY <1>0
<1>6. Len(queue) + 1 \notin DOMAIN queue
  BY <1>0
<1>7. StillFits'
  <2>1. \A i \in DOMAIN out' : out'[i].settled => Fits(out'[i])
    BY <1>3 DEF StillFits, Fits
  <2>2. \A i \in DOMAIN queue' : queue'[i].settled => Fits(queue'[i])
    BY <1>4, <1>5 DEF StillFits, Fits
  <2>3. \A i, j \in DOMAIN out' : i # j => Apart(out'[i], out'[j])
    <3> SUFFICES ASSUME NEW i \in DOMAIN out', NEW j \in DOMAIN out', i # j
                 PROVE  Apart(out'[i], out'[j])
      OBVIOUS
    <3>1. i + 1 # j + 1
      BY <1>3
    <3> QED
      BY <1>3, <3>1 DEF StillFits
  <2>4. \A i, j \in DOMAIN queue' : i # j => Apart(queue'[i], queue'[j])
    <3> SUFFICES ASSUME NEW i \in DOMAIN queue', NEW j \in DOMAIN queue', i # j
                 PROVE  Apart(queue'[i], queue'[j])
      OBVIOUS
    <3> QED
      BY <1>4, <1>5, <1>6 DEF StillFits, Apart
  <2>5. \A i \in DOMAIN out', j \in DOMAIN queue' : Apart(out'[i], queue'[j])
    <3> SUFFICES ASSUME NEW i \in DOMAIN out', NEW j \in DOMAIN queue'
                 PROVE  Apart(out'[i], queue'[j])
      OBVIOUS
    <3>1. i + 1 # 1 /\ i + 1 \in DOMAIN out /\ out'[i] = out[i + 1]
      BY <1>3
    <3>2. Apart(out[i + 1], out[1])
      BY <1>5, <3>1 DEF StillFits
    <3> QED
      BY <1>4, <3>1, <3>2 DEF StillFits
  <2>6. order' # <<>> => /\ \A i \in DOMAIN out' : Apart(order'[1], out'[i])
                        /\ \A i \in DOMAIN queue' : Apart(order'[1], queue'[i])
    BY <1>3, <1>4, <1>5 DEF StillFits
  <2> QED
    BY <2>1, <2>2, <2>3, <2>4, <2>5, <2>6 DEF StillFits, Fits, Apart
<1> QED
  BY <1>1, <1>2, <1>7 DEF RefusedWhenBehind

-----------------------------------------------------------------------------
\* The broker: the order it takes leaves the queue, and what it does to the
\* account leaves the rest of one reading its share.
LEMMA TakeOrderKeeps == BacktestInv /\ TakeOrder => BacktestInv'
<1> SUFFICES ASSUME BacktestInv, TakeOrder  PROVE BacktestInv'
  OBVIOUS
<1> USE DEF BacktestInv, TakeOrder, account, mainVars
<1>0. queue \in Seq(BacktestOrder) /\ queue # <<>>
  BY DEF BacktestType
<1>1. Head(queue) = queue[1] /\ 1 \in DOMAIN queue /\ queue[1] \in BacktestOrder
  BY <1>0
<1>2. order' = <<queue[1]>> /\ order'[1] = queue[1] /\ Len(order') = 1
  BY <1>1
<1>3. BacktestType'
  <2>1. queue' \in Seq(BacktestOrder) /\ order' \in Seq(BacktestOrder)
    BY <1>0, <1>1, <1>2
  <2>2. processing' \in {"buy", "sell"}
    BY <1>1 DEF BacktestOrder
  <2> QED
    BY <1>2, <2>1, <2>2 DEF BacktestType, UnderWay
<1>4. Covered'
  BY <1>0, <1>1, <1>2 DEF Covered, BacktestOrder
<1>5. \A i \in DOMAIN queue' :
        i + 1 \in DOMAIN queue /\ queue'[i] = queue[i + 1] /\ i \in Nat \ {0}
  BY <1>0
<1>6. StillFits'
  <2>1. \A i \in DOMAIN queue' : queue'[i].settled => Fits(queue'[i])
    BY <1>5 DEF StillFits, Fits
  <2>2. order'[1].settled => Fits(order'[1])
    BY <1>1, <1>2 DEF StillFits
  <2>3. \A i, j \in DOMAIN queue' : i # j => Apart(queue'[i], queue'[j])
    <3> SUFFICES ASSUME NEW i \in DOMAIN queue', NEW j \in DOMAIN queue', i # j
                 PROVE  Apart(queue'[i], queue'[j])
      OBVIOUS
    <3>1. i + 1 # j + 1
      BY <1>5
    <3> QED
      BY <1>5, <3>1 DEF StillFits
  <2>4. \A i \in DOMAIN out, j \in DOMAIN queue' : Apart(out[i], queue'[j])
    BY <1>5 DEF StillFits
  <2>5. \A i \in DOMAIN out : Apart(order'[1], out[i])
    BY <1>1, <1>2 DEF StillFits, Apart
  <2>6. \A i \in DOMAIN queue' : Apart(order'[1], queue'[i])
    <3> SUFFICES ASSUME NEW i \in DOMAIN queue'  PROVE Apart(order'[1], queue'[i])
      OBVIOUS
    <3>1. i + 1 \in DOMAIN queue /\ i + 1 # 1 /\ queue'[i] = queue[i + 1]
      BY <1>5
    <3>2. Apart(queue[1], queue[i + 1])
      BY <1>1, <3>1 DEF StillFits
    <3> QED
      BY <1>2, <3>1, <3>2
  <2>7. ~(main' \in {"quote", "decide"} /\ settled')
    BY <1>0 DEF StillFits
  <2> QED
    BY <2>1, <2>2, <2>3, <2>4, <2>5, <2>6, <2>7 DEF StillFits, Fits, Apart
<1> QED
  BY <1>3, <1>4, <1>6 DEF RefusedWhenBehind

\* While an order is under way, main's reading is no settled one.
LEMMA NotSettled ==
  ASSUME BacktestInv, processing \in UnderWay
  PROVE  /\ ~(main \in {"quote", "decide"} /\ settled)
         /\ order # <<>> /\ order[1] \in BacktestOrder
         /\ currentPrice \in Nat \ {0}
<1>1. order \in Seq(BacktestOrder) /\ Len(order) = 1
  BY DEF BacktestInv, BacktestType
<1>2. order # <<>> /\ order[1] \in BacktestOrder
  BY <1>1
<1>3. currentPrice > 0 /\ currentPrice \in Nat
  BY <1>2 DEF BacktestInv, Covered, BacktestType
<1> QED
  BY <1>2, <1>3 DEF BacktestInv, StillFits

\* An order that fits the account is not refused.
LEMMA RefuseKeeps ==
  ASSUME BacktestInv, processing \in {"buy", "sell"},
         processing = "buy" => KRW < order[1].amount,
         processing = "sell" => Coin < order[1].amount,
         Refuse
  PROVE  BacktestInv'
<1> USE DEF BacktestInv, Refuse, account, mainVars
<1>0. order[1] \in BacktestOrder
  BY NotSettled DEF UnderWay
<1>1. BacktestType'
  BY DEF BacktestType, UnderWay
<1>2. Covered'
  BY DEF Covered
<1>3. StillFits'
  BY NotSettled DEF StillFits, Fits, Apart, UnderWay
<1>4. ~Fits(order[1])
  <2>1. KRW \in Nat /\ Coin \in Nat /\ order[1].amount \in Nat
    BY <1>0 DEF BacktestType, BacktestOrder
  <2> QED
    BY <2>1 DEF Covered, Fits
<1>5. ~order[1].settled
  BY <1>4 DEF StillFits
<1> QED
  BY <1>1, <1>2, <1>3, <1>5 DEF RefusedWhenBehind

LEMMA BuyKeeps == BacktestInv /\ Buy => BacktestInv'
<1> SUFFICES ASSUME BacktestInv, Buy  PROVE BacktestInv'
  OBVIOUS
<1> USE DEF BacktestInv, Buy, account, mainVars
<1>1. CASE KRW < order[1].amount
  BY <1>1, RefuseKeeps
<1>2. CASE ~(KRW < order[1].amount)
  <2>1. /\ order[1] \in BacktestOrder /\ currentPrice \in Nat \ {0} /\ order # <<>>
        /\ ~(main \in {"quote", "decide"} /\ settled)
    BY NotSettled DEF UnderWay
  <2>2. order[1].amount \in Nat /\ KRW \in Nat
    BY <2>1 DEF BacktestOrder, BacktestType
  <2>3. qty' \in Nat
    BY <1>2, <2>1, <2>2
  <2>4. processing' = "bought" /\ order' = order /\ order'[1].amount <= KRW'
    BY <1>2, <2>2
  <2>5. BacktestType'
    BY <1>2, <2>3, <2>4 DEF BacktestType, UnderWay
  <2>6. Covered'
    BY <1>2, <2>4 DEF Covered
  <2>7. StillFits'
    BY <1>2, <2>1, <2>4 DEF StillFits, Fits, Apart
  <2> QED
    BY <1>2, <2>5, <2>6, <2>7 DEF RefusedWhenBehind
<1> QED
  BY <1>1, <1>2

LEMMA CostKeeps == BacktestInv /\ Cost => BacktestInv'
<1> SUFFICES ASSUME BacktestInv, Cost  PROVE BacktestInv'
  OBVIOUS
<1> USE DEF BacktestInv, Cost, account, mainVars
<1>0. ~(main \in {"quote", "decide"} /\ settled)
  BY NotSettled DEF UnderWay
<1>1. BacktestType'
  BY DEF BacktestType, UnderWay
<1>2. Covered'
  BY DEF Covered
<1>3. StillFits'
  BY <1>0 DEF StillFits, Fits, Apart
<1> QED
  BY <1>1, <1>2, <1>3 DEF RefusedWhenBehind

LEMMA AddCoinsKeeps == BacktestInv /\ AddCoins => BacktestInv'
<1> SUFFICES ASSUME BacktestInv, AddCoins  PROVE BacktestInv'
  OBVIOUS
<1> USE DEF BacktestInv, AddCoins, mainVars
<1>0. ~(main \in {"quote", "decide"} /\ settled)
  BY NotSettled DEF UnderWay
<1>1. Coin \in Nat /\ qty \in Nat /\ Coin' = Coin + qty /\ Coin' \in Nat /\ Coin' >= Coin
  BY DEF BacktestType
<1>2. BacktestType'
  BY <1>1 DEF BacktestType, UnderWay
<1>3. Covered'
  BY DEF Covered
<1>4. StillFits'
  <2>1. ASSUME NEW o \in BacktestOrder, Fits(o)
        PROVE  o.amount <= (IF o.side = "sell" THEN Coin' ELSE KRW')
    BY <1>1, <2>1 DEF Fits, BacktestOrder
  <2>2. /\ \A i \in DOMAIN out : out[i] \in BacktestOrder
        /\ \A i \in DOMAIN queue : queue[i] \in BacktestOrder
    BY DEF BacktestType
  <2> QED
    BY <1>0, <2>1, <2>2 DEF StillFits, Fits, Apart
<1> QED
  BY <1>2, <1>3, <1>4 DEF RefusedWhenBehind

\* The one purchase of its reading takes the money: what else of a settled
\* reading is under way is its sale.
LEMMA SpendKeeps == BacktestInv /\ SettledFirst /\ Spend => BacktestInv'
<1> SUFFICES ASSUME BacktestInv, SettledFirst, Spend  PROVE BacktestInv'
  OBVIOUS
<1> USE DEF BacktestInv, Spend, mainVars
<1>0. /\ ~(main \in {"quote", "decide"} /\ settled)
      /\ order # <<>> /\ order[1] \in BacktestOrder
  BY NotSettled DEF UnderWay
<1>1. KRW' \in Nat
  BY <1>0 DEF BacktestType, Covered, BacktestOrder
<1>2. BacktestType'
  BY <1>1 DEF BacktestType, UnderWay
<1>3. Covered'
  BY DEF Covered
<1>4. ASSUME NEW o \in BacktestOrder, o.settled => order[1].settled,
             Apart(order[1], o), o.settled => Fits(o), o.settled
      PROVE  o.amount <= (IF o.side = "sell" THEN Coin' ELSE KRW')
  BY <1>4 DEF Covered, Apart, Fits, BacktestOrder
<1>5. StillFits'
  <2>1. /\ \A i \in DOMAIN out : out[i] \in BacktestOrder
        /\ \A i \in DOMAIN queue : queue[i] \in BacktestOrder
    BY DEF BacktestType
  <2>2. \A i \in DOMAIN out : out[i].settled => Fits(out[i])'
    BY <1>0, <1>4, <2>1 DEF StillFits, SettledFirst, Fits
  <2>3. \A i \in DOMAIN queue : queue[i].settled => Fits(queue[i])'
    BY <1>0, <1>4, <2>1 DEF StillFits, SettledFirst, Fits
  <2> QED
    BY <1>0, <2>2, <2>3 DEF StillFits, Apart
<1> QED
  BY <1>2, <1>3, <1>5 DEF RefusedWhenBehind

LEMMA AverageKeeps == BacktestInv /\ Average => BacktestInv'
<1> SUFFICES ASSUME BacktestInv, Average  PROVE BacktestInv'
  OBVIOUS
<1> USE DEF BacktestInv, Average, mainVars
<1>0. ~(main \in {"quote", "decide"} /\ settled)
  BY NotSettled DEF UnderWay
<1>1. BacktestType'
  BY DEF BacktestType, UnderWay
<1>2. Covered'
  BY DEF Covered
<1>3. StillFits'
  BY <1>0 DEF StillFits, Fits, Apart
<1> QED
  BY <1>1, <1>2, <1>3 DEF RefusedWhenBehind

LEMMA SellKeeps == BacktestInv /\ Sell => BacktestInv'
<1> SUFFICES ASSUME BacktestInv, Sell  PROVE BacktestInv'
  OBVIOUS
<1> USE DEF BacktestInv, Sell, account, mainVars
<1>1. CASE Coin < order[1].amount
  BY <1>1, RefuseKeeps
<1>2. CASE ~(Coin < order[1].amount)
  <2>0. /\ ~(main \in {"quote", "decide"} /\ settled)
        /\ order # <<>> /\ order[1] \in BacktestOrder /\ currentPrice \in Nat
    BY NotSettled DEF UnderWay
  <2>1. order[1].amount \in Nat /\ Coin \in Nat
    BY <2>0 DEF BacktestOrder, BacktestType
  <2>2. pay'.cost \in Nat
    <3>1. pay'.cost = order[1].amount * currentPrice
      BY <1>2
    <3> QED
      BY <2>0, <2>1, <3>1, TimesNat
  <2>3. processing' = "selling" /\ order' = order /\ order'[1].amount <= Coin'
    BY <1>2, <2>1
  <2>4. BacktestType'
    BY <1>2, <2>3 DEF BacktestType, UnderWay
  <2>5. Covered'
    BY <1>2, <2>2, <2>3 DEF Covered
  <2>6. StillFits'
    BY <1>2, <2>0, <2>3 DEF StillFits, Fits, Apart
  <2> QED
    BY <1>2, <2>4, <2>5, <2>6 DEF RefusedWhenBehind
<1> QED
  BY <1>1, <1>2

\* The one sale of its reading takes the coins.
LEMMA TakeCoinsKeeps == BacktestInv /\ SettledFirst /\ TakeCoins => BacktestInv'
<1> SUFFICES ASSUME BacktestInv, SettledFirst, TakeCoins  PROVE BacktestInv'
  OBVIOUS
<1> USE DEF BacktestInv, TakeCoins, mainVars
<1>0. /\ ~(main \in {"quote", "decide"} /\ settled)
      /\ order # <<>> /\ order[1] \in BacktestOrder
  BY NotSettled DEF UnderWay
<1>1. Coin' \in Nat
  BY <1>0 DEF BacktestType, Covered, BacktestOrder
<1>2. BacktestType'
  BY <1>1 DEF BacktestType, UnderWay
<1>3. Covered'
  BY DEF Covered
<1>4. ASSUME NEW o \in BacktestOrder, o.settled => order[1].settled,
             Apart(order[1], o), o.settled => Fits(o), o.settled
      PROVE  o.amount <= (IF o.side = "sell" THEN Coin' ELSE KRW')
  BY <1>4 DEF Covered, Apart, Fits, BacktestOrder
<1>5. StillFits'
  <2>1. /\ \A i \in DOMAIN out : out[i] \in BacktestOrder
        /\ \A i \in DOMAIN queue : queue[i] \in BacktestOrder
    BY DEF BacktestType
  <2>2. \A i \in DOMAIN out : out[i].settled => Fits(out[i])'
    BY <1>0, <1>4, <2>1 DEF StillFits, SettledFirst, Fits
  <2>3. \A i \in DOMAIN queue : queue[i].settled => Fits(queue[i])'
    BY <1>0, <1>4, <2>1 DEF StillFits, SettledFirst, Fits
  <2> QED
    BY <1>0, <2>2, <2>3 DEF StillFits, Apart
<1> QED
  BY <1>2, <1>3, <1>5 DEF RefusedWhenBehind

LEMMA ReceiveKeeps == BacktestInv /\ Receive => BacktestInv'
<1> SUFFICES ASSUME BacktestInv, Receive  PROVE BacktestInv'
  OBVIOUS
<1> USE DEF BacktestInv, Receive, mainVars
<1>0. ~(main \in {"quote", "decide"} /\ settled)
  BY NotSettled DEF UnderWay
<1>1. KRW' \in Nat /\ KRW' >= KRW /\ KRW \in Nat
  BY DEF BacktestType, Covered
<1>2. BacktestType'
  BY <1>1 DEF BacktestType, UnderWay
<1>3. Covered'
  BY DEF Covered
<1>4. StillFits'
  <2>1. ASSUME NEW o \in BacktestOrder, Fits(o)
        PROVE  o.amount <= (IF o.side = "sell" THEN Coin' ELSE KRW')
    BY <1>1, <2>1 DEF Fits, BacktestOrder
  <2>2. /\ \A i \in DOMAIN out : out[i] \in BacktestOrder
        /\ \A i \in DOMAIN queue : queue[i] \in BacktestOrder
    BY DEF BacktestType
  <2> QED
    BY <1>0, <2>1, <2>2 DEF StillFits, Fits, Apart
<1> QED
  BY <1>2, <1>3, <1>4 DEF RefusedWhenBehind

-----------------------------------------------------------------------------
(* The average price paid. *)

Fraction == [cost : Nat, coins : Nat]

\* The price cost / coins lies between two of the first n closes.
Between(prices, n, cost, coins) ==
  cost > 0 => \E i, j \in 1..n : /\ prices[i] * coins <= cost
                                 /\ cost <= prices[j] * coins

\* Nothing was paid only for no coins.  The coins of a purchase are there
\* before its average.
AverageInv ==
  /\ AvgBuyPrice \in Fraction /\ pay \in Fraction
  /\ bar > 0 => currentPrice = closes[bar]
  /\ AverageOfPrices
  /\ processing = "priced" =>
       /\ Between(closes, bar, pay.cost, pay.coins * (Coin + qty))
       /\ pay.cost = 0 => pay.coins = 0 \/ Coin + qty = 0
  /\ IF processing \in {"owing", "paid"}
       THEN /\ Between(closes, bar, pay.cost, pay.coins * Coin)
            /\ pay.cost = 0 => pay.coins = 0 \/ Coin = 0
       ELSE AvgBuyPrice.cost = 0 => AvgBuyPrice.coins = 0 \/ Coin = 0

LEMMA FractionFacts ==
  /\ \A f \in Fraction : f.cost \in Nat /\ f.coins \in Nat
  /\ \A n, d \in Nat : /\ [cost |-> n, coins |-> d] \in Fraction
                       /\ [cost |-> n, coins |-> d].cost = n
                       /\ [cost |-> n, coins |-> d].coins = d
BY DEF Fraction

LEMMA TimesGrows ==
  ASSUME NEW a \in Nat, NEW b \in Nat, NEW n \in Nat, a <= b
  PROVE  a * n <= b * n
OBVIOUS

\* The mean of two prices, weighted with the coins bought at them.
LEMMA MeanAbove ==
  ASSUME NEW cost \in Nat, NEW coins \in Nat, NEW had \in Nat,
         NEW price \in Nat, NEW bought \in Nat, NEW low \in Nat,
         low * coins <= cost, low <= price
  PROVE  low * (coins * (had + bought)) <= cost * had + coins * price * bought
<1>1. (low * coins) * had <= cost * had
  BY TimesGrows
<1>2. low * coins <= coins * price
  OBVIOUS
<1>3. (low * coins) * bought <= coins * price * bought
  BY <1>2, TimesGrows
<1>4. low * (coins * (had + bought)) = (low * coins) * had + (low * coins) * bought
  OBVIOUS
<1> QED
  BY <1>1, <1>3, <1>4

LEMMA MeanBelow ==
  ASSUME NEW cost \in Nat, NEW coins \in Nat, NEW had \in Nat,
         NEW price \in Nat, NEW bought \in Nat, NEW high \in Nat,
         cost <= high * coins, price <= high
  PROVE  cost * had + coins * price * bought <= high * (coins * (had + bought))
<1>1. cost * had <= (high * coins) * had
  BY TimesGrows
<1>2. coins * price <= high * coins
  OBVIOUS
<1>3. coins * price * bought <= (high * coins) * bought
  BY <1>2, TimesGrows
<1>4. high * (coins * (had + bought)) = (high * coins) * had + (high * coins) * bought
  OBVIOUS
<1> QED
  BY <1>1, <1>3, <1>4

\* What all coins cost, when those bought add to those there were.
CostOfAll(cost, coins, had, price, bought) == cost * had + coins * price * bought
CoinsOfAll(coins, had, bought) == coins * (had + bought)

\* A purchase at the last of the prices keeps the average between them, also
\* the first one, and one after all coins were sold.
LEMMA MeanBetween ==
  ASSUME NEW prices, NEW n \in Nat \ {0}, \A i \in 1..n : prices[i] \in Nat \ {0},
         NEW cost \in Nat, NEW coins \in Nat, NEW had \in Nat, NEW bought \in Nat,
         Between(prices, n, cost, coins),
         cost = 0 => coins = 0 \/ had = 0
  PROVE  /\ Between(prices, n, CostOfAll(cost, coins, had, prices[n], bought),
                    CoinsOfAll(coins, had, bought))
         /\ CostOfAll(cost, coins, had, prices[n], bought) = 0
              => coins = 0 \/ had + bought = 0
<1> USE DEF CostOfAll, CoinsOfAll
<1> DEFINE price == prices[n]
           total == cost * had + coins * price * bought
<1>1. n \in 1..n /\ price \in Nat /\ price > 0
  OBVIOUS
<1>2. coins * price \in Nat /\ coins * price * bought \in Nat /\ cost * had \in Nat
  BY <1>1, TimesNat
<1>3. ASSUME NEW low \in 1..n, NEW high \in 1..n,
             prices[low] * coins <= cost, cost <= prices[high] * coins,
             prices[low] <= price, price <= prices[high]
      PROVE  \E i, j \in 1..n : /\ prices[i] * (coins * (had + bought)) <= total
                                /\ total <= prices[j] * (coins * (had + bought))
  <2>1. prices[low] \in Nat /\ prices[high] \in Nat
    OBVIOUS
  <2> QED
    BY <1>1, <1>3, <2>1, MeanAbove, MeanBelow
<1>4. CASE cost > 0
  <2>1. PICK i \in 1..n, j \in 1..n : prices[i] * coins <= cost /\ cost <= prices[j] * coins
    BY <1>4 DEF Between
  <2>2. prices[i] \in Nat /\ prices[j] \in Nat
    OBVIOUS
  <2> HIDE DEF price
  <2>3. PICK low \in 1..n : prices[low] * coins <= cost /\ prices[low] <= price
    <3>1. CASE prices[i] <= price
      BY <2>1, <3>1
    <3>2. CASE ~(prices[i] <= price)
      <4>1. price <= prices[i]
        BY <1>1, <2>2, <3>2
      <4>2. price * coins <= prices[i] * coins
        BY <1>1, <2>2, <4>1, TimesGrows
      <4>3. price * coins <= cost
        <5>1. /\ price * coins \in Nat /\ prices[i] * coins \in Nat
          BY <1>1, <2>2, TimesNat
        <5> QED
          BY <2>1, <4>2, <5>1
      <4> QED
        BY <1>1, <4>3 DEF price
    <3> QED
      BY <3>1, <3>2
  <2>4. PICK high \in 1..n : cost <= prices[high] * coins /\ price <= prices[high]
    <3>1. CASE price <= prices[j]
      BY <2>1, <3>1
    <3>2. CASE ~(price <= prices[j])
      <4>1. prices[j] <= price
        BY <1>1, <2>2, <3>2
      <4>2. prices[j] * coins <= price * coins
        BY <1>1, <2>2, <4>1, TimesGrows
      <4>3. cost <= price * coins
        <5>1. /\ price * coins \in Nat /\ prices[j] * coins \in Nat
          BY <1>1, <2>2, TimesNat
        <5> QED
          BY <2>1, <4>2, <5>1
      <4> QED
        BY <1>1, <4>3 DEF price
    <3> QED
      BY <3>1, <3>2
  <2>5. Between(prices, n, total, coins * (had + bought))
    BY <1>3, <2>3, <2>4 DEF Between
  <2>6. total = 0 => coins = 0 \/ had + bought = 0
    <3> SUFFICES ASSUME total = 0, coins > 0, bought > 0
                 PROVE  FALSE
      <4>1. total = 0 => cost * had = 0
        BY <1>2
      <4>2. cost * had = 0 => had = 0
        BY <1>4
      <4> QED
        BY <4>1, <4>2
    <3>1. coins * price > 0
      BY <1>1
    <3>2. coins * price * bought > 0
      BY <1>2, <3>1
    <3> QED
      BY <1>2, <3>2
  <2> QED
    BY <2>5, <2>6 DEF price
<1>5. CASE cost = 0 /\ coins = 0
  <2>1. total = 0
    BY <1>1, <1>5
  <2> QED
    BY <1>5, <2>1 DEF Between
<1>6. CASE cost = 0 /\ had = 0
  <2>1. total = coins * price * bought
    BY <1>1, <1>6
  <2>2. price * (coins * (had + bought)) = coins * price * bought
    BY <1>1, <1>6
  <2>3. total = 0 => coins = 0 \/ bought = 0
    <3>1. ASSUME coins > 0, bought > 0
          PROVE  total > 0
      <4>1. coins * price > 0
        BY <1>1, <3>1
      <4> QED
        BY <1>2, <2>1, <3>1, <4>1
    <3> HIDE DEF total
    <3> QED
      BY <3>1
  <2>4. total <= total
    BY <1>2, <2>1
  <2> QED
    BY <1>1, <1>6, <2>1, <2>2, <2>3, <2>4 DEF Between
<1> QED
  BY <1>4, <1>5, <1>6

-----------------------------------------------------------------------------
(* Every step keeps the average between the prices. *)

LEMMA AverageInitial == BacktestInit => AverageInv
<1> SUFFICES ASSUME BacktestInit  PROVE AverageInv
  OBVIOUS
<1>1. AvgBuyPrice = [cost |-> 0, coins |-> 1] /\ pay = [cost |-> 0, coins |-> 1]
  BY DEF BacktestInit
<1>2. /\ AvgBuyPrice \in Fraction /\ pay \in Fraction /\ AvgBuyPrice.cost = 0
  BY <1>1, FractionFacts
<1> QED
  BY <1>2 DEF BacktestInit, AverageInv, AverageOfPrices

\* main's steps move on to the next price, and leave the account alone.
LEMMA AverageMain ==
  ASSUME BacktestInv, AverageInv, MainStep \/ \E loaded \in Seq(Nat \ {0}) : Load(loaded)
  PROVE  AverageInv'
<1>0. UNCHANGED <<Coin, AvgBuyPrice, pay, processing, qty>>
  BY DEF MainStep, NextCandle, ReadCoin, ReadKRW, LimitRisk, FollowSignals, Issue,
         Publish, Finish, Load, account, brokerVars
<1>1. bar \in Nat /\ closes \in Seq(Nat \ {0})
  BY DEF BacktestInv, BacktestType
<1>2. ASSUME UNCHANGED <<closes, bar, currentPrice>>
      PROVE  AverageInv'
  BY <1>0, <1>2 DEF AverageInv, AverageOfPrices, Between
<1>3. CASE NextCandle
  <2>1. /\ bar' = bar + 1 /\ closes' = closes
        /\ currentPrice' = closes'[bar']
        /\ \A i \in 1..bar : i \in 1..bar'
    BY <1>1, <1>3 DEF NextCandle
  <2>2. AverageOfPrices'
    BY <1>0, <2>1 DEF AverageInv, AverageOfPrices
  <2>3. ASSUME NEW cost, NEW coins, Between(closes, bar, cost, coins)
        PROVE  Between(closes', bar', cost, coins)
    BY <2>1, <2>3 DEF Between
  <2> QED
    BY <1>0, <2>1, <2>2, <2>3 DEF AverageInv
<1>4. CASE \E loaded \in Seq(Nat \ {0}) : Load(loaded)
  <2>1. bar = 0 /\ bar' = bar
    BY <1>4 DEF Load, BacktestInv, BacktestType
  <2>2. ASSUME NEW cost, NEW coins, Between(closes, bar, cost, coins)
        PROVE  Between(closes', bar', cost, coins)
    BY <2>1, <2>2 DEF Between
  <2>3. AverageOfPrices'
    BY <1>0, <2>1 DEF AverageInv, AverageOfPrices
  <2> QED
    BY <1>0, <2>1, <2>2, <2>3 DEF AverageInv
<1>5. ASSUME ~NextCandle, MainStep
      PROVE  UNCHANGED <<closes, bar, currentPrice>>
  BY <1>5 DEF MainStep, ReadCoin, ReadKRW, LimitRisk, FollowSignals, Issue,
              Publish, Finish
<1> QED
  BY <1>2, <1>3, <1>4, <1>5

\* The cost is that of the coins there will be.
LEMMA AverageCost ==
  ASSUME BacktestInv, AverageInv, Cost
  PROVE  AverageInv'
<1> DEFINE cost == AvgBuyPrice.cost
           coins == AvgBuyPrice.coins
<1>1. /\ cost \in Nat /\ coins \in Nat /\ Coin \in Nat /\ qty \in Nat
      /\ currentPrice \in Nat \ {0} /\ bar \in Nat \ {0}
      /\ currentPrice = closes[bar]
      /\ \A i \in 1..bar : closes[i] \in Nat \ {0}
  <2>1. processing \in UnderWay /\ closes \in Seq(Nat \ {0}) /\ bar \in 0..Len(closes)
    BY DEF Cost, UnderWay, BacktestInv, BacktestType
  <2>2. currentPrice \in Nat \ {0} /\ order # <<>>
    BY <2>1, NotSettled
  <2>3. bar > 0
    BY <2>2 DEF BacktestInv, Covered
  <2> QED
    BY <2>1, <2>2, <2>3, FractionFacts, SMTT(30) DEF AverageInv, BacktestInv, BacktestType
<1>2. /\ AvgBuyPrice' = AvgBuyPrice /\ processing' = "priced"
      /\ UNCHANGED <<closes, bar, currentPrice, Coin, qty>>
      /\ pay' = [cost |-> cost * Coin + coins * currentPrice * qty, coins |-> coins]
  BY DEF Cost, account, mainVars
<1>3. Between(closes, bar, cost, coins) /\ (cost = 0 => coins = 0 \/ Coin = 0)
  BY DEF Cost, AverageInv, AverageOfPrices, Between
<1>4. cost * Coin + coins * currentPrice * qty \in Nat
  <2>1. cost * Coin \in Nat /\ coins * currentPrice \in Nat
    BY <1>1, TimesNat
  <2>2. coins * currentPrice * qty \in Nat
    BY <1>1, <2>1, TimesNat
  <2> QED
    BY <2>1, <2>2
<1> HIDE DEF cost, coins
<1>5. /\ pay' \in Fraction /\ pay'.coins = coins
      /\ pay'.cost = cost * Coin + coins * currentPrice * qty
  BY <1>1, <1>2, <1>4, FractionFacts
<1>6. /\ Between(closes, bar, CostOfAll(cost, coins, Coin, closes[bar], qty),
                 CoinsOfAll(coins, Coin, qty))
      /\ CostOfAll(cost, coins, Coin, closes[bar], qty) = 0
           => coins = 0 \/ Coin + qty = 0
  BY <1>1, <1>3, MeanBetween
<1>7. AverageOfPrices'
  BY <1>2 DEF AverageInv, AverageOfPrices
<1>8. AvgBuyPrice.cost = 0 => AvgBuyPrice.coins = 0 \/ Coin = 0
  BY <1>3 DEF cost, coins
<1> QED
  BY <1>1, <1>2, <1>5, <1>6, <1>7, <1>8 DEF AverageInv, CostOfAll, CoinsOfAll

LEMMA AverageBroker ==
  ASSUME BacktestInv, AverageInv, BrokerStep
  PROVE  AverageInv'
<1>0. /\ UNCHANGED <<closes, bar, currentPrice>>
      /\ Coin \in Nat
      /\ AvgBuyPrice \in Fraction /\ pay \in Fraction
  BY DEF BrokerStep, TakeOrder, Buy, Refuse, Cost, AddCoins, Spend, Average, Sell,
         TakeCoins, Receive, account, mainVars, BacktestInv, BacktestType, AverageInv
<1>1. ASSUME UNCHANGED <<AvgBuyPrice, Coin, pay>>,
             processing' \in {"owing", "paid"} <=> processing \in {"owing", "paid"},
             processing' # "priced"
      PROVE  AverageInv'
  BY <1>0, <1>1 DEF AverageInv, AverageOfPrices
<1>2. CASE TakeOrder
  <2>1. order'[1] = Head(queue) /\ Head(queue).side \in {"buy", "sell"}
    <3>1. queue \in Seq(BacktestOrder) /\ queue # <<>>
      BY <1>2 DEF TakeOrder, BacktestInv, BacktestType
    <3>2. Head(queue) \in BacktestOrder
      BY <3>1
    <3> QED
      BY <1>2, <3>2 DEF TakeOrder, BacktestOrder
  <2> QED
    BY <1>1, <1>2, <2>1 DEF TakeOrder, account
<1>3. CASE Buy
  BY <1>1, <1>3 DEF Buy, Refuse, account, mainVars
<1>4. CASE Cost
  BY <1>4, AverageCost
<1>9. CASE AddCoins
  <2>1. /\ processing = "priced" /\ processing' = "owing"
        /\ Coin' = Coin + qty /\ UNCHANGED <<AvgBuyPrice, pay>>
    BY <1>9 DEF AddCoins
  <2>2. AverageOfPrices'
    BY <1>0, <2>1 DEF AverageInv, AverageOfPrices
  <2> QED
    BY <1>0, <2>1, <2>2 DEF AverageInv
<1>5. CASE Spend
  BY <1>1, <1>5 DEF Spend
<1>6. CASE Average
  <2>1. pay.cost \in Nat /\ pay.coins \in Nat /\ pay.coins * Coin \in Nat
    BY <1>0, FractionFacts, TimesNat
  <2>2. /\ AvgBuyPrice' = [cost |-> pay.cost, coins |-> pay.coins * Coin]
        /\ UNCHANGED <<Coin, pay>> /\ processing' = "idle" /\ processing = "paid"
    BY <1>6 DEF Average
  <2>3. /\ AvgBuyPrice' \in Fraction
        /\ AvgBuyPrice'.cost = pay.cost /\ AvgBuyPrice'.coins = pay.coins * Coin
    BY <2>1, <2>2, FractionFacts
  <2>4. pay.cost = 0 => pay.coins * Coin = 0
    BY <1>0, <2>1, <2>2 DEF AverageInv
  <2>5. AverageOfPrices'
    BY <1>0, <2>2, <2>3 DEF AverageInv, AverageOfPrices, Between
  <2> QED
    BY <1>0, <2>2, <2>3, <2>4, <2>5 DEF AverageInv
<1>7. CASE Sell
  <2>1. CASE Coin < order[1].amount
    BY <1>1, <1>7, <2>1 DEF Sell, Refuse, account, mainVars
  <2>2. CASE ~(Coin < order[1].amount)
    <3>1. /\ processing = "sell" /\ processing' = "selling"
          /\ UNCHANGED <<AvgBuyPrice, Coin>>
          /\ pay' = [cost |-> order[1].amount * currentPrice, coins |-> 1]
      BY <1>7, <2>2 DEF Sell, account
    <3>2. order[1] \in BacktestOrder /\ currentPrice \in Nat
      BY <3>1, NotSettled DEF UnderWay
    <3>3. order[1].amount \in Nat /\ order[1].amount * currentPrice \in Nat
      BY <3>2, TimesNat DEF BacktestOrder
    <3>4. pay' \in Fraction
      BY <3>1, <3>3, FractionFacts
    <3>5. AverageOfPrices'
      BY <1>0, <3>1 DEF AverageInv, AverageOfPrices
    <3> QED
      BY <1>0, <3>1, <3>4, <3>5 DEF AverageInv
  <2> QED
    BY <2>1, <2>2
<1>10. CASE TakeCoins
  <2>1. /\ processing = "selling" /\ processing' = "sold"
        /\ Coin' = Coin - order[1].amount /\ UNCHANGED <<AvgBuyPrice, pay>>
    BY <1>10 DEF TakeCoins
  <2>2. order[1].amount \in Nat /\ order[1].amount <= Coin
    BY <2>1, NotSettled DEF UnderWay, BacktestOrder, BacktestInv, Covered
  <2>3. Coin = 0 => Coin' = 0
    BY <1>0, <2>1, <2>2
  <2>4. AverageOfPrices'
    BY <1>0, <2>1 DEF AverageInv, AverageOfPrices
  <2> QED
    BY <1>0, <2>1, <2>3, <2>4 DEF AverageInv
<1>8. CASE Receive
  BY <1>1, <1>8 DEF Receive
<1> QED
  BY <1>2, <1>3, <1>4, <1>5, <1>6, <1>7, <1>8, <1>9, <1>10 DEF BrokerStep

LEMMA AverageStep ==
  BacktestInv /\ AverageInv /\ [BacktestNext]_backtestVars => AverageInv'
<1>1. CASE UNCHANGED backtestVars
  BY <1>1 DEF backtestVars, AverageInv, AverageOfPrices
<1> QED
  BY <1>1, AverageMain, AverageBroker DEF BacktestNext

-----------------------------------------------------------------------------
\* The order of the orders.
LEMMA IssueFirst ==
  ASSUME BacktestInv, SettledFirst, main = "decide",
         NEW orders, Decision(orders), Issue(orders)
  PROVE  SettledFirst'
<1> USE DEF Issue, account, brokerVars
<1>1. \A i \in DOMAIN out' : out'[i].settled = settled
  BY DEF Decision
<1>2. settled => queue = <<>> /\ order = <<>>
  BY DEF BacktestInv, StillFits
<1> QED
  BY <1>1, <1>2 DEF SettledFirst

LEMMA PublishFirst == BacktestInv /\ SettledFirst /\ Publish => SettledFirst'
<1> SUFFICES ASSUME BacktestInv, SettledFirst, Publish  PROVE SettledFirst'
  OBVIOUS
<1> USE DEF Publish, account, brokerVars
<1>0. out \in Seq(BacktestOrder) /\ out # <<>> /\ queue \in Seq(BacktestOrder)
  BY DEF BacktestInv, BacktestType
<1>1. \A i \in DOMAIN out' : i + 1 \in DOMAIN out /\ out'[i] = out[i + 1]
  BY <1>0
<1>2. \A i \in DOMAIN queue' :
        \/ i \in DOMAIN queue /\ queue'[i] = queue[i]
        \/ i = Len(queue) + 1 /\ queue'[i] = out[1]
  BY <1>0
<1>3. 1 \in DOMAIN out
  BY <1>0
<1>4. \A i, j \in DOMAIN queue' : i < j => i \in DOMAIN queue /\ queue'[i] = queue[i]
  BY <1>0
<1>5. \A i, j \in DOMAIN out' : out'[i].settled => out'[j].settled
  BY <1>1 DEF SettledFirst
<1>6. \A i, j \in DOMAIN queue' : i < j /\ queue'[j].settled => queue'[i].settled
  BY <1>2, <1>3, <1>4 DEF SettledFirst
<1>7. \A i \in DOMAIN out', j \in DOMAIN queue' : out'[i].settled => queue'[j].settled
  BY <1>1, <1>2, <1>3 DEF SettledFirst
<1>8. order' # <<>> =>
        /\ \A i \in DOMAIN out' : out'[i].settled => order'[1].settled
        /\ \A i \in DOMAIN queue' : queue'[i].settled => order'[1].settled
  BY <1>1, <1>2, <1>3 DEF SettledFirst
<1> QED
  BY <1>5, <1>6, <1>7, <1>8 DEF SettledFirst

LEMMA TakeOrderFirst == BacktestInv /\ SettledFirst /\ TakeOrder => SettledFirst'
<1> SUFFICES ASSUME BacktestInv, SettledFirst, TakeOrder  PROVE SettledFirst'
  OBVIOUS
<1> USE DEF TakeOrder, account, mainVars
<1>0. queue \in Seq(BacktestOrder) /\ queue # <<>>
  BY DEF BacktestInv, BacktestType
<1>1. /\ \A i \in DOMAIN queue' : i + 1 \in DOMAIN queue /\ queue'[i] = queue[i + 1]
      /\ \A i \in DOMAIN queue' : i \in Nat /\ 1 < i + 1
      /\ \A i, j \in DOMAIN queue' : i < j => i + 1 < j + 1
  BY <1>0
<1>2. 1 \in DOMAIN queue /\ order'[1] = queue[1]
  BY <1>0
<1> QED
  BY <1>1, <1>2 DEF SettledFirst

-----------------------------------------------------------------------------
LEMMA MainKeeps ==
  ASSUME BacktestInv, SettledFirst, MainStep
  PROVE  BacktestInv' /\ SettledFirst'
<1>0. BacktestType
  BY DEF BacktestInv
<1>1. CASE NextCandle
  BY <1>1, NextCandleKeeps DEF NextCandle, SettledFirst, account, brokerVars
<1>2. CASE ReadCoin
  BY <1>2, ReadCoinKeeps DEF ReadCoin, SettledFirst, account, brokerVars
<1>3. CASE ReadKRW
  BY <1>3, ReadKRWKeeps DEF ReadKRW, SettledFirst, account, brokerVars
<1>4. CASE LimitRisk
  BY <1>0, <1>4, RiskDecides, IssueKeeps, IssueFirst DEF LimitRisk
<1>5. CASE FollowSignals
  <2>1. PICK trend \in Trend : \E s \in Possible(trend) : Issue(Sale(s) \o Purchase(s))
    BY <1>5 DEF FollowSignals
  <2>2. PICK s \in Possible(trend) : Issue(Sale(s) \o Purchase(s))
    BY <2>1
  <2>3. Decision(Sale(s) \o Purchase(s))
    BY <1>0, SignalsDecide
  <2>4. main = "decide"
    BY <1>5 DEF FollowSignals
  <2> QED
    BY <2>2, <2>3, <2>4, IssueKeeps, IssueFirst
<1>6. CASE Publish
  BY <1>6, PublishKeeps, PublishFirst
<1>7. CASE Finish
  BY <1>7, FinishKeeps DEF Finish, SettledFirst, account, brokerVars
<1> QED
  BY <1>1, <1>2, <1>3, <1>4, <1>5, <1>6, <1>7 DEF MainStep

LEMMA BrokerKeeps ==
  ASSUME BacktestInv, SettledFirst, BrokerStep
  PROVE  BacktestInv' /\ SettledFirst'
<1>1. CASE TakeOrder
  BY <1>1, TakeOrderKeeps, TakeOrderFirst
<1>2. CASE Buy
  BY <1>2, BuyKeeps DEF Buy, Refuse, SettledFirst, account, mainVars
<1>3. CASE Cost \/ AddCoins
  BY <1>3, CostKeeps, AddCoinsKeeps DEF Cost, AddCoins, SettledFirst, mainVars
<1>4. CASE Spend
  BY <1>4, SpendKeeps DEF Spend, SettledFirst, mainVars
<1>5. CASE Average
  BY <1>5, AverageKeeps DEF Average, SettledFirst, mainVars
<1>6. CASE Sell \/ TakeCoins
  BY <1>6, SellKeeps, TakeCoinsKeeps
     DEF Sell, TakeCoins, Refuse, SettledFirst, account, mainVars
<1>7. CASE Receive
  BY <1>7, ReceiveKeeps DEF Receive, SettledFirst, mainVars
<1> QED
  BY <1>1, <1>2, <1>3, <1>4, <1>5, <1>6, <1>7 DEF BrokerStep

LEMMA BacktestStep ==
  BacktestInv /\ SettledFirst /\ [BacktestNext]_backtestVars
    => BacktestInv' /\ SettledFirst'
<1> SUFFICES ASSUME BacktestInv, SettledFirst, [BacktestNext]_backtestVars
             PROVE  BacktestInv' /\ SettledFirst'
  OBVIOUS
<1>1. CASE \E loaded \in Seq(Nat \ {0}) : Load(loaded)
  <2>1. PICK loaded \in Seq(Nat \ {0}) : Load(loaded)
    BY <1>1
  <2> QED
    BY <2>1, LoadKeeps DEF Load, SettledFirst, account, brokerVars
<1>2. CASE MainStep
  BY <1>2, MainKeeps
<1>3. CASE BrokerStep
  BY <1>3, BrokerKeeps
<1>4. CASE UNCHANGED backtestVars
  <2> USE <1>4 DEF backtestVars
  <2>1. BacktestType' /\ Covered'
    BY DEF BacktestInv, BacktestType, Covered
  <2>2. StillFits'
    BY DEF BacktestInv, StillFits, Fits, Apart
  <2>3. SettledFirst'
    BY DEF SettledFirst
  <2> QED
    BY <2>1, <2>2, <2>3 DEF BacktestInv, RefusedWhenBehind
<1> QED
  BY <1>1, <1>2, <1>3, <1>4 DEF BacktestNext

LEMMA BacktestInvariant ==
  BacktestSpec => [](BacktestInv /\ SettledFirst /\ AverageInv)
<1>1. BacktestInit => BacktestInv /\ SettledFirst /\ AverageInv
  BY BacktestInitial, AverageInitial DEF BacktestInit, SettledFirst
<1> QED
  BY <1>1, BacktestStep, AverageStep, PTL DEF BacktestSpec

\* However main and the broker interleave, and whatever is decided on an
\* account that is being written, processOrder never takes money or coins
\* the simulated account does not have, and the average price it keeps lies
\* between prices main has set, although it reads the price twice.
THEOREM AccountIsSound == BacktestSpec => []AccountSound
<1>1. BacktestInv /\ AverageInv => AccountSound
  BY DEF BacktestInv, BacktestType, AverageInv, AccountSound, Solvent
<1> QED
  BY <1>1, BacktestInvariant, PTL

\* processOrder refuses an order only when OnCandle read the account while an
\* earlier order was under way: what one settled reading decides fits.
THEOREM RefusalsBehind == BacktestSpec => []RefusedWhenBehind
<1>1. BacktestInv => RefusedWhenBehind
  BY DEF BacktestInv
<1> QED
  BY <1>1, BacktestInvariant, PTL

-----------------------------------------------------------------------------
(* Fractions: Indicators. *)

LEMMA DivisionFacts ==
  ASSUME NEW a \in Nat, NEW b \in Nat, b > 0
  PROVE  /\ a % b \in Nat /\ a % b < b /\ a \div b \in Nat
         /\ a = b * (a \div b) + (a % b)
  OBVIOUS

Divides(d, n) == \E q \in Nat : n = d * q

LEMMA DividesLinear ==
  ASSUME NEW d \in Nat, NEW a \in Nat, NEW b \in Nat, NEW q \in Nat, NEW r \in Nat,
         a = b * q + r, Divides(d, b)
  PROVE  Divides(d, a) <=> Divides(d, r)
<1>1. PICK m \in Nat : b = d * m
  BY DEF Divides
<1>2. ASSUME Divides(d, r)  PROVE Divides(d, a)
  <2>1. PICK n \in Nat : r = d * n
    BY <1>2 DEF Divides
  <2>2. a = d * (m * q + n) /\ m * q + n \in Nat
    <3>1. b * q = d * (m * q)
      BY <1>1
    <3>2. m * q \in Nat
      OBVIOUS
    <3>3. d * (m * q + n) = d * (m * q) + d * n
      BY <3>2
    <3> QED
      BY <2>1, <3>1, <3>2, <3>3
  <2> QED
    BY <2>2 DEF Divides
<1>3. ASSUME Divides(d, a)  PROVE Divides(d, r)
  <2>1. PICK n \in Nat : a = d * n
    BY <1>3 DEF Divides
  <2>2. b * q = d * (m * q) /\ m * q \in Nat
    BY <1>1
  <2>3. r = d * n - d * (m * q)
    BY <2>1, <2>2
  <2>4. CASE n >= m * q
    <3>1. r = d * (n - m * q) /\ n - m * q \in Nat
      BY <2>2, <2>3, <2>4
    <3> QED
      BY <3>1 DEF Divides
  <2>5. CASE n < m * q
    <3>1. d * n <= d * (m * q)
      BY <2>2, <2>5
    <3>2. r = 0 /\ 0 = d * 0
      BY <2>3, <3>1
    <3> QED
      BY <3>2 DEF Divides
  <2> QED
    BY <2>2, <2>4, <2>5
<1> QED
  BY <1>2, <1>3

LEMMA DividesBoth ==
  ASSUME NEW a \in Nat, NEW b \in Nat, Divides(a, b), Divides(b, a)
  PROVE  a = b
<1>1. PICK m \in Nat : b = a * m
  BY DEF Divides
<1>2. PICK n \in Nat : a = b * n
  BY DEF Divides
<1>3. CASE a = 0
  BY <1>1, <1>3
<1>4. CASE a # 0
  <2>1. a * 1 = a * (m * n) /\ m * n \in Nat
    BY <1>1, <1>2
  <2>2. m * n = 1
    BY <1>4, <2>1
  <2>3. m = 1
    BY <2>2
  <2> QED
    BY <1>1, <2>3
<1> QED
  BY <1>3, <1>4

\* What Euclid's algorithm computes.
IsGcd(g, a, b) == \A d \in Nat : Divides(d, g) <=> Divides(d, a) /\ Divides(d, b)
Greatest(a, b) == CHOOSE g \in Nat : IsGcd(g, a, b)

GcdStep(f) == [ab \in Nat \X Nat |->
                 IF ab[2] = 0 THEN ab[1] ELSE f[<<ab[2], ab[1] % ab[2]>>]]

LEMMA GreatestOfZero ==
  ASSUME NEW a \in Nat
  PROVE  Greatest(a, 0) = a
<1>1. \A d \in Nat : Divides(d, 0)
  <2>1. \A d \in Nat : 0 = d * 0
    OBVIOUS
  <2> QED
    BY <2>1 DEF Divides
<1>2. IsGcd(a, a, 0)
  BY <1>1 DEF IsGcd
<1>3. ASSUME NEW g \in Nat, IsGcd(g, a, 0)  PROVE g = a
  <2>1. \A n \in Nat : Divides(n, n)
    <3>1. \A n \in Nat : n = n * 1
      OBVIOUS
    <3> QED
      BY <3>1 DEF Divides
  <2>2. Divides(g, a) /\ Divides(a, g)
    BY <1>1, <1>3, <2>1 DEF IsGcd
  <2> QED
    BY <2>2, DividesBoth
<1> QED
  BY <1>2, <1>3 DEF Greatest

LEMMA GreatestOfRest ==
  ASSUME NEW a \in Nat, NEW b \in Nat, b > 0
  PROVE  Greatest(a, b) = Greatest(b, a % b)
<1>1. \A d \in Nat : Divides(d, b) => (Divides(d, a) <=> Divides(d, a % b))
  BY DivisionFacts, DividesLinear
<1>2. \A g \in Nat : IsGcd(g, a, b) <=> IsGcd(g, b, a % b)
  BY <1>1 DEF IsGcd
<1> QED
  BY <1>2 DEF Greatest

LEMMA GcdSteps ==
  ASSUME NEW a \in Nat, NEW b \in Nat
  PROVE  /\ gcd[<<a, 0>>] = a
         /\ b > 0 => gcd[<<a, b>>] = gcd[<<b, a % b>>]
<1> DEFINE f == [ab \in Nat \X Nat |-> Greatest(ab[1], ab[2])]
<1>1. ASSUME NEW m \in Nat, NEW n \in Nat
      PROVE  Greatest(m, n) = IF n = 0 THEN m ELSE f[<<n, m % n>>]
  <2>1. CASE n = 0
    BY <2>1, GreatestOfZero
  <2>2. CASE n # 0
    <3>1. n > 0 /\ m % n \in Nat
      BY <2>2, DivisionFacts
    <3> QED
      BY <2>2, <3>1, GreatestOfRest
  <2> QED
    BY <2>1, <2>2
<1>2. f = GcdStep(f)
  BY <1>1, SMTT(30) DEF GcdStep
<1>3. gcd = CHOOSE g : g = GcdStep(g)
  BY DEF gcd, GcdStep
<1> HIDE DEF f
<1>4. gcd = GcdStep(gcd)
  BY <1>2, <1>3
<1> HIDE DEF gcd
<1>5. b > 0 => a % b \in Nat
  BY DivisionFacts
<1> QED
  BY <1>4, <1>5 DEF GcdStep

LEMMA TimesOrder ==
  ASSUME NEW m \in Nat, NEW n \in Nat, NEW k \in Nat, k > 0
  PROVE  /\ k * m = k * n <=> m = n
         /\ k * m < k * n <=> m < n
         /\ k * m <= k * n <=> m <= n
  OBVIOUS

LEMMA RestOnly ==
  ASSUME NEW a \in Nat, NEW b \in Nat, b > 0, NEW q \in Nat, NEW r \in Nat,
         a = b * q + r, r < b
  PROVE  a \div b = q /\ a % b = r
<1>1. PICK p \in Nat, s \in Nat : p = a \div b /\ s = a % b /\ a = b * p + s /\ s < b
  BY DivisionFacts
<1>2. CASE p < q
  <2>1. p + 1 <= q /\ p + 1 \in Nat
    BY <1>2
  <2>2. b * (p + 1) <= b * q /\ b * (p + 1) = b * p + b
    BY <2>1
  <2>3. b * p \in Nat /\ b * q \in Nat
    OBVIOUS
  <2> QED
    BY <1>1, <2>2, <2>3
<1>3. CASE q < p
  <2>1. q + 1 <= p /\ q + 1 \in Nat
    BY <1>3
  <2>2. b * (q + 1) <= b * p /\ b * (q + 1) = b * q + b
    BY <2>1
  <2>3. b * p \in Nat /\ b * q \in Nat
    OBVIOUS
  <2> QED
    BY <1>1, <2>2, <2>3
<1>4. CASE p = q
  <2>1. b * q \in Nat
    OBVIOUS
  <2> QED
    BY <1>1, <1>4, <2>1
<1> QED
  BY <1>2, <1>3, <1>4

LEMMA RestScales ==
  ASSUME NEW a \in Nat, NEW b \in Nat, b > 0, NEW k \in Nat, k > 0
  PROVE  (k * a) % (k * b) = k * (a % b) /\ k * b > 0
<1>1. PICK q \in Nat, r \in Nat : r = a % b /\ a = b * q + r /\ r < b
  BY DivisionFacts
<1> DEFINE A == k * a
           B == k * b
           R == k * r
<1>2. A \in Nat /\ B \in Nat /\ B > 0 /\ R \in Nat /\ R < B
  BY <1>1, TimesOrder
<1>3. A = B * q + R
  BY <1>1
<1>4. A % B = R
  <2> HIDE DEF A, B, R
  <2> QED
    BY <1>2, <1>3, RestOnly
<1> QED
  BY <1>1, <1>2, <1>4

\* The algorithm yields a divisor of both numbers, and that of their multiples
\* is a multiple.
GcdSound(a, b) ==
  LET g == gcd[<<a, b>>] IN
  /\ g \in Nat
  /\ Divides(g, a) /\ Divides(g, b)
  /\ b > 0 => g > 0
  /\ \A k \in Nat : k > 0 => gcd[<<k * a, k * b>>] = k * g

LEMMA GcdFacts ==
  ASSUME NEW a \in Nat, NEW b \in Nat
  PROVE  GcdSound(a, b)
<1> DEFINE T == {n \in Nat : \E m \in Nat : ~GcdSound(m, n)}
<1> SUFFICES ASSUME T # {}  PROVE FALSE
  OBVIOUS
<1>1. PICK n \in T : \A m \in T : n <= m
  <2> HIDE DEF T
  <2>1. T \subseteq Nat
    BY DEF T
  <2> QED
    BY <2>1, Least
<1>2. PICK m \in Nat : ~GcdSound(m, n)
  OBVIOUS
<1>3. \A i, j \in Nat : j < n => GcdSound(i, j)
  BY <1>1
<1>4. CASE n = 0
  <2>1. gcd[<<m, n>>] = m
    BY <1>4, GcdSteps
  <2>2. Divides(m, m) /\ Divides(m, 0)
    <3>1. m = m * 1 /\ 0 = m * 0
      OBVIOUS
    <3> QED
      BY <3>1 DEF Divides
  <2>3. ASSUME NEW k \in Nat, k > 0  PROVE gcd[<<k * m, k * n>>] = k * m
    <3>1. k * n = 0 /\ k * m \in Nat
      BY <1>4
    <3> QED
      BY <3>1, GcdSteps
  <2> QED
    BY <1>2, <1>4, <2>1, <2>2, <2>3 DEF GcdSound
<1>5. CASE n # 0
  <2> DEFINE r == m % n
             g == gcd[<<n, r>>]
  <2>1. n \in Nat /\ n > 0 /\ r \in Nat /\ r < n
    BY <1>5, DivisionFacts
  <2>2. GcdSound(n, r) /\ gcd[<<m, n>>] = g
    BY <1>3, <2>1, GcdSteps
  <2>3. g \in Nat /\ Divides(g, n) /\ Divides(g, r)
    BY <2>2 DEF GcdSound
  <2>4. Divides(g, m)
    <3>1. PICK q \in Nat : m = n * q + r
      BY <2>1, DivisionFacts
    <3> HIDE DEF r, g
    <3> QED
      BY <2>1, <2>3, <3>1, DividesLinear
  <2>5. g > 0
    <3>1. PICK q \in Nat : n = g * q
      BY <2>3 DEF Divides
    <3> HIDE DEF g
    <3>2. g # 0
      BY <2>1, <2>3, <3>1
    <3> QED
      BY <2>3, <3>2
  <2>6. ASSUME NEW k \in Nat, k > 0  PROVE gcd[<<k * m, k * n>>] = k * g
    <3> DEFINE M == k * m
               N == k * n
               R == k * r
    <3>1. M \in Nat /\ N \in Nat /\ N > 0
      BY <2>1, <2>6, TimesOrder
    <3>2. M % N = R
      BY <2>1, <2>6, RestScales
    <3>3. gcd[<<M, N>>] = gcd[<<N, R>>]
      <4> HIDE DEF M, N, R
      <4> QED
        BY <3>1, <3>2, GcdSteps
    <3>4. gcd[<<k * m, k * n>>] = gcd[<<k * n, k * r>>]
      BY <3>3
    <3>5. gcd[<<k * n, k * r>>] = k * g
      <4> HIDE DEF r
      <4> QED
        BY <2>2, <2>6 DEF GcdSound
    <3> QED
      BY <3>4, <3>5
  <2> QED
    BY <1>2, <2>2, <2>3, <2>4, <2>5, <2>6 DEF GcdSound
<1> QED
  BY <1>4, <1>5

\* A fraction that is not negative, in its lowest terms.
Reduced(a) ==
  /\ a[1] \in Nat /\ a[2] \in Nat /\ a[2] > 0 /\ a = <<a[1], a[2]>>
  /\ gcd[<<a[1], a[2]>>] = 1

LEMMA FracReduces ==
  ASSUME NEW n \in Nat, NEW d \in Nat, d > 0
  PROVE  /\ Reduced(Frac(n, d))
         /\ \E g \in Nat : g > 0 /\ n = g * Frac(n, d)[1] /\ d = g * Frac(n, d)[2]
<1> DEFINE g == gcd[<<n, d>>]
<1>1. g \in Nat /\ Divides(g, n) /\ Divides(g, d) /\ g > 0
  BY GcdFacts DEF GcdSound
<1>2. Frac(n, d) = <<n \div g, d \div g>>
  BY DEF Frac
<1> HIDE DEF g
<1>3. PICK p \in Nat : n = g * p
  BY <1>1 DEF Divides
<1>4. PICK q \in Nat : d = g * q
  BY <1>1 DEF Divides
<1>5. n \div g = p /\ d \div g = q
  <2>1. n = g * p + 0 /\ d = g * q + 0 /\ 0 \in Nat
    BY <1>3, <1>4
  <2> QED
    BY <1>1, <2>1, RestOnly
<1>6. q > 0
  BY <1>1, <1>4
<1>7. gcd[<<g * p, g * q>>] = g * gcd[<<p, q>>] /\ gcd[<<p, q>>] \in Nat
  BY <1>1, GcdFacts DEF GcdSound
<1>8. gcd[<<p, q>>] = 1
  <2> DEFINE h == gcd[<<p, q>>]
  <2>1. g * 1 = g * h /\ h \in Nat
    BY <1>1, <1>3, <1>4, <1>7 DEF g
  <2> HIDE DEF h
  <2>2. h = 1
    BY <1>1, <2>1, TimesOrder
  <2> QED
    BY <2>2 DEF h
<1> QED
  BY <1>1, <1>2, <1>3, <1>4, <1>5, <1>6, <1>8 DEF Reduced

\* A number is one fraction in lowest terms only.
LEMMA FracIs ==
  ASSUME NEW n \in Nat, NEW d \in Nat, d > 0,
         NEW x \in Nat, NEW y \in Nat, y > 0, gcd[<<x, y>>] = 1, n * y = x * d
  PROVE  Frac(n, d) = <<x, y>>
<1> DEFINE g == gcd[<<n, d>>]
<1>1. g \in Nat /\ g > 0 /\ gcd[<<y * n, y * d>>] = y * g
  BY GcdFacts DEF GcdSound
<1>2. gcd[<<d * x, d * y>>] = d * gcd[<<x, y>>]
  BY GcdFacts DEF GcdSound
<1>3. d * x = y * n /\ d * y = y * d /\ d * 1 = d
  OBVIOUS
<1>4. d = y * g
  BY <1>1, <1>2, <1>3
<1>5. Frac(n, d) = <<n \div g, d \div g>>
  BY DEF Frac
<1> HIDE DEF g
<1>6. y * n = y * (g * x) /\ g * x \in Nat
  <2>1. y * n = (y * g) * x
    BY <1>3, <1>4
  <2> QED
    BY <1>1, <2>1
<1>7. n = g * x
  BY <1>6, TimesOrder
<1>8. n \div g = x /\ d \div g = y
  <2>1. n = g * x + 0 /\ d = g * y + 0 /\ 0 \in Nat
    BY <1>1, <1>4, <1>7
  <2> QED
    BY <1>1, <2>1, RestOnly
<1> QED
  BY <1>5, <1>8

LEMMA WholeIsReduced ==
  ASSUME NEW n \in Nat
  PROVE  Reduced(<<n, 1>>)
<1> DEFINE g == gcd[<<n, 1>>]
<1>1. g \in Nat /\ Divides(g, 1)
  BY GcdFacts DEF GcdSound
<1> HIDE DEF g
<1>2. PICK q \in Nat : 1 = g * q
  BY <1>1 DEF Divides
<1>3. g = 1
  BY <1>1, <1>2
<1> QED
  BY <1>3 DEF Reduced, g

LEMMA PartIsReduced ==
  ASSUME NEW n \in Nat, n > 0
  PROVE  Reduced(<<1, n>>) /\ Frac(1, n) = <<1, n>>
<1> DEFINE g == gcd[<<1, n>>]
<1>1. g \in Nat /\ Divides(g, 1)
  BY GcdFacts DEF GcdSound
<1> HIDE DEF g
<1>2. PICK q \in Nat : 1 = g * q
  BY <1>1 DEF Divides
<1>3. g = 1
  BY <1>1, <1>2
<1>4. gcd[<<1, n>>] = 1
  BY <1>3 DEF g
<1>5. Frac(1, n) = <<1, n>>
  BY <1>4, FracIs
<1> QED
  BY <1>4, <1>5 DEF Reduced

\* What all the money buys is worth the money.
LEMMA BoughtForAll ==
  ASSUME NEW money, Reduced(money), NEW price \in Nat, price > 0
  PROVE  /\ Reduced(Times(money, Frac(1, price)))
         /\ Times(Times(money, Frac(1, price)), <<price, 1>>) = money
         /\ money[1] > 0 => Times(money, Frac(1, price))[1] > 0
<1> DEFINE m == money[1]
           k == money[2]
           d == k * price
<1>1. m \in Nat /\ k \in Nat /\ k > 0 /\ money = <<m, k>> /\ gcd[<<m, k>>] = 1
  BY DEF Reduced
<1> HIDE DEF m, k
<1>2. d \in Nat /\ d > 0
  BY <1>1
<1>3. Times(money, Frac(1, price)) = Frac(m, d)
  <2>1. m * 1 = m
    BY <1>1
  <2>2. Frac(1, price) = <<1, price>>
    BY PartIsReduced
  <2>3. Times(money, <<1, price>>) = Frac(m * 1, k * price)
    BY DEF Times, m, k
  <2> QED
    BY <2>1, <2>2, <2>3
<1>4. PICK coins : coins = Frac(m, d)
  OBVIOUS
<1> DEFINE x == coins[1]
           y == coins[2]
<1>5. PICK g \in Nat : g > 0 /\ m = g * x /\ d = g * y
  <2> HIDE DEF d
  <2> QED
    BY <1>1, <1>2, <1>4, FracReduces
<1>6. Reduced(coins)
  <2> HIDE DEF d
  <2> QED
    BY <1>1, <1>2, <1>4, FracReduces
<1>7. x \in Nat /\ y \in Nat /\ y > 0
  BY <1>6 DEF Reduced
<1> HIDE DEF x, y
<1>8. Times(coins, <<price, 1>>) = Frac(x * price, y)
  <2>1. y * 1 = y
    BY <1>7
  <2> QED
    BY <2>1 DEF Times, x, y
<1>9. (x * price) * k = m * y
  <2>1. g * ((x * price) * k) = g * (m * y)
    <3>1. g * ((x * price) * k) = (g * x) * (price * k)
      BY <1>1, <1>7
    <3>2. (g * x) * (price * k) = m * (k * price)
      BY <1>1, <1>5
    <3>3. m * (k * price) = m * (g * y)
      BY <1>5
    <3>4. m * (g * y) = g * (m * y)
      BY <1>1, <1>7
    <3> QED
      BY <3>1, <3>2, <3>3, <3>4
  <2>2. (x * price) * k \in Nat /\ m * y \in Nat
    BY <1>1, <1>7
  <2> QED
    BY <1>5, <2>1, <2>2, TimesOrder
<1>10. Frac(x * price, y) = <<m, k>>
  <2> DEFINE n == x * price
  <2>1. n \in Nat
    BY <1>7
  <2> HIDE DEF n
  <2>2. n * k = m * y
    BY <1>9 DEF n
  <2>3. Frac(n, y) = <<m, k>>
    BY <1>1, <1>7, <2>1, <2>2, FracIs
  <2> QED
    BY <2>3 DEF n
<1>11. m > 0 => x > 0
  BY <1>5, <1>7
<1> QED
  BY <1>1, <1>3, <1>4, <1>6, <1>8, <1>10, <1>11 DEF m, x

\* Of the same coins, those sold at a higher price yield more.
LEMMA SoldForMore ==
  ASSUME NEW coins, Reduced(coins), coins[1] > 0,
         NEW low \in Nat, NEW high \in Nat, low < high
  PROVE  /\ Reduced(Times(coins, <<low, 1>>)) /\ Reduced(Times(coins, <<high, 1>>))
         /\ Less(Times(coins, <<low, 1>>), Times(coins, <<high, 1>>))
<1> DEFINE x == coins[1]
           y == coins[2]
           a == x * low
           b == x * high
<1>1. x \in Nat /\ x > 0 /\ y \in Nat /\ y > 0
  BY DEF Reduced
<1>2. Times(coins, <<low, 1>>) = Frac(a, y) /\ Times(coins, <<high, 1>>) = Frac(b, y)
  <2>1. y * 1 = y
    BY <1>1
  <2> QED
    BY <2>1 DEF Times
<1>3. a \in Nat /\ b \in Nat /\ a < b
  <2> HIDE DEF x
  <2> QED
    BY <1>1, TimesOrder
<1> HIDE DEF x, y, a, b
<1>4. PICK g \in Nat : g > 0 /\ a = g * Frac(a, y)[1] /\ y = g * Frac(a, y)[2]
  BY <1>1, <1>3, FracReduces
<1>5. PICK h \in Nat : h > 0 /\ b = h * Frac(b, y)[1] /\ y = h * Frac(b, y)[2]
  BY <1>1, <1>3, FracReduces
<1>6. Reduced(Frac(a, y)) /\ Reduced(Frac(b, y))
  BY <1>1, <1>3, FracReduces
<1> DEFINE p == Frac(a, y)[1]
           q == Frac(a, y)[2]
           r == Frac(b, y)[1]
           s == Frac(b, y)[2]
<1>7. p \in Nat /\ q \in Nat /\ q > 0 /\ r \in Nat /\ s \in Nat /\ s > 0
  BY <1>6 DEF Reduced
<1>8. a = g * p /\ y = g * q /\ b = h * r /\ y = h * s
  BY <1>4, <1>5
<1> HIDE DEF p, q, r, s
<1>9. p * s < r * q
  <2>1. y * a < y * b
    BY <1>1, <1>3, TimesOrder
  <2>2. y * a = (g * h) * (p * s)
    <3>1. y * a = (h * s) * (g * p)
      BY <1>8
    <3> QED
      BY <1>7, <3>1
  <2>3. y * b = (g * h) * (r * q)
    <3>1. y * b = (g * q) * (h * r)
      BY <1>8
    <3> QED
      BY <1>7, <3>1
  <2> DEFINE gh == g * h
             ps == p * s
             rq == r * q
  <2>4. gh \in Nat /\ gh > 0 /\ ps \in Nat /\ rq \in Nat
    BY <1>4, <1>5, <1>7
  <2>5. gh * ps < gh * rq
    BY <2>1, <2>2, <2>3
  <2> HIDE DEF gh, ps, rq
  <2>6. ps < rq
    BY <2>4, <2>5, TimesOrder
  <2> QED
    BY <2>6 DEF ps, rq
<1>10. Less(Frac(a, y), Frac(b, y))
  BY <1>7, <1>9 DEF Less, isNaN, p, q, r, s
<1> QED
  BY <1>2, <1>6, <1>10

\* The order of numbers.
LEMMA AtMostThenLess ==
  ASSUME NEW a, NEW b, NEW c, Reduced(a), Reduced(b), Reduced(c),
         AtMost(a, b), Less(b, c)
  PROVE  AtMost(a, c) /\ AtMost(a, a)
<1> DEFINE p == a[1]
           q == a[2]
           r == b[1]
           s == b[2]
           t == c[1]
           u == c[2]
<1>1. /\ p \in Nat /\ q \in Nat /\ q > 0
      /\ r \in Nat /\ s \in Nat /\ s > 0
      /\ t \in Nat /\ u \in Nat /\ u > 0
  BY DEF Reduced
<1>2. p * s <= r * q /\ r * u < t * s
  BY DEF AtMost, Less
<1> HIDE DEF p, q, r, s, t, u
<1>3. p * u <= t * q
  <2>1. u * (p * s) <= u * (r * q) /\ q * (r * u) < q * (t * s)
    <3> DEFINE ps == p * s
               rq == r * q
               ru == r * u
               ts == t * s
    <3>1. ps \in Nat /\ rq \in Nat /\ ru \in Nat /\ ts \in Nat
      BY <1>1
    <3>2. ps <= rq /\ ru < ts
      BY <1>2
    <3> HIDE DEF ps, rq, ru, ts
    <3>3. u * ps <= u * rq /\ q * ru < q * ts
      BY <1>1, <3>1, <3>2, TimesOrder
    <3> QED
      BY <3>3 DEF ps, rq, ru, ts
  <2> DEFINE pu == p * u
             tq == t * q
  <2>2. /\ u * (p * s) = s * pu /\ q * (t * s) = s * tq
        /\ u * (r * q) = q * (r * u)
    BY <1>1
  <2>3. pu \in Nat /\ tq \in Nat /\ s * pu \in Nat /\ s * tq \in Nat /\ q * (r * u) \in Nat
    BY <1>1
  <2>4. s * pu <= s * tq
    BY <2>1, <2>2, <2>3
  <2> HIDE DEF pu, tq
  <2>5. pu <= tq
    BY <1>1, <2>3, <2>4, TimesOrder
  <2> QED
    BY <2>5 DEF pu, tq
<1>4. p * q <= p * q
  BY <1>1
<1> QED
  BY <1>1, <1>3, <1>4 DEF AtMost, isNaN, p, q, t, u

-----------------------------------------------------------------------------
(* What is computed of a candle depends on the candles up to it. *)

\* The one sequence starts the other.
Starts(s, t) ==
  \E n, N \in Nat : /\ n <= N /\ DOMAIN s = 1..n /\ DOMAIN t = 1..N
                    /\ \A i \in 1..n : s[i] = t[i]

LEMMA SumSame ==
  ASSUME NEW S, NEW f, NEW g, \A i \in S : f[i] = g[i]
  PROVE  SumFunctionOnSet(f, S) = SumFunctionOnSet(g, S)
<1> DEFINE one(s) == CHOOSE i \in s : TRUE
           F(h) == [s \in SUBSET S |-> IF s = {} THEN 0 ELSE f[one(s)] + h[s \ {one(s)}]]
           G(h) == [s \in SUBSET S |-> IF s = {} THEN 0 ELSE g[one(s)] + h[s \ {one(s)}]]
<1>1. ASSUME NEW h  PROVE F(h) = G(h)
  <2>1. \A s \in SUBSET S : s # {} => one(s) \in S
    OBVIOUS
  <2> HIDE DEF one
  <2> QED
    BY <2>1
<1>2. /\ SumFunctionOnSet(f, S) = (CHOOSE h : h = F(h))[S]
      /\ SumFunctionOnSet(g, S) = (CHOOSE h : h = G(h))[S]
  BY DEF SumFunctionOnSet, FoldFunctionOnSet, MapThenFoldSet
<1> HIDE DEF F, G
<1> QED
  BY <1>1, <1>2

LEMMA PlusSame ==
  ASSUME NEW S, NEW f, NEW g, \A i \in S : f[i] = g[i]
  PROVE  PlusOver(f, S) = PlusOver(g, S)
<1> DEFINE one(s) == CHOOSE i \in s : TRUE
           F(h) == [s \in SUBSET S |-> IF s = {} THEN Zero
                                       ELSE Plus(h[s \ {one(s)}], f[one(s)])]
           G(h) == [s \in SUBSET S |-> IF s = {} THEN Zero
                                       ELSE Plus(h[s \ {one(s)}], g[one(s)])]
<1>1. ASSUME NEW h  PROVE F(h) = G(h)
  <2>1. \A s \in SUBSET S : s # {} => one(s) \in S
    OBVIOUS
  <2> HIDE DEF one
  <2> QED
    BY <2>1
<1>2. /\ PlusOver(f, S) = (CHOOSE h : h = F(h))[S]
      /\ PlusOver(g, S) = (CHOOSE h : h = G(h))[S]
  BY DEF PlusOver, FoldSet, MapThenFoldSet
<1> HIDE DEF F, G
<1> QED
  BY <1>1, <1>2

LEMMA ClosesStart ==
  ASSUME NEW s, NEW t, Starts(s, t)
  PROVE  /\ Starts(Closes(s), Closes(t))
         /\ Starts([i \in DOMAIN s |-> <<s[i].close, 1>>],
                   [i \in DOMAIN t |-> <<t[i].close, 1>>])
<1>1. PICK n \in Nat, N \in Nat :
        /\ n <= N /\ DOMAIN s = 1..n /\ DOMAIN t = 1..N
        /\ \A i \in 1..n : s[i] = t[i]
  BY DEF Starts
<1>2. \A i \in 1..n : i \in 1..N
  BY <1>1
<1> QED
  BY <1>1, <1>2 DEF Starts, Closes

\* The window of a candle lies before it.
LEMMA WindowBefore ==
  ASSUME NEW n \in Nat, NEW i \in 1..n, NEW w \in Nat \ {0}, i >= w
  PROVE  \A j \in (i - w + 1)..i : j \in 1..n
OBVIOUS

LEMMA SMAStarts ==
  ASSUME NEW s, NEW t, Starts(s, t), NEW w \in Nat \ {0}
  PROVE  Starts(CustomSMA(s, w), CustomSMA(t, w))
<1> DEFINE c == Closes(s)
           e == Closes(t)
<1>1. PICK n \in Nat, N \in Nat :
        /\ n <= N /\ DOMAIN s = 1..n /\ DOMAIN t = 1..N
        /\ \A i \in 1..n : s[i] = t[i]
  BY DEF Starts
<1>0. \A i \in 1..n : c[i] = e[i]
  <2>1. \A i \in 1..n : i \in 1..N
    BY <1>1
  <2> QED
    BY <1>1, <2>1 DEF Closes
<1> HIDE DEF c, e
<1>2. ASSUME NEW i \in 1..n
      PROVE  CustomSMA(s, w)[i] = CustomSMA(t, w)[i] /\ i \in 1..N
  <2>1. i \in 1..N
    BY <1>1
  <2>2. /\ CustomSMA(s, w)[i] = IF i < w THEN NaN ELSE Frac(WindowSum(c, i, w), w)
        /\ CustomSMA(t, w)[i] = IF i < w THEN NaN ELSE Frac(WindowSum(e, i, w), w)
    BY <1>1, <2>1 DEF CustomSMA, c, e
  <2>3. CASE i < w
    BY <2>1, <2>2, <2>3
  <2>4. CASE ~(i < w)
    <3>1. \A j \in (i - w + 1)..i : j \in 1..n
      BY <2>4, WindowBefore
    <3>2. WindowSum(c, i, w) = WindowSum(e, i, w)
      BY <1>0, <3>1, SumSame DEF WindowSum
    <3> QED
      BY <2>1, <2>2, <3>2
  <2> QED
    BY <2>3, <2>4
<1>3. DOMAIN CustomSMA(s, w) = 1..n /\ DOMAIN CustomSMA(t, w) = 1..N
  BY <1>1 DEF CustomSMA
<1> QED
  BY <1>1, <1>2, <1>3 DEF Starts

\* The average at a place past the first window.
EMAValid(v, w) == {i \in 1..w : i \in DOMAIN v /\ ~isNaN(v[i])}
EMAMean(v, w) == Times(PlusOver(v, EMAValid(v, w)), Frac(1, Cardinality(EMAValid(v, w))))
EMANext(v, w, last, h) ==
  [i \in w..last |->
     IF i = w THEN IF EMAValid(v, w) = {} THEN Zero ELSE EMAMean(v, w)
     ELSE IF isNaN(v[i]) THEN h[i - 1]
     ELSE Plus(Times(Minus(<<1, 1>>, Frac(2, w + 1)), h[i - 1]),
               Times(Frac(2, w + 1), v[i]))]

EMABefore(v, w, i) == (CHOOSE h : h = EMANext(v, w, i, h))[i]

LEMMA EMAIs ==
  ASSUME NEW v, NEW w
  PROVE  CustomEMAFromSlice(v, w) =
           [i \in DOMAIN v |->
              IF \/ i < w
                 \/ i = w /\ EMAValid(v, w) = {}
                 \/ i > w /\ isNaN(v[i])
              THEN NaN ELSE EMABefore(v, w, i)]
BY DEF CustomEMAFromSlice, EMAValid, EMAMean, EMANext, EMABefore

LEMMA EMAStarts ==
  ASSUME NEW s, NEW t, Starts(s, t), NEW w \in Nat \ {0}
  PROVE  Starts(CustomEMAFromSlice(s, w), CustomEMAFromSlice(t, w))
<1> DEFINE a == CustomEMAFromSlice(s, w)
           b == CustomEMAFromSlice(t, w)
<1>1. PICK n \in Nat, N \in Nat :
        /\ n <= N /\ DOMAIN s = 1..n /\ DOMAIN t = 1..N
        /\ \A i \in 1..n : s[i] = t[i]
  BY DEF Starts
<1>2. ASSUME NEW i \in 1..n
      PROVE  a[i] = b[i] /\ i \in 1..N
  <2>1. i \in 1..N /\ s[i] = t[i]
    BY <1>1
  <2>2. CASE i < w
    BY <1>1, <2>1, <2>2, EMAIs
  <2>3. CASE ~(i < w)
    <3>1. \A j \in w..i : j \in 1..n
      BY <2>3
    <3>2. EMAValid(s, w) = EMAValid(t, w) /\ EMAValid(s, w) \subseteq 1..n
      <4>1. \A j \in 1..w : j \in 1..n /\ j \in 1..N
        BY <1>1, <2>3
      <4> QED
        BY <1>1, <4>1 DEF EMAValid
    <3>3. EMAMean(s, w) = EMAMean(t, w)
      <4>1. PlusOver(s, EMAValid(s, w)) = PlusOver(t, EMAValid(s, w))
        BY <1>1, <3>2, PlusSame
      <4> QED
        BY <3>2, <4>1 DEF EMAMean
    <3>4. ASSUME NEW h
          PROVE  EMANext(s, w, i, h) = EMANext(t, w, i, h)
      <4>1. \A j \in w..i : s[j] = t[j]
        BY <1>1, <3>1
      <4> QED
        BY <3>2, <3>3, <4>1 DEF EMANext
    <3>5. (CHOOSE h : h = EMANext(s, w, i, h)) = (CHOOSE h : h = EMANext(t, w, i, h))
      BY <3>4
    <3>6. EMABefore(s, w, i) = EMABefore(t, w, i)
      BY <3>5 DEF EMABefore
    <3> QED
      BY <1>1, <2>1, <3>2, <3>6, EMAIs
  <2> QED
    BY <2>2, <2>3
<1>3. DOMAIN a = 1..n /\ DOMAIN b = 1..N
  BY <1>1, EMAIs
<1> HIDE DEF a, b
<1>4. Starts(a, b)
  BY <1>1, <1>2, <1>3 DEF Starts
<1> QED
  BY <1>4 DEF a, b

LEMMA EMAsStart ==
  ASSUME NEW s, NEW t, Starts(s, t), NEW w \in Nat \ {0}
  PROVE  Starts(CustomEMA(s, w), CustomEMA(t, w))
BY ClosesStart, EMAStarts DEF CustomEMA

LEMMA MACDStarts ==
  ASSUME NEW s, NEW t, Starts(s, t), NEW short \in Nat \ {0},
         NEW long \in Nat \ {0}, NEW w \in Nat \ {0}
  PROVE  LET a == calculateMACD(s, short, long, w)
             b == calculateMACD(t, short, long, w)
         IN  Starts(a.macd, b.macd) /\ Starts(a.signal, b.signal)
<1> DEFINE Line(v) == [i \in DOMAIN v |->
                         Minus(CustomEMA(v, short)[i], CustomEMA(v, long)[i])]
<1>1. PICK n \in Nat, N \in Nat :
        /\ n <= N /\ DOMAIN s = 1..n /\ DOMAIN t = 1..N
        /\ \A i \in 1..n : s[i] = t[i]
  BY DEF Starts
<1>2. /\ Starts(CustomEMA(s, short), CustomEMA(t, short))
      /\ Starts(CustomEMA(s, long), CustomEMA(t, long))
  BY EMAsStart
<1>3. \A v, u : DOMAIN CustomEMA(v, u) = DOMAIN v
  BY EMAIs DEF CustomEMA
<1>4. ASSUME NEW u \in {short, long}, NEW i \in 1..n
      PROVE  CustomEMA(s, u)[i] = CustomEMA(t, u)[i]
  <2>1. Starts(CustomEMA(s, u), CustomEMA(t, u)) /\ i \in DOMAIN CustomEMA(s, u)
    BY <1>1, <1>2, <1>3
  <2> QED
    BY <2>1 DEF Starts
<1>5. Starts(Line(s), Line(t))
  <2>1. \A i \in 1..n : i \in 1..N
    BY <1>1
  <2>2. \A i \in 1..n : Line(s)[i] = Line(t)[i]
    BY <1>1, <1>4, <2>1
  <2>3. DOMAIN Line(s) = 1..n /\ DOMAIN Line(t) = 1..N
    BY <1>1
  <2> HIDE DEF Line
  <2> QED
    BY <1>1, <2>2, <2>3 DEF Starts
<1>6. \A v : /\ calculateMACD(v, short, long, w).macd = Line(v)
             /\ calculateMACD(v, short, long, w).signal = CustomEMAFromSlice(Line(v), w)
  BY DEF calculateMACD, calculateEMA, calculateEMAFromSlice
<1> HIDE DEF Line
<1>7. Starts(CustomEMAFromSlice(Line(s), w), CustomEMAFromSlice(Line(t), w))
  BY <1>5, EMAStarts
<1> QED
  BY <1>5, <1>6, <1>7

\* The change of a candle's close, and what of it is counted.
Changes(v) == [i \in DOMAIN v |-> IF i = 1 THEN 0 ELSE v[i].close - v[i - 1].close]
Gains(v)  == [i \in DOMAIN v |-> IF Changes(v)[i] > 0 THEN Changes(v)[i] ELSE 0]
Losses(v) == [i \in DOMAIN v |-> IF Changes(v)[i] > 0 THEN 0 ELSE -Changes(v)[i]]

LEMMA RSIStarts ==
  ASSUME NEW s, NEW t, Starts(s, t), NEW p \in Nat \ {0}
  PROVE  Starts(CustomRSI(s, p), CustomRSI(t, p))
<1>1. PICK n \in Nat, N \in Nat :
        /\ n <= N /\ DOMAIN s = 1..n /\ DOMAIN t = 1..N
        /\ \A i \in 1..n : s[i] = t[i]
  BY DEF Starts
<1>2. ASSUME NEW i \in 1..n
      PROVE  i \in 1..N /\ Gains(s)[i] = Gains(t)[i] /\ Losses(s)[i] = Losses(t)[i]
  <2>1. i \in 1..N /\ s[i] = t[i] /\ (i # 1 => s[i - 1] = t[i - 1])
    BY <1>1
  <2>2. Changes(s)[i] = Changes(t)[i]
    BY <1>1, <2>1 DEF Changes
  <2> QED
    BY <1>1, <2>1, <2>2 DEF Gains, Losses
<1> DEFINE Share(up, down) == IF down = 0 THEN <<100, 1>> ELSE Frac(100 * up, up + down)
           At(v, i) == Share(WindowSum(Gains(v), i, p), WindowSum(Losses(v), i, p))
<1>3. \A v : CustomRSI(v, p) = [i \in DOMAIN v |-> IF i <= p THEN Zero ELSE At(v, i)]
  BY DEF CustomRSI, Gains, Losses, Changes
<1>4. ASSUME NEW i \in 1..n, ~(i <= p)
      PROVE  At(s, i) = At(t, i)
  <2>1. \A j \in (i - p + 1)..i : j \in 1..n
    BY <1>4
  <2>2. /\ WindowSum(Gains(s), i, p) = WindowSum(Gains(t), i, p)
        /\ WindowSum(Losses(s), i, p) = WindowSum(Losses(t), i, p)
    BY <1>2, <2>1, SumSame DEF WindowSum
  <2> HIDE DEF Share
  <2> QED
    BY <2>2
<1> HIDE DEF At
<1> DEFINE a == CustomRSI(s, p)
           b == CustomRSI(t, p)
<1>5. /\ DOMAIN a = 1..n /\ DOMAIN b = 1..N
      /\ \A i \in 1..n : a[i] = b[i]
  BY <1>1, <1>2, <1>3, <1>4
<1> HIDE DEF a, b
<1>6. Starts(a, b)
  BY <1>1, <1>5 DEF Starts
<1> QED
  BY <1>6 DEF a, b

Lowest(v, i, p)  == Min({v[j].low : j \in (i - p + 1)..i})
Highest(v, i, p) == Max({v[j].high : j \in (i - p + 1)..i})
StochK(v, p) ==
  [i \in DOMAIN v |->
     IF i < p THEN Zero
     ELSE IF Highest(v, i, p) = Lowest(v, i, p) THEN <<50, 1>>
     ELSE Frac(100 * (v[i].close - Lowest(v, i, p)), Highest(v, i, p) - Lowest(v, i, p))]
StochD(v, p) ==
  [i \in DOMAIN v |->
     IF i < 3 THEN Zero
     ELSE Times(<<1, 3>>, Plus(StochK(v, p)[i],
                               Plus(StochK(v, p)[i - 1], StochK(v, p)[i - 2])))]

LEMMA StochStarts ==
  ASSUME NEW s, NEW t, Starts(s, t), NEW p \in Nat \ {0}
  PROVE  LET a == CustomStochasticOscillator(s, p)
             b == CustomStochasticOscillator(t, p)
         IN  Starts(a.k, b.k) /\ Starts(a.d, b.d)
<1>1. PICK n \in Nat, N \in Nat :
        /\ n <= N /\ DOMAIN s = 1..n /\ DOMAIN t = 1..N
        /\ \A i \in 1..n : s[i] = t[i]
  BY DEF Starts
<1>2. \A i \in 1..n : i \in 1..N /\ s[i] = t[i]
  BY <1>1
<1>3. ASSUME NEW i \in 1..n
      PROVE  StochK(s, p)[i] = StochK(t, p)[i]
  <2>1. CASE i < p
    BY <1>1, <1>2, <2>1 DEF StochK
  <2>2. CASE ~(i < p)
    <3>1. \A j \in (i - p + 1)..i : j \in 1..n
      BY <2>2, WindowBefore
    <3>2. /\ {s[j].low : j \in (i - p + 1)..i} = {t[j].low : j \in (i - p + 1)..i}
          /\ {s[j].high : j \in (i - p + 1)..i} = {t[j].high : j \in (i - p + 1)..i}
      BY <1>2, <3>1
    <3>3. Lowest(s, i, p) = Lowest(t, i, p) /\ Highest(s, i, p) = Highest(t, i, p)
      BY <3>2 DEF Lowest, Highest
    <3> QED
      BY <1>1, <1>2, <3>3 DEF StochK
  <2> QED
    BY <2>1, <2>2
<1>4. ASSUME NEW i \in 1..n
      PROVE  StochD(s, p)[i] = StochD(t, p)[i]
  <2>1. CASE i < 3
    BY <1>1, <1>2, <2>1 DEF StochD
  <2>2. CASE ~(i < 3)
    <3>1. i - 1 \in 1..n /\ i - 2 \in 1..n
      BY <2>2
    <3>2. /\ StochK(s, p)[i] = StochK(t, p)[i] /\ StochK(s, p)[i - 1] = StochK(t, p)[i - 1]
          /\ StochK(s, p)[i - 2] = StochK(t, p)[i - 2]
      BY <1>3, <3>1
    <3> QED
      BY <1>1, <1>2, <3>2 DEF StochD
  <2> QED
    BY <2>1, <2>2
<1>5. /\ DOMAIN StochK(s, p) = 1..n /\ DOMAIN StochK(t, p) = 1..N
      /\ DOMAIN StochD(s, p) = 1..n /\ DOMAIN StochD(t, p) = 1..N
  BY <1>1 DEF StochK, StochD
<1>6. Starts(StochK(s, p), StochK(t, p)) /\ Starts(StochD(s, p), StochD(t, p))
  BY <1>1, <1>3, <1>4, <1>5 DEF Starts
<1>7. \A v : /\ CustomStochasticOscillator(v, p).k = StochK(v, p)
             /\ CustomStochasticOscillator(v, p).d = StochD(v, p)
  BY DEF CustomStochasticOscillator, StochK, StochD, Lowest, Highest
<1> QED
  BY <1>6, <1>7

Square(v, middle, i, j) ==
  LET d == Minus(<<v[j].close, 1>>, middle[i]) IN Times(d, d)
Variance(v, middle, i, p) ==
  Times(Frac(1, p), PlusOver([j \in (i - p + 1)..i |-> Square(v, middle, i, j)],
                             (i - p + 1)..i))

LEMMA BandsStart ==
  ASSUME NEW s, NEW t, Starts(s, t), NEW p \in Nat \ {0}, NEW multiplier
  PROVE  Starts(CustomBollingerBands(s, p, multiplier),
                CustomBollingerBands(t, p, multiplier))
<1> DEFINE Band(v, i) ==
      [middle |-> CustomSMA(v, p)[i],
       width2 |-> IF i < p THEN NaN
                  ELSE Times(<<multiplier * multiplier, 1>>, Variance(v, CustomSMA(v, p), i, p))]
<1>1. PICK n \in Nat, N \in Nat :
        /\ n <= N /\ DOMAIN s = 1..n /\ DOMAIN t = 1..N
        /\ \A i \in 1..n : s[i] = t[i]
  BY DEF Starts
<1>2. \A i \in 1..n : i \in 1..N /\ s[i] = t[i]
  BY <1>1
<1>3. ASSUME NEW i \in 1..n
      PROVE  CustomSMA(s, p)[i] = CustomSMA(t, p)[i]
  <2>1. Starts(CustomSMA(s, p), CustomSMA(t, p)) /\ DOMAIN CustomSMA(s, p) = 1..n
    BY <1>1, SMAStarts, SMTT(30) DEF CustomSMA
  <2> QED
    BY <2>1 DEF Starts
<1>4. ASSUME NEW i \in 1..n
      PROVE  Band(s, i) = Band(t, i)
  <2>1. CASE i < p
    BY <1>3, <2>1
  <2>2. CASE ~(i < p)
    <3> DEFINE W == (i - p + 1)..i
    <3>1. \A j \in W : j \in 1..n
      BY <2>2, WindowBefore
    <3>2. \A j \in W : Square(s, CustomSMA(s, p), i, j) = Square(t, CustomSMA(t, p), i, j)
      BY <1>2, <1>3, <3>1 DEF Square
    <3> HIDE DEF W
    <3>3. [j \in W |-> Square(s, CustomSMA(s, p), i, j)]
            = [j \in W |-> Square(t, CustomSMA(t, p), i, j)]
      BY <3>2
    <3>4. Variance(s, CustomSMA(s, p), i, p) = Variance(t, CustomSMA(t, p), i, p)
      BY <3>3 DEF Variance, W
    <3> QED
      BY <1>3, <3>4
  <2> QED
    BY <2>1, <2>2
<1> DEFINE a == CustomBollingerBands(s, p, multiplier)
           b == CustomBollingerBands(t, p, multiplier)
<1>5. \A v : CustomBollingerBands(v, p, multiplier) = [i \in DOMAIN v |-> Band(v, i)]
  BY DEF CustomBollingerBands, Variance, Square
<1> HIDE DEF Band
<1>6. /\ DOMAIN a = 1..n /\ DOMAIN b = 1..N
      /\ \A i \in 1..n : a[i] = b[i]
  BY <1>1, <1>2, <1>4, <1>5
<1> HIDE DEF a, b
<1>7. Starts(a, b)
  BY <1>1, <1>6 DEF Starts
<1> QED
  BY <1>7 DEF a, b

-----------------------------------------------------------------------------
(* The account of validate.go: Validate. *)

SignalOf(n) == [date : 1..n, action : {"BUY", "SELL"}]

LEMMA SignalTypes ==
  ASSUME NEW n \in Nat, NEW i \in 1..n
  PROVE  /\ \A sell, buy : Signal(i, sell, buy) \in Seq(SignalOf(n))
         /\ \A x, should : /\ BullishSignal(x, should, i) \in Seq(SignalOf(n))
                           /\ OtherSignal(x, should, i) \in Seq(SignalOf(n))
<1>1. \A action \in {"BUY", "SELL"} : <<[date |-> i, action |-> action]>> \in Seq(SignalOf(n))
  BY DEF SignalOf
<1>2. \A sell, buy : Signal(i, sell, buy) \in Seq(SignalOf(n))
  BY <1>1 DEF Signal
<1> QED
  BY <1>2 DEF BullishSignal, OtherSignal

\* What a candle adds to the signals.
SignalAt(candles, x, trend, i) ==
  LET should == PSHDecide(trend[i], Compared(candles, x, i)) IN
  IF trend[i] = "bullish" THEN BullishSignal(x, should, i)
  ELSE OtherSignal(x, should, i)

LEMMA SignalsUpTo ==
  ASSUME NEW candles, Len(candles) \in Nat, NEW x, NEW trend
  PROVE  \E upTo :
           /\ generateSignals(candles, x, trend) = upTo[Len(candles)]
           /\ \A i \in 0..Len(candles) :
                /\ upTo[i] \in Seq(SignalOf(Len(candles)))
                /\ upTo[i] = IF i <= 1 THEN <<>>
                             ELSE upTo[i - 1] \o SignalAt(candles, x, trend, i)
<1> DEFINE N == Len(candles)
           All == Seq(SignalOf(N))
           signal(i) == SignalAt(candles, x, trend, i)
           F(h) == [i \in 0..N |-> IF i <= 1 THEN <<>> ELSE h[i - 1] \o signal(i)]
           upTo == CHOOSE h : h = F(h)
           next(i, s) == IF i <= 1 THEN <<>> ELSE IF i <= N THEN s \o signal(i) ELSE <<>>
           step == [i \in Nat |-> [s \in All |-> next(i, s)]]
<1>0. N \in Nat
  OBVIOUS
<1>1. generateSignals(candles, x, trend) = upTo[N]
  BY DEF generateSignals, SignalAt
<1>2. \A i \in 1..N : signal(i) \in All
  BY SignalTypes DEF SignalAt
<1> HIDE DEF signal
<1>3. ASSUME NEW i \in Nat, NEW s \in All
      PROVE  next(i, s) \in All
  <2>1. CASE i <= 1
    BY <2>1
  <2>2. CASE i > 1 /\ i <= N
    BY <1>2, <2>2
  <2>3. CASE i > 1 /\ i > N
    BY <2>3
  <2> QED
    BY <2>1, <2>2, <2>3
<1>4. <<>> \in All
  OBVIOUS
<1>5. step \in [Nat -> [All -> All]]
  <2> HIDE DEF next, All
  <2> QED
    BY <1>3
<1>6. PICK f : IsLoop(f, All, <<>>, step, N)
  <2> HIDE DEF All, step, N
  <2> QED
    BY <1>0, <1>4, <1>5, LoopExists
<1>7. f = F(f)
  <2>1. f \in [0..N -> All] /\ f[0] = <<>>
    BY <1>6 DEF IsLoop
  <2>2. ASSUME NEW i \in 0..N
        PROVE  f[i] = IF i <= 1 THEN <<>> ELSE f[i - 1] \o signal(i)
    <3>1. CASE i = 0
      BY <2>1, <3>1
    <3>2. CASE i # 0
      <4>1. i \in 1..N /\ i \in Nat /\ i - 1 \in 0..N /\ i <= N
        BY <3>2
      <4>2. f[i - 1] \in All
        BY <2>1, <4>1
      <4>3. f[i] = next(i, f[i - 1])
        <5> HIDE DEF next, All, N
        <5> QED
          BY <1>6, <4>1, <4>2 DEF IsLoop
      <4> QED
        BY <4>1, <4>3
    <3> QED
      BY <3>1, <3>2
  <2> HIDE DEF All, N
  <2> QED
    BY <2>1, <2>2
<1>8. upTo = F(upTo)
  <2> HIDE DEF F
  <2> QED
    BY <1>7
<1> HIDE DEF upTo
<1>9. \A i \in 0..N : upTo[i] = IF i <= 1 THEN <<>> ELSE upTo[i - 1] \o signal(i)
  BY <1>8
<1>10. ASSUME NEW i \in 1..N, upTo[i - 1] \in All
       PROVE  upTo[i] = step[i][upTo[i - 1]]
  <2>1. i \in Nat /\ i \in 0..N /\ i <= N
    OBVIOUS
  <2>2. upTo[i] = next(i, upTo[i - 1])
    BY <1>9, <2>1
  <2> HIDE DEF next, All
  <2> QED
    BY <1>10, <2>1, <2>2
<1>11. upTo[0] = <<>>
  BY <1>9
<1>12. \A i \in 0..N : upTo[i] \in All
  <2> HIDE DEF All, step, N
  <2> QED
    BY <1>0, <1>4, <1>5, <1>10, <1>11, LoopOnly
<1> QED
  BY <1>1, <1>9, <1>12 DEF signal

LEMMA SignalsType ==
  ASSUME NEW candles, Len(candles) \in Nat, NEW x, NEW trend
  PROVE  generateSignals(candles, x, trend) \in Seq(SignalOf(Len(candles)))
<1>1. Len(candles) \in 0..Len(candles)
  OBVIOUS
<1> QED
  BY <1>1, SignalsUpTo

LEMMA IndicatorsStart ==
  ASSUME NEW s, NEW t, Starts(s, t)
  PROVE  LET x == IndicatorsOf(s)
             y == IndicatorsOf(t)
         IN  /\ Starts(x.ma.short, y.ma.short) /\ Starts(x.ma.long, y.ma.long)
             /\ Starts(x.rsi, y.rsi) /\ Starts(x.bands, y.bands)
             /\ Starts(x.macd.macd, y.macd.macd) /\ Starts(x.macd.signal, y.macd.signal)
             /\ Starts(x.stoch.k, y.stoch.k) /\ Starts(x.stoch.d, y.stoch.d)
<1>1. /\ \A w \in {ShortWindow, LongWindow} : Starts(CustomSMA(s, w), CustomSMA(t, w))
      /\ Starts(CustomRSI(s, RSIPeriod), CustomRSI(t, RSIPeriod))
      /\ Starts(CustomBollingerBands(s, BollingerPeriod, BollingerMultiplier),
                CustomBollingerBands(t, BollingerPeriod, BollingerMultiplier))
  BY ValidateAssumption, SMAStarts, RSIStarts, BandsStart DEF ValidateAssumption
<1>2. LET a == calculateMACD(s, MACDShortWindow, MACDLongWindow, MACDSignalWindow)
          b == calculateMACD(t, MACDShortWindow, MACDLongWindow, MACDSignalWindow)
      IN  Starts(a.macd, b.macd) /\ Starts(a.signal, b.signal)
  BY ValidateAssumption, MACDStarts DEF ValidateAssumption
<1>3. LET a == CustomStochasticOscillator(s, StochPeriod)
          b == CustomStochasticOscillator(t, StochPeriod)
      IN  Starts(a.k, b.k) /\ Starts(a.d, b.d)
  BY ValidateAssumption, StochStarts DEF ValidateAssumption
<1> QED
  BY <1>1, <1>2, <1>3
     DEF IndicatorsOf, calculateMovingAverages, calculateRSI, calculateBollingerBands,
         calculateStochasticOscillator

LEMMA IndicatorsDomains ==
  ASSUME NEW v
  PROVE  LET x == IndicatorsOf(v) IN
         \A f \in {x.ma.short, x.ma.long, x.rsi, x.bands, x.macd.macd,
                   x.macd.signal, x.stoch.k, x.stoch.d} : DOMAIN f = DOMAIN v
<1>1. \A u, w : DOMAIN CustomEMAFromSlice(u, w) = DOMAIN u
  BY EMAIs
<1>2. \A w : /\ DOMAIN CustomSMA(v, w) = DOMAIN v /\ DOMAIN CustomRSI(v, w) = DOMAIN v
             /\ DOMAIN CustomStochasticOscillator(v, w).k = DOMAIN v
             /\ DOMAIN CustomStochasticOscillator(v, w).d = DOMAIN v
  BY DEF CustomSMA, CustomRSI, CustomStochasticOscillator
<1>3. \A w, m : DOMAIN CustomBollingerBands(v, w, m) = DOMAIN v
  BY DEF CustomBollingerBands
<1>4. \A a, b, c : /\ DOMAIN calculateMACD(v, a, b, c).macd = DOMAIN v
                   /\ DOMAIN calculateMACD(v, a, b, c).signal = DOMAIN v
  BY <1>1 DEF calculateMACD, calculateEMAFromSlice
<1> QED
  BY <1>2, <1>3, <1>4
     DEF IndicatorsOf, calculateMovingAverages, calculateRSI, calculateBollingerBands,
         calculateStochasticOscillator

LEMMA StartsAt ==
  ASSUME NEW s, NEW t, Starts(s, t), NEW i \in DOMAIN s
  PROVE  s[i] = t[i]
BY DEF Starts

LEMMA SignalSame ==
  ASSUME NEW s, NEW t, Starts(s, t), NEW n \in Nat, DOMAIN s = 1..n,
         NEW i \in 2..n, NEW trend
  PROVE  SignalAt(s, IndicatorsOf(s), trend, i) = SignalAt(t, IndicatorsOf(t), trend, i)
<1> DEFINE x == IndicatorsOf(s)
           y == IndicatorsOf(t)
<1>1. /\ Starts(x.ma.short, y.ma.short) /\ Starts(x.ma.long, y.ma.long)
      /\ Starts(x.rsi, y.rsi) /\ Starts(x.bands, y.bands)
      /\ Starts(x.macd.macd, y.macd.macd) /\ Starts(x.macd.signal, y.macd.signal)
      /\ Starts(x.stoch.k, y.stoch.k) /\ Starts(x.stoch.d, y.stoch.d)
  BY IndicatorsStart
<1>2. \A f \in {x.ma.short, x.ma.long, x.rsi, x.bands, x.macd.macd,
                x.macd.signal, x.stoch.k, x.stoch.d} : DOMAIN f = 1..n
  BY IndicatorsDomains
<1> HIDE DEF x, y
<1>3. ASSUME NEW j \in 1..n
      PROVE  /\ x.ma.short[j] = y.ma.short[j] /\ x.ma.long[j] = y.ma.long[j]
             /\ x.rsi[j] = y.rsi[j] /\ x.bands[j] = y.bands[j]
             /\ x.macd.macd[j] = y.macd.macd[j] /\ x.macd.signal[j] = y.macd.signal[j]
             /\ x.stoch.k[j] = y.stoch.k[j] /\ x.stoch.d[j] = y.stoch.d[j]
             /\ s[j] = t[j]
  <2>1. j \in DOMAIN x.ma.short /\ j \in DOMAIN x.ma.long /\ j \in DOMAIN x.rsi
        /\ j \in DOMAIN x.bands /\ j \in DOMAIN x.macd.macd /\ j \in DOMAIN x.macd.signal
        /\ j \in DOMAIN x.stoch.k /\ j \in DOMAIN x.stoch.d
    BY <1>2
  <2> QED
    BY <1>1, <2>1, StartsAt
<1>4. i \in 1..n /\ i - 1 \in 1..n /\ (i > 3 => i - 2 \in 1..n)
  OBVIOUS
<1>5. /\ \A j \in {i, i - 1} : s[j] = t[j]
      /\ i > 3 => s[i - 2] = t[i - 2]
  BY <1>3, <1>4
<1>6. /\ Crossing(x.ma.short, x.ma.long, i) = Crossing(y.ma.short, y.ma.long, i)
      /\ Crossing(x.stoch.k, x.stoch.d, i) = Crossing(y.stoch.k, y.stoch.d, i)
      /\ Crossing(x.macd.macd, x.macd.signal, i) = Crossing(y.macd.macd, y.macd.signal, i)
  BY <1>3, <1>4 DEF Crossing
<1>7. LowRises(s, i) = LowRises(t, i) /\ HighFalls(s, i) = HighFalls(t, i)
  BY <1>5 DEF LowRises, HighFalls
<1>8. Compared(s, x, i) = Compared(t, y, i)
  BY <1>3, <1>4, <1>5, <1>6, <1>7 DEF Compared
<1>9. AveragesDefined(x, i) = AveragesDefined(y, i) /\ AllDefined(x, i) = AllDefined(y, i)
  BY <1>3, <1>4 DEF AveragesDefined, AllDefined
<1>10. \A should : /\ BullishSignal(x, should, i) = BullishSignal(y, should, i)
                   /\ OtherSignal(x, should, i) = OtherSignal(y, should, i)
  BY <1>9 DEF BullishSignal, OtherSignal
<1> QED
  BY <1>8, <1>10 DEF SignalAt, x, y

LEMMA SignalIs ==
  ASSUME NEW n \in Nat, NEW i \in 1..n, NEW candles, NEW x, NEW trend
  PROVE  /\ SignalAt(candles, x, trend, i) \in Seq(SignalOf(n))
         /\ \A m \in 1..Len(SignalAt(candles, x, trend, i)) :
              SignalAt(candles, x, trend, i)[m].date = i
<1>1. \A sell, buy : \A m \in 1..Len(Signal(i, sell, buy)) : Signal(i, sell, buy)[m].date = i
  BY DEF Signal
<1> QED
  BY <1>1, SignalTypes DEF SignalAt, BullishSignal, OtherSignal

\* The signals of candles are the first of those of more candles.
UpTo(q, i) == \A m \in 1..Len(q) : q[m].date <= i

Ahead(p, q, n) ==
  /\ Len(p) <= Len(q)
  /\ \A m \in 1..Len(p) : q[m] = p[m]
  /\ \A m \in (Len(p) + 1)..Len(q) : q[m].date > n

LEMMA AppendedUpTo ==
  ASSUME NEW n \in Nat, NEW i \in 1..n, NEW q \in Seq(SignalOf(n)), NEW c \in Seq(SignalOf(n)),
         UpTo(q, i - 1), \A m \in 1..Len(c) : c[m].date = i
  PROVE  UpTo(q \o c, i)
<1> SUFFICES ASSUME NEW m \in 1..Len(q \o c)  PROVE (q \o c)[m].date <= i
  BY DEF UpTo
<1>1. CASE m <= Len(q)
  <2>1. m \in 1..Len(q) /\ (q \o c)[m] = q[m] /\ q[m] \in SignalOf(n)
    BY <1>1
  <2>2. q[m].date \in Nat /\ q[m].date <= i - 1
    BY <2>1 DEF UpTo, SignalOf
  <2> QED
    BY <2>1, <2>2
<1>2. CASE ~(m <= Len(q))
  <2>1. m - Len(q) \in 1..Len(c) /\ (q \o c)[m] = c[m - Len(q)]
    BY <1>2
  <2> QED
    BY <2>1
<1> QED
  BY <1>1, <1>2

LEMMA AppendedAhead ==
  ASSUME NEW n \in Nat, NEW N \in Nat, NEW i \in 1..N, i > n,
         NEW p \in Seq(SignalOf(N)), NEW q \in Seq(SignalOf(N)), NEW c \in Seq(SignalOf(N)),
         Ahead(p, q, n), \A m \in 1..Len(c) : c[m].date = i
  PROVE  Ahead(p, q \o c, n)
<1>1. Len(p) <= Len(q) /\ Len(q \o c) = Len(q) + Len(c)
  BY DEF Ahead
<1>2. \A m \in 1..Len(q) : (q \o c)[m] = q[m]
  OBVIOUS
<1>3. \A m \in 1..Len(p) : (q \o c)[m] = p[m]
  BY <1>1, <1>2 DEF Ahead
<1>4. ASSUME NEW m \in (Len(p) + 1)..Len(q \o c)
      PROVE  (q \o c)[m].date > n
  <2>1. CASE m <= Len(q)
    <3>1. m \in (Len(p) + 1)..Len(q) /\ m \in 1..Len(q)
      BY <2>1
    <3> QED
      BY <1>2, <3>1 DEF Ahead
  <2>2. CASE ~(m <= Len(q))
    <3>1. m - Len(q) \in 1..Len(c) /\ (q \o c)[m] = c[m - Len(q)]
      BY <2>2
    <3> QED
      BY <3>1
  <2> QED
    BY <2>1, <2>2
<1> QED
  BY <1>1, <1>3, <1>4 DEF Ahead

LEMMA SignalsStart ==
  ASSUME NEW s, NEW t, Starts(s, t), NEW n \in Nat, NEW N \in Nat, n <= N,
         DOMAIN s = 1..n, Len(s) = n, Len(t) = N, NEW trend
  PROVE  LET some == generateSignals(s, IndicatorsOf(s), trend)
             all  == generateSignals(t, IndicatorsOf(t), trend)
         IN  UpTo(some, n) /\ Ahead(some, all, n) /\ some \in Seq(SignalOf(N))
<1> DEFINE signal(i) == SignalAt(t, IndicatorsOf(t), trend, i)
<1>1. PICK f : /\ generateSignals(s, IndicatorsOf(s), trend) = f[n]
               /\ \A i \in 0..n : f[i] = IF i <= 1 THEN <<>>
                                        ELSE f[i - 1] \o SignalAt(s, IndicatorsOf(s), trend, i)
  BY SignalsUpTo
<1>2a. PICK g : /\ generateSignals(t, IndicatorsOf(t), trend) = g[Len(t)]
                /\ \A i \in 0..Len(t) :
                     /\ g[i] \in Seq(SignalOf(Len(t)))
                     /\ g[i] = IF i <= 1 THEN <<>> ELSE g[i - 1] \o signal(i)
  <2>1. Len(t) \in Nat
    OBVIOUS
  <2> QED
    BY <2>1, SignalsUpTo
<1>2. /\ generateSignals(t, IndicatorsOf(t), trend) = g[N]
      /\ \A i \in 0..N : /\ g[i] \in Seq(SignalOf(N))
                         /\ g[i] = IF i <= 1 THEN <<>> ELSE g[i - 1] \o signal(i)
  <2> HIDE DEF signal
  <2> QED
    BY <1>2a
<1>3. \A i \in 2..n : SignalAt(s, IndicatorsOf(s), trend, i) = signal(i)
  BY SignalSame
<1>4. \A i \in 1..N : /\ signal(i) \in Seq(SignalOf(N))
                      /\ \A m \in 1..Len(signal(i)) : signal(i)[m].date = i
  BY SignalIs
<1> HIDE DEF signal
<1>5. f[n] = g[n]
  <2> DEFINE T == {i \in Nat : f[i] = g[i]}
  <2>1. 0 \in T
    BY <1>1, <1>2
  <2>2. \A i \in (0 + 1)..n : i - 1 \in T => i \in T
    <3> SUFFICES ASSUME NEW i \in 1..n, f[i - 1] = g[i - 1]  PROVE f[i] = g[i]
      OBVIOUS
    <3>1. i \in 0..n /\ i \in 0..N
      OBVIOUS
    <3>2. i <= 1 \/ i \in 2..n
      OBVIOUS
    <3> QED
      BY <1>1, <1>2, <1>3, <3>1, <3>2
  <2>3. n \in 0..n
    OBVIOUS
  <2> HIDE DEF T
  <2>4. n \in T
    BY <2>1, <2>2, <2>3, Induct
  <2> QED
    BY <2>4 DEF T
<1>6. \A i \in 0..N : UpTo(g[i], i)
  <2> DEFINE T == {i \in Nat : UpTo(g[i], i)}
  <2>1. 0 \in T
    BY <1>2 DEF UpTo
  <2>2. \A i \in (0 + 1)..N : i - 1 \in T => i \in T
    <3> SUFFICES ASSUME NEW i \in 1..N, UpTo(g[i - 1], i - 1)  PROVE UpTo(g[i], i)
      OBVIOUS
    <3>1. i \in 0..N /\ i - 1 \in 0..N
      OBVIOUS
    <3>2. CASE i <= 1
      BY <1>2, <3>1, <3>2 DEF UpTo
    <3>3. CASE ~(i <= 1)
      <4>1. g[i] = g[i - 1] \o signal(i) /\ g[i - 1] \in Seq(SignalOf(N))
        BY <1>2, <3>1, <3>3
      <4> QED
        BY <1>4, <4>1, AppendedUpTo
    <3> QED
      BY <3>2, <3>3
  <2> HIDE DEF T
  <2>3. \A i \in 0..N : i \in T
    BY <2>1, <2>2, Induct
  <2> QED
    BY <2>3 DEF T
<1>7. Ahead(g[n], g[N], n)
  <2> DEFINE T == {i \in Nat : Ahead(g[n], g[i], n)}
  <2>0. n \in 0..N /\ N \in n..N
    OBVIOUS
  <2>1. n \in T
    BY <1>2, <2>0 DEF Ahead
  <2>2. \A i \in (n + 1)..N : i - 1 \in T => i \in T
    <3> SUFFICES ASSUME NEW i \in (n + 1)..N, Ahead(g[n], g[i - 1], n)
                 PROVE  Ahead(g[n], g[i], n)
      OBVIOUS
    <3>1. i \in 0..N /\ i - 1 \in 0..N /\ i \in 1..N /\ i > n
      OBVIOUS
    <3>2. CASE i <= 1
      <4>1. g[i] = <<>> /\ g[i - 1] = <<>>
        BY <1>2, <3>1, <3>2
      <4> QED
        BY <4>1
    <3>3. CASE ~(i <= 1)
      <4>1. g[i] = g[i - 1] \o signal(i) /\ g[i - 1] \in Seq(SignalOf(N))
            /\ g[n] \in Seq(SignalOf(N))
        BY <1>2, <2>0, <3>1, <3>3
      <4>2. signal(i) \in Seq(SignalOf(N)) /\ \A m \in 1..Len(signal(i)) : signal(i)[m].date = i
        BY <1>4, <3>1
      <4> DEFINE p == g[n]
                 q == g[i - 1]
                 c == signal(i)
      <4>3. /\ p \in Seq(SignalOf(N)) /\ q \in Seq(SignalOf(N)) /\ c \in Seq(SignalOf(N))
            /\ Ahead(p, q, n) /\ \A m \in 1..Len(c) : c[m].date = i
        BY <4>1, <4>2, <3>1
      <4> HIDE DEF p, q, c
      <4>4. Ahead(p, q \o c, n)
        BY <3>1, <4>3, AppendedAhead
      <4> QED
        BY <4>1, <4>4 DEF p, q, c
    <3> QED
      BY <3>2, <3>3
  <2> HIDE DEF T
  <2>3. N \in T
    BY <2>0, <2>1, <2>2, Induct
  <2> QED
    BY <2>3 DEF T
<1>8. n \in 0..N
  OBVIOUS
<1> QED
  BY <1>1, <1>2, <1>5, <1>6, <1>7, <1>8

\* In the words of SignalsCausal.
LEMMA FirstSignals ==
  ASSUME NEW n \in Nat, NEW N \in Nat, NEW some \in Seq(SignalOf(N)),
         NEW all \in Seq(SignalOf(N)), UpTo(some, n), Ahead(some, all, n)
  PROVE  /\ Len(some) <= Len(all) /\ some = SubSeq(all, 1, Len(some))
         /\ \A m \in DOMAIN all : all[m].date <= n <=> m <= Len(some)
<1>1. Len(some) <= Len(all) /\ \A m \in 1..Len(some) : all[m] = some[m]
  BY DEF Ahead
<1>2. some = SubSeq(all, 1, Len(some))
  BY <1>1
<1>3. ASSUME NEW m \in 1..Len(all)
      PROVE  all[m].date <= n <=> m <= Len(some)
  <2>1. all[m].date \in Nat
    <3>1. all[m] \in SignalOf(N)
      OBVIOUS
    <3> QED
      BY <3>1 DEF SignalOf
  <2>2. CASE m <= Len(some)
    <3>1. m \in 1..Len(some)
      BY <2>2
    <3> QED
      BY <1>1, <2>2, <3>1 DEF UpTo
  <2>3. CASE ~(m <= Len(some))
    <3>1. m \in (Len(some) + 1)..Len(all)
      BY <2>3
    <3> QED
      BY <2>1, <2>3, <3>1 DEF Ahead
  <2> QED
    BY <2>2, <2>3
<1> QED
  BY <1>1, <1>2, <1>3

\* What generateSignals is given are the indicators of all candles.
SignalsInv ==
  /\ DOMAIN data = 1..Len(data) /\ Len(data) \in Nat /\ \E S : data \in Seq(S)
  /\ validate = "signals" => indicators = IndicatorsOf(data)

LEMMA InvIsCausal == SignalsInv => SignalsCausal
<1> SUFFICES ASSUME SignalsInv, validate = "signals", NEW n \in 1..Len(data)
             PROVE  LET all     == generateSignals(data, indicators, trends)
                        candles == SubSeq(data, 1, n)
                        some    == generateSignals(candles, IndicatorsOf(candles), trends)
                    IN  /\ Len(some) <= Len(all) /\ some = SubSeq(all, 1, Len(some))
                        /\ \A m \in DOMAIN all : all[m].date <= n <=> m <= Len(some)
  BY DEF SignalsCausal
<1> DEFINE N == Len(data)
           candles == SubSeq(data, 1, n)
           all == generateSignals(data, IndicatorsOf(data), trends)
           some == generateSignals(candles, IndicatorsOf(candles), trends)
<1>1. N \in Nat /\ n \in Nat /\ n <= N /\ DOMAIN data = 1..N /\ Len(data) = N
      /\ indicators = IndicatorsOf(data)
  BY DEF SignalsInv
<1>2. Len(candles) = n /\ DOMAIN candles = 1..n /\ \A i \in 1..n : candles[i] = data[i]
  <2>1. PICK S : data \in Seq(S)
    BY DEF SignalsInv
  <2> QED
    BY <1>1, <2>1
<1> HIDE DEF candles, N
<1>3. Starts(candles, data)
  BY <1>1, <1>2 DEF Starts
<1>4. UpTo(some, n) /\ Ahead(some, all, n) /\ some \in Seq(SignalOf(N))
  BY <1>1, <1>2, <1>3, SignalsStart
<1>5. all \in Seq(SignalOf(N))
  BY <1>1, SignalsType DEF N
<1> HIDE DEF all, some
<1>6. /\ Len(some) <= Len(all) /\ some = SubSeq(all, 1, Len(some))
      /\ \A m \in DOMAIN all : all[m].date <= n <=> m <= Len(some)
  BY <1>1, <1>4, <1>5, FirstSignals
<1> QED
  BY <1>1, <1>6 DEF all, some, candles

LEMMA SignalsInitial == ValidateInit => SignalsInv
<1> SUFFICES ASSUME ValidateInit  PROVE SignalsInv
  OBVIOUS
<1>1. data = <<>> /\ validate = "load"
  BY DEF ValidateInit
<1>2. data \in Seq({})
  BY <1>1
<1> QED
  BY <1>1, <1>2 DEF SignalsInv

\* The money or the coins are all there is; a price paid is a whole number.
FundsInv ==
  /\ validate \in {"load", "signals", "backtest", "panicked", "ended"}
  /\ Len(data) \in Nat
  /\ \A i \in 1..Len(data) : data[i].close \in Nat \ {0}
  /\ signals \in Seq(SignalOf(Len(data)))
  /\ validate \in {"load", "signals"} => signals = <<>>
  /\ Reduced(balance) /\ Reduced(position) /\ Reduced(maxBalance)
  /\ buyPrice[1] \in Nat /\ buyPrice = <<buyPrice[1], 1>>
  /\ position[1] > 0 => Len(data) > 0 /\ validate \in {"backtest", "ended"}
  /\ AllIn

LEMMA Positive ==
  ASSUME NEW a, Reduced(a)
  PROVE  Less(Zero, a) <=> a[1] > 0
<1>1. a[1] \in Nat /\ a[2] \in Nat /\ a[2] > 0
  BY DEF Reduced
<1>2. 0 * a[2] = 0 /\ a[1] * 1 = a[1]
  BY <1>1
<1> QED
  BY <1>1, <1>2 DEF Less, isNaN, Zero

LEMMA ZeroIsReduced == Reduced(Zero) /\ ~(Zero[1] > 0)
<1>1. Reduced(<<0, 1>>)
  BY WholeIsReduced
<1> QED
  BY <1>1 DEF Zero

LEMMA WholeOrder ==
  ASSUME NEW m \in Nat, NEW n \in Nat
  PROVE  Less(<<m, 1>>, <<n, 1>>) <=> m < n
<1>1. m * 1 = m /\ n * 1 = n
  OBVIOUS
<1> QED
  BY <1>1 DEF Less, isNaN

LEMMA AtMostItself ==
  ASSUME NEW a, Reduced(a)
  PROVE  AtMost(a, a)
<1>1. a[1] \in Nat /\ a[2] \in Nat /\ a[2] > 0
  BY DEF Reduced
<1>2. a[1] * a[2] <= a[1] * a[2]
  BY <1>1
<1> QED
  BY <1>1, <1>2 DEF AtMost, isNaN

LEMMA FundsInitial == ValidateInit => FundsInv
<1> SUFFICES ASSUME ValidateInit  PROVE FundsInv
  OBVIOUS
<1> USE DEF ValidateInit
<1>1. InitialBalance \in Nat
  BY ValidateAssumption
<1>2. Reduced(<<InitialBalance, 1>>) /\ Reduced(Zero)
  BY <1>1, WholeIsReduced, ZeroIsReduced
<1>3. ~Less(Zero, position)
  BY <1>2, ZeroIsReduced, Positive
<1>4. AllIn
  BY <1>2, <1>3, AtMostItself DEF AllIn
<1>5. Len(data) = 0 /\ signals \in Seq(SignalOf(Len(data)))
  OBVIOUS
<1>6. buyPrice[1] \in Nat /\ buyPrice = <<buyPrice[1], 1>>
  BY DEF Zero
<1> QED
  BY <1>2, <1>4, <1>5, <1>6, ZeroIsReduced DEF FundsInv

\* A sale, of all coins, for more than they were bought for.
LEMMA SoldAtGain ==
  ASSUME FundsInv, position[1] > 0,
         NEW price \in Nat, Less(buyPrice, <<price, 1>>)
  PROVE  /\ Reduced(Times(position, <<price, 1>>))
         /\ Less(maxBalance, Times(position, <<price, 1>>))
         /\ AtMost(<<InitialBalance, 1>>, Times(position, <<price, 1>>))
<1>1. buyPrice[1] \in Nat /\ buyPrice = <<buyPrice[1], 1>> /\ buyPrice[1] < price
  BY WholeOrder DEF FundsInv
<1>2. Times(position, buyPrice) = maxBalance
  BY Positive DEF FundsInv, AllIn
<1>3. Reduced(Times(position, <<price, 1>>)) /\ Less(maxBalance, Times(position, <<price, 1>>))
  <2>1. Less(Times(position, <<buyPrice[1], 1>>), Times(position, <<price, 1>>))
    BY <1>1, SoldForMore DEF FundsInv
  <2>2. Reduced(Times(position, <<price, 1>>))
    BY <1>1, SoldForMore DEF FundsInv
  <2> QED
    BY <1>1, <1>2, <2>1, <2>2
<1>4. Reduced(<<InitialBalance, 1>>) /\ Reduced(maxBalance)
      /\ AtMost(<<InitialBalance, 1>>, maxBalance)
  BY ValidateAssumption, WholeIsReduced DEF FundsInv, AllIn
<1> QED
  BY <1>3, <1>4, AtMostThenLess

LEMMA NextSignal ==
  ASSUME FundsInv, signals # <<>>
  PROVE  /\ Tail(signals) \in Seq(SignalOf(Len(data)))
         /\ data[Head(signals).date].close \in Nat \ {0}
         /\ Len(data) > 0
<1>1. /\ Head(signals) \in SignalOf(Len(data))
      /\ Tail(signals) \in Seq(SignalOf(Len(data)))
  BY DEF FundsInv
<1>2. Head(signals).date \in 1..Len(data)
  BY <1>1 DEF SignalOf
<1> QED
  BY <1>1, <1>2 DEF FundsInv

LEMMA FollowBuyKeeps == FundsInv /\ FollowBuy => FundsInv'
<1> SUFFICES ASSUME FundsInv, FollowBuy  PROVE FundsInv'
  OBVIOUS
<1> DEFINE p == data[Head(signals).date].close
<1>0. /\ signals' = Tail(signals) /\ UNCHANGED <<validate, data>>
      /\ validate = "backtest" /\ signals # <<>>
  BY DEF FollowBuy, analysis
<1>1. Tail(signals) \in Seq(SignalOf(Len(data))) /\ p \in Nat \ {0} /\ Len(data) > 0
  BY <1>0, NextSignal
<1>2. Price(Head(signals).date) = <<p, 1>>
  BY DEF Price
<1> HIDE DEF p
<1>3. CASE AtMost(<<p, 1>>, balance)
  <2>1. /\ position' = Times(balance, Reciprocal(<<p, 1>>))
        /\ buyPrice' = <<p, 1>> /\ balance' = Zero /\ maxBalance' = maxBalance
    BY <1>2, <1>3 DEF FollowBuy
  <2>2. Reciprocal(<<p, 1>>) = Frac(1, p)
    BY DEF Reciprocal
  <2>3. balance[1] > 0 /\ Reduced(balance)
    <3>1. balance[1] \in Nat /\ balance[2] \in Nat /\ balance[2] > 0
      BY DEF FundsInv, Reduced
    <3>2. p * balance[2] <= balance[1] * 1
      BY <1>3 DEF AtMost
    <3> QED
      BY <1>1, <3>1, <3>2 DEF FundsInv
  <2>4. balance = maxBalance
    BY <1>0, <2>3, Positive, ZeroIsReduced DEF FundsInv, AllIn
  <2>5. /\ Reduced(position') /\ position'[1] > 0
        /\ Times(position', <<p, 1>>) = balance
    BY <1>1, <2>1, <2>2, <2>3, BoughtForAll
  <2>6. AllIn'
    <3>1. Less(Zero, position')
      BY <2>5, Positive
    <3>2. AtMost(<<InitialBalance, 1>>, maxBalance')
      BY <2>1 DEF FundsInv, AllIn
    <3>3. balance' = Zero /\ Times(position', buyPrice') = maxBalance'
      BY <2>1, <2>4, <2>5
    <3> QED
      BY <3>1, <3>2, <3>3 DEF AllIn
  <2>7. Reduced(balance') /\ Reduced(maxBalance')
    BY <2>1, ZeroIsReduced DEF FundsInv
  <2>8. buyPrice'[1] \in Nat /\ buyPrice' = <<buyPrice'[1], 1>>
    BY <1>1, <2>1
  <2> QED
    BY <1>0, <1>1, <2>5, <2>6, <2>7, <2>8 DEF FundsInv
<1>4. CASE ~AtMost(<<p, 1>>, balance)
  <2>1. UNCHANGED funds
    BY <1>2, <1>4 DEF FollowBuy
  <2> QED
    BY <1>0, <1>1, <2>1 DEF FundsInv, AllIn, funds
<1> QED
  BY <1>3, <1>4

LEMMA FollowSellKeeps == FundsInv /\ FollowSell => FundsInv'
<1> SUFFICES ASSUME FundsInv, FollowSell  PROVE FundsInv'
  OBVIOUS
<1> DEFINE p == data[Head(signals).date].close
           proceeds == Times(position, <<p, 1>>)
<1>0. /\ signals' = Tail(signals) /\ UNCHANGED <<validate, data>>
      /\ validate = "backtest" /\ signals # <<>>
  BY DEF FollowSell, analysis
<1>1. Tail(signals) \in Seq(SignalOf(Len(data))) /\ p \in Nat \ {0} /\ Len(data) > 0
  BY <1>0, NextSignal
<1>2. Price(Head(signals).date) = <<p, 1>>
  BY DEF Price
<1> HIDE DEF p
<1>3. CASE Less(Zero, position) /\ Less(buyPrice, <<p, 1>>)
  <2>1. /\ balance' = proceeds /\ position' = Zero /\ buyPrice' = buyPrice
        /\ maxBalance' = IF Less(maxBalance, proceeds) THEN proceeds ELSE maxBalance
    BY <1>2, <1>3 DEF FollowSell
  <2>2. position[1] > 0
    BY <1>3, Positive DEF FundsInv
  <2> HIDE DEF proceeds
  <2>3. /\ Reduced(proceeds) /\ Less(maxBalance, proceeds)
        /\ AtMost(<<InitialBalance, 1>>, proceeds)
    BY <1>1, <1>3, <2>2, SoldAtGain DEF proceeds
  <2>4. maxBalance' = proceeds
    BY <2>1, <2>3
  <2>5. ~Less(Zero, position') /\ Reduced(position') /\ ~(position'[1] > 0)
    BY <2>1, ZeroIsReduced, Positive
  <2>6. AllIn'
    BY <1>0, <2>1, <2>3, <2>4, <2>5 DEF AllIn
  <2> QED
    BY <1>0, <1>1, <2>1, <2>3, <2>4, <2>5, <2>6 DEF FundsInv
<1>4. CASE ~(Less(Zero, position) /\ Less(buyPrice, <<p, 1>>))
  <2>1. UNCHANGED funds
    BY <1>2, <1>4 DEF FollowSell
  <2> QED
    BY <1>0, <1>1, <2>1 DEF FundsInv, AllIn, funds
<1> QED
  BY <1>3, <1>4

LEMMA FinalSaleKeeps == FundsInv /\ FinalSale => FundsInv'
<1> SUFFICES ASSUME FundsInv, FinalSale  PROVE FundsInv'
  OBVIOUS
<1> DEFINE p == data[Len(data)].close
           proceeds == Times(position, <<p, 1>>)
<1>0. /\ UNCHANGED <<data, signals>> /\ validate = "backtest" /\ validate' = "ended"
  BY DEF FinalSale, analysis
<1>2. Price(Len(data)) = <<p, 1>>
  BY DEF Price
<1>3. CASE Less(Zero, position) /\ Less(buyPrice, <<p, 1>>)
  <2>1. /\ balance' = proceeds /\ position' = Zero
        /\ UNCHANGED <<buyPrice, maxBalance>>
    BY <1>2, <1>3 DEF FinalSale
  <2>2. position[1] > 0 /\ p \in Nat
    <3>1. position[1] > 0
      BY <1>3, Positive DEF FundsInv
    <3>2. Len(data) \in 1..Len(data)
      BY <3>1 DEF FundsInv
    <3> QED
      BY <3>1, <3>2 DEF FundsInv
  <2> HIDE DEF proceeds, p
  <2>3. Reduced(proceeds) /\ Less(maxBalance, proceeds)
    BY <1>3, <2>2, SoldAtGain DEF proceeds
  <2>4. AtMost(maxBalance, proceeds)
    <3>1. AtMost(maxBalance, maxBalance) /\ Reduced(maxBalance)
      BY AtMostItself DEF FundsInv
    <3> QED
      BY <2>3, <3>1, AtMostThenLess
  <2>5. ~Less(Zero, position') /\ Reduced(position') /\ ~(position'[1] > 0)
    BY <2>1, ZeroIsReduced, Positive
  <2>6. AllIn'
    BY <1>0, <2>1, <2>4, <2>5 DEF AllIn, FundsInv
  <2> QED
    BY <1>0, <2>1, <2>3, <2>5, <2>6 DEF FundsInv
<1>4. CASE ~(Less(Zero, position) /\ Less(buyPrice, <<p, 1>>))
  <2>1. UNCHANGED funds
    BY <1>2, <1>4 DEF FinalSale
  <2>2. AllIn'
    <3>1. CASE Less(Zero, position)
      BY <2>1, <3>1 DEF FundsInv, AllIn, funds
    <3>2. CASE ~Less(Zero, position)
      <4>1. balance = maxBalance /\ AtMost(maxBalance, maxBalance)
        BY <1>0, <3>2, AtMostItself DEF FundsInv, AllIn
      <4> QED
        BY <1>0, <2>1, <3>2, <4>1 DEF FundsInv, AllIn, funds
    <3> QED
      BY <3>1, <3>2
  <2> QED
    BY <1>0, <2>1, <2>2 DEF FundsInv, funds
<1> QED
  BY <1>3, <1>4

LEMMA GenerateKeeps == FundsInv /\ Generate => FundsInv'
<1> SUFFICES ASSUME FundsInv, Generate  PROVE FundsInv'
  OBVIOUS
<1>1. /\ signals' = generateSignals(data, indicators, trends)
      /\ validate = "signals" /\ validate' = "backtest"
      /\ UNCHANGED data /\ UNCHANGED funds
  BY DEF Generate, analysis
<1>2. signals' \in Seq(SignalOf(Len(data)))
  BY <1>1, SignalsType DEF FundsInv
<1> QED
  BY <1>1, <1>2 DEF FundsInv, AllIn, funds

LEMMA PrepareKeeps ==
  ASSUME FundsInv, NEW candles, Prepare(candles), Len(candles) \in Nat,
         \A i \in 1..Len(candles) : candles[i].close \in Nat \ {0}
  PROVE  FundsInv'
<1>1. /\ data' = candles /\ UNCHANGED signals /\ UNCHANGED funds
      /\ validate = "load" /\ validate' \in {"panicked", "signals"}
  BY DEF Prepare
<1>2. signals' = <<>> /\ signals' \in Seq(SignalOf(Len(data')))
  BY <1>1 DEF FundsInv
<1>3. ~(position[1] > 0)
  BY <1>1 DEF FundsInv
<1> QED
  BY <1>1, <1>2, <1>3 DEF FundsInv, AllIn, funds

LEMMA FatalKeeps == FundsInv /\ Fatal => FundsInv'
<1> SUFFICES ASSUME FundsInv, Fatal  PROVE FundsInv'
  OBVIOUS
<1>1. UNCHANGED <<data, signals>> /\ UNCHANGED funds /\ validate' = "ended" /\ validate = "load"
  BY DEF Fatal, analysis
<1>2. Less(Zero, position) \/ (balance = maxBalance /\ AtMost(maxBalance, maxBalance))
  BY <1>1, AtMostItself DEF FundsInv, AllIn
<1> QED
  BY <1>1, <1>2 DEF FundsInv, AllIn, funds

-----------------------------------------------------------------------------
(* The programs: Backtesting. *)

\* What CandlesByPeriod returns are candles of the market.
LEMMA ResultIsTraded ==
  ASSUME PagesInv
  PROVE  ResultTimes \in Seq(Traded)
<1> DEFINE n == asked.end - asked.start + 1
           All == Seq(Traded)
           pieces == [i \in 1..n |-> Copies(asked.start + i - 1)]
<1>1. ASSUME NEW t  PROVE Copies(t) \in All
  <2>1. CASE t \in Traded
    <3>1. allCandles[t] \in Nat
      BY <2>1 DEF PagesInv
    <3> QED
      BY <2>1, <3>1 DEF Copies
  <2>2. CASE t \notin Traded
    BY <2>2 DEF Copies
  <2> QED
    BY <2>1, <2>2
<1>2. n \in Int
  BY AskedTypes DEF PagesInv
<1>3. pieces \in Seq(All)
  <2>1. CASE n >= 0
    <3> HIDE DEF n, All
    <3>1. n \in Nat
      BY <1>2, <2>1
    <3> QED
      BY <1>1, <3>1
  <2>2. CASE n < 0
    <3> HIDE DEF n, All
    <3>1. 1..n = 1..0
      BY <1>2, <2>2
    <3>2. pieces = <<>>
      BY <3>1
    <3> HIDE DEF pieces
    <3> QED
      BY <3>2
  <2> QED
    BY <1>2, <2>1, <2>2
<1>4. ResultTimes = FlattenSeq(pieces)
  BY DEF ResultTimes
<1> QED
  BY <1>3, <1>4, FlattenedType

LEMMA ResultPrices ==
  ASSUME PagesInv
  PROVE  /\ [i \in DOMAIN ResultTimes |-> asked.market[ResultTimes[i]].close]
              \in Seq(Nat \ {0})
         /\ LET candles == [i \in DOMAIN ResultTimes |-> CandleAt(ResultTimes[i])]
            IN  /\ Len(candles) \in Nat
                /\ \A i \in 1..Len(candles) : candles[i].close \in Nat \ {0}
<1> DEFINE times == ResultTimes
           n == Len(times)
<1>1. n \in Nat /\ DOMAIN times = 1..n /\ \A i \in 1..n : times[i] \in Traded
  BY ResultIsTraded
<1> HIDE DEF times, n
<1>2. ASSUME NEW i \in 1..n
      PROVE  /\ asked.market[times[i]].close \in Nat \ {0}
             /\ CandleAt(times[i]).close \in Nat \ {0}
  <2> DEFINE c == asked.market[times[i]]
  <2>1. "close" \in DOMAIN c /\ c.close \in Nat \ {0}
    BY <1>1, BacktestingAssumption DEF PagesInv, Traded
  <2> HIDE DEF c
  <2>2. CandleAt(times[i])["close"] = c["close"]
    BY <2>1 DEF CandleAt, c
  <2> QED
    BY <2>1, <2>2 DEF c
<1>3. [i \in DOMAIN times |-> asked.market[times[i]].close] \in Seq(Nat \ {0})
  <2> DEFINE close(i) == asked.market[times[i]].close
  <2>1. \A i \in 1..n : close(i) \in Nat \ {0}
    BY <1>2
  <2> HIDE DEF close
  <2>2. [i \in 1..n |-> close(i)] \in Seq(Nat \ {0})
    BY <1>1, <2>1
  <2> QED
    BY <1>1, <2>2 DEF close
<1> DEFINE candles == [i \in DOMAIN times |-> CandleAt(times[i])]
<1>4. Len(candles) = n /\ \A i \in 1..n : candles[i].close \in Nat \ {0}
  BY <1>1, <1>2
<1> QED
  BY <1>1, <1>3, <1>4 DEF times

\* Every step of a program is one of its parts, in which the others rest.
LEMMA ProgramStep ==
  PagesInv /\ [Next]_vars => [PagesNext]_pagesVars /\ [BacktestNext]_backtestVars
<1> SUFFICES ASSUME PagesInv, [Next]_vars
             PROVE  [PagesNext]_pagesVars /\ [BacktestNext]_backtestVars
  OBVIOUS
<1>1. CASE Fetch
  BY <1>1 DEF Fetch
<1>2. CASE LoadBacktest
  <2>1. UNCHANGED pagesVars
    BY <1>2 DEF LoadBacktest
  <2>2. \E loaded \in Seq(Nat \ {0}) : Load(loaded)
    <3>1. <<>> \in Seq(Nat \ {0})
      OBVIOUS
    <3> QED
      BY <1>2, <3>1, ResultPrices DEF LoadBacktest
  <2> QED
    BY <2>1, <2>2 DEF BacktestNext
<1>3. CASE MainStep /\ UNCHANGED <<pagesVars, validateVars>>
  BY <1>3 DEF BacktestNext
<1>4. CASE RunBroker
  BY <1>4 DEF RunBroker, BacktestNext
<1>5. CASE RunValidate
  BY <1>5 DEF RunValidate, LoadValidate
<1>6. CASE UNCHANGED vars
  BY <1>6 DEF vars
<1> QED
  BY <1>1, <1>2, <1>3, <1>4, <1>5, <1>6 DEF Next, RunMain

LEMMA FundsUnchanged == FundsInv /\ UNCHANGED validateVars => FundsInv'
BY DEF validateVars, FundsInv, AllIn

LEMMA FundsStep == PagesInv /\ FundsInv /\ [Next]_vars => FundsInv'
<1> SUFFICES ASSUME PagesInv, FundsInv, [Next]_vars  PROVE FundsInv'
  OBVIOUS
<1>1. CASE LoadValidate
  BY <1>1, ResultPrices, PrepareKeeps, FatalKeeps DEF LoadValidate
<1>2. CASE ValidateStep
  BY <1>2, GenerateKeeps, FollowBuyKeeps, FollowSellKeeps, FinalSaleKeeps DEF ValidateStep
<1>3. CASE UNCHANGED validateVars
  BY <1>3, FundsUnchanged
<1> QED
  BY <1>1, <1>2, <1>3 DEF Next, Fetch, RunMain, LoadBacktest, RunBroker, RunValidate, vars

LEMMA SignalsStep == PagesInv /\ SignalsInv /\ [Next]_vars => SignalsInv'
<1> SUFFICES ASSUME PagesInv, SignalsInv, [Next]_vars  PROVE SignalsInv'
  OBVIOUS
<1>1. CASE LoadValidate
  <2>1. CASE fetch = "failed"
    BY <1>1, <2>1 DEF LoadValidate, Fatal, analysis, SignalsInv
  <2>2. CASE fetch # "failed"
    <3> DEFINE candle(i) == CandleAt(ResultTimes[i])
               n == Len(ResultTimes)
               candles == [i \in DOMAIN ResultTimes |-> candle(i)]
    <3>1. Prepare(candles)
      BY <1>1, <2>2 DEF LoadValidate
    <3>2. n \in Nat /\ DOMAIN ResultTimes = 1..n
      BY ResultIsTraded
    <3> HIDE DEF candle, n
    <3>3. candles \in Seq({candle(i) : i \in 1..n})
      BY <3>2
    <3> HIDE DEF candles
    <3>4. data' = candles /\ (validate' = "signals" => indicators' = IndicatorsOf(candles))
      BY <3>1 DEF Prepare
    <3>5. DOMAIN candles = 1..Len(candles) /\ Len(candles) \in Nat
      BY <3>3
    <3>6. validate' = "signals" => indicators' = IndicatorsOf(data')
      BY <3>4
    <3>7. \E S : data' \in Seq(S)
      BY <3>3, <3>4
    <3> QED
      BY <3>4, <3>5, <3>6, <3>7 DEF SignalsInv
  <2> QED
    BY <2>1, <2>2
<1>2. CASE ValidateStep
  <2>1. (UNCHANGED analysis /\ validate' # "signals") \/ UNCHANGED <<validate, analysis>>
    BY <1>2 DEF ValidateStep, Generate, FollowBuy, FollowSell, FinalSale
  <2> QED
    BY <2>1 DEF analysis, SignalsInv
<1>3. CASE UNCHANGED validateVars
  BY <1>3 DEF validateVars, SignalsInv
<1> QED
  BY <1>1, <1>2, <1>3
     DEF Next, Fetch, RunMain, LoadBacktest, RunBroker, RunValidate, vars

(* The two programs of programs/backtesting fetch as CandlesByPeriod does, *)
(* and what backtest.go is given to run on are prices: each part behaves   *)
(* in them as it is specified alone, so what is proved of it holds.        *)
THEOREM ProgramsImplement == Spec => PagesSpec /\ BacktestSpec
<1>1. Init => PagesInit /\ BacktestInit
  BY DEF Init
<1>2. PagesInv /\ [PagesNext]_pagesVars => PagesInv'
  BY PagesStep
<1>3. [Next]_vars => [PagesNext]_pagesVars
  BY DEF Next, vars, Fetch, RunMain, LoadBacktest, RunBroker, RunValidate, LoadValidate
<1> QED
  BY <1>1, <1>2, <1>3, ProgramStep, PagesInitial, PTL DEF Spec, PagesSpec, BacktestSpec

(* validate.go: its account is all money, never less than at the start, or *)
(* all coins, and coins are sold for more than was paid for them only.     *)
THEOREM AccountIsAllIn == Spec => []AllIn
<1>1. Init => PagesInit /\ FundsInv
  BY FundsInitial DEF Init
<1>2. FundsInv => AllIn
  BY DEF FundsInv
<1>3. [Next]_vars => [PagesNext]_pagesVars
  BY DEF Next, vars, Fetch, RunMain, LoadBacktest, RunBroker, RunValidate, LoadValidate
<1> QED
  BY <1>1, <1>2, <1>3, PagesInitial, PagesStep, FundsStep, PTL DEF Spec

(* validate.go: a signal is made of the candles up to its own.  The        *)
(* signals of any shorter period, given the same trends, are the first of  *)
(* those of the whole one.                                                 *)
THEOREM SignalsAreCausal == Spec => []SignalsCausal
<1>1. Init => PagesInit /\ SignalsInv
  BY SignalsInitial DEF Init
<1>2. [Next]_vars => [PagesNext]_pagesVars
  BY DEF Next, vars, Fetch, RunMain, LoadBacktest, RunBroker, RunValidate, LoadValidate
<1> QED
  BY <1>1, <1>2, InvIsCausal, PagesInitial, PagesStep, SignalsStep, PTL DEF Spec
=============================================================================
