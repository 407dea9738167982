----------------------------- MODULE Indicators -----------------------------
(***************************************************************************)
(* The indicators the code computes by itself (indicator/indicator.go; the *)
(* others are calls of go-talib).  A number is an exact fraction <<n, d>>  *)
(* and NaN is 0/0, which every operation passes on and no comparison       *)
(* accepts; rounding is left out.  data is a sequence of candles, oldest   *)
(* first, and so is what the indicators return.                            *)
(***************************************************************************)
EXTENDS Integers, Sequences, FiniteSetsExt, Functions

CONSTANT MonthLength  \* in units of a candle's time

ASSUME MonthAssumption == MonthLength \in Nat \ {0}

-----------------------------------------------------------------------------
(* Fractions. *)

NaN  == <<0, 0>>
Zero == <<0, 1>>
isNaN(a) == a[2] = 0

gcd[ab \in Nat \X Nat] ==
  IF ab[2] = 0 THEN ab[1] ELSE gcd[<<ab[2], ab[1] % ab[2]>>]

Frac(n, d) ==
  LET g == gcd[<<IF n < 0 THEN -n ELSE n, d>>] IN
  IF d = 0 THEN NaN ELSE <<n \div g, d \div g>>

Plus(a, b)  == Frac(a[1] * b[2] + b[1] * a[2], a[2] * b[2])
Minus(a, b) == Frac(a[1] * b[2] - b[1] * a[2], a[2] * b[2])
Times(a, b) == Frac(a[1] * b[1], a[2] * b[2])

Less(a, b)   == ~isNaN(a) /\ ~isNaN(b) /\ a[1] * b[2] < b[1] * a[2]
AtMost(a, b) == ~isNaN(a) /\ ~isNaN(b) /\ a[1] * b[2] <= b[1] * a[2]

-----------------------------------------------------------------------------
Closes(data) == [i \in DOMAIN data |-> data[i].close]

\* The sum of f over the n indices up to i, and of fractions over a set.
WindowSum(f, i, n) == SumFunctionOnSet(f, (i - n + 1)..i)
PlusOver(f, S)     == FoldSet(LAMBDA i, sum : Plus(sum, f[i]), Zero, S)

CustomSMA(data, window) ==
  [i \in DOMAIN data |->
     IF i < window THEN NaN ELSE Frac(WindowSum(Closes(data), i, window), window)]

\* The share of the gains in all changes of the period; 0 before there is one.
CustomRSI(data, period) ==
  LET change == [i \in DOMAIN data |->
                   IF i = 1 THEN 0 ELSE data[i].close - data[i - 1].close]
      gains  == [i \in DOMAIN data |-> IF change[i] > 0 THEN change[i] ELSE 0]
      losses == [i \in DOMAIN data |-> IF change[i] > 0 THEN 0 ELSE -change[i]]
  IN  [i \in DOMAIN data |->
         LET up   == WindowSum(gains, i, period)
             down == WindowSum(losses, i, period)
         IN  IF i <= period THEN Zero
             ELSE IF down = 0 THEN <<100, 1>>
             ELSE Frac(100 * up, up + down)]

\* Starts with the mean of what is defined in the first window, or with 0 if
\* nothing is; skips what is not defined.
CustomEMAFromSlice(values, window) ==
  LET k == Frac(2, window + 1)
      valid == {i \in 1..window : i \in DOMAIN values /\ ~isNaN(values[i])}
      mean  == Times(PlusOver(values, valid), Frac(1, Cardinality(valid)))
      previousEMA(last) ==
        LET upTo[i \in window..last] ==
              IF i = window THEN IF valid = {} THEN Zero ELSE mean
              ELSE IF isNaN(values[i]) THEN upTo[i - 1]
              ELSE Plus(Times(Minus(<<1, 1>>, k), upTo[i - 1]), Times(k, values[i]))
        IN  upTo[last]
  IN  [i \in DOMAIN values |->
         IF \/ i < window
            \/ i = window /\ valid = {}
            \/ i > window /\ isNaN(values[i])
         THEN NaN ELSE previousEMA(i)]

CustomEMA(data, window) ==
  CustomEMAFromSlice([i \in DOMAIN data |-> <<data[i].close, 1>>], window)

CustomMACD(data, shortWindow, longWindow, signalWindow) ==
  LET short == CustomEMA(data, shortWindow)
      long  == CustomEMA(data, longWindow)
      macd  == [i \in DOMAIN data |-> Minus(short[i], long[i])]
  IN  [macd |-> macd, signal |-> CustomEMAFromSlice(macd, signalWindow)]

\* Both lines are 0 before there is a period.
CustomStochasticOscillator(data, period) ==
  LET lowestLow(i)   == Min({data[j].low : j \in (i - period + 1)..i})
      highestHigh(i) == Max({data[j].high : j \in (i - period + 1)..i})
      k == [i \in DOMAIN data |->
              IF i < period THEN Zero
              ELSE IF highestHigh(i) = lowestLow(i) THEN <<50, 1>>
              ELSE Frac(100 * (data[i].close - lowestLow(i)),
                        highestHigh(i) - lowestLow(i))]
  IN  [k |-> k,
       d |-> [i \in DOMAIN data |->
                IF i < 3 THEN Zero
                ELSE Times(<<1, 3>>, Plus(k[i], Plus(k[i - 1], k[i - 2])))]]

\* The middle of the bands and the square of what they are apart from it.
CustomBollingerBands(data, period, multiplier) ==
  LET middle == CustomSMA(data, period)
      square(i, j) ==
        LET d == Minus(<<data[j].close, 1>>, middle[i]) IN Times(d, d)
      variance(i) ==
        LET window == (i - period + 1)..i IN
        Times(Frac(1, period), PlusOver([j \in window |-> square(i, j)], window))
  IN  [i \in DOMAIN data |->
         [middle |-> middle[i],
          width2 |-> IF i < period THEN NaN
                     ELSE Times(<<multiplier * multiplier, 1>>, variance(i))]]

\* Whether a price is on or beyond the lower and the upper band.
AtLower(price, band) ==
  LET d == Minus(band.middle, <<price, 1>>) IN
  AtMost(Zero, d) /\ AtMost(band.width2, Times(d, d))

AtUpper(price, band) ==
  LET d == Minus(<<price, 1>>, band.middle) IN
  AtMost(Zero, d) /\ AtMost(band.width2, Times(d, d))

-----------------------------------------------------------------------------
\* A month rises or falls from its first close to its last by threshold
\* percent, and gives its trend to each of its candles.
DetectMonthlyTrendsDF(data, threshold) ==
  LET month(i) == {j \in DOMAIN data :
                     data[j].time \div MonthLength = data[i].time \div MonthLength}
      start(i) == data[Min(month(i))].close
      rise(i)  == 100 * (data[Max(month(i))].close - start(i))
  IN  [i \in DOMAIN data |->
         IF start(i) = 0 THEN "sideways"
         ELSE IF rise(i) >= threshold * start(i) THEN "bullish"
         ELSE IF rise(i) <= -threshold * start(i) THEN "bearish"
         ELSE "sideways"]
=============================================================================
