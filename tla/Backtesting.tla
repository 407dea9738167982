---------------------------- MODULE Backtesting ----------------------------
(***************************************************************************)
(* The two programs of programs/backtesting: both fetch the candles of a   *)
(* period, page by page, and run on what CandlesByPeriod returns.  A call  *)
(* in Asked names the program that makes it.                               *)
(***************************************************************************)
EXTENDS CandlePages, Backtest, Validate, SequencesExt

\* Candles have prices, which are positive.
ASSUME BacktestingAssumption ==
  \A a \in Asked : \A t \in DOMAIN a.market :
    "close" \in DOMAIN a.market[t] /\ a.market[t].close \in Nat \ {0}

program == asked.program

vars == <<pagesVars, backtestVars, validateVars>>

Init == PagesInit /\ BacktestInit /\ ValidateInit

\* The result of the call: sorted by time, each candle as often as it came,
\* without those outside of the period.
Copies(t) == [n \in 1..(IF t \in Traded THEN allCandles[t] ELSE 0) |-> t]

ResultTimes ==
  FlattenSeq([i \in 1..(asked.end - asked.start + 1) |-> Copies(asked.start + i - 1)])

CandleAt(t) ==
  LET candle == asked.market[t] IN
  [field \in DOMAIN candle \cup {"time"} |-> IF field = "time" THEN t ELSE candle[field]]

-----------------------------------------------------------------------------
Fetch == PagesNext /\ UNCHANGED <<backtestVars, validateVars>>

\* backtest.go logs an error and goes on with no candles,
LoadBacktest ==
  /\ program = "backtest" /\ fetch # "request"
  /\ Load(IF fetch = "failed" THEN <<>>
          ELSE [i \in DOMAIN ResultTimes |-> asked.market[ResultTimes[i]].close])
  /\ UNCHANGED <<pagesVars, validateVars>>

\* validate.go ends with it.
LoadValidate ==
  /\ program = "validate" /\ fetch # "request"
  /\ IF fetch = "failed" THEN Fatal
     ELSE Prepare([i \in DOMAIN ResultTimes |-> CandleAt(ResultTimes[i])])
  /\ UNCHANGED <<pagesVars, backtestVars>>

RunMain ==
  \/ LoadBacktest
  \/ MainStep /\ UNCHANGED <<pagesVars, validateVars>>

RunBroker == BrokerStep /\ UNCHANGED <<pagesVars, validateVars>>

RunValidate ==
  \/ LoadValidate
  \/ ValidateStep /\ UNCHANGED <<pagesVars, backtestVars>>

Next == Fetch \/ RunMain \/ RunBroker \/ RunValidate

\* Requests end, and the goroutines of the backtest run on. (What validate
\* does after its call is one loop over its signals.)
Spec ==
  /\ Init /\ [][Next]_vars
  /\ WF_vars(Fetch) /\ WF_vars(RunMain) /\ WF_vars(RunBroker)
-----------------------------------------------------------------------------
(* CandlesByPeriod returns, since each page is asked for up to an older    *)
(* candle, and so does the backtest: main never waits for good for the     *)
(* goroutine that executes its orders.                                     *)
ProgramEnds ==
  <>(IF program = "backtest" THEN main = "done" ELSE fetch # "request")
=============================================================================
