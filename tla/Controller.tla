----------------------------- MODULE Controller -----------------------------
(***************************************************************************)
(* The strategy controller (strategy/controller.go): keeps the bars of its *)
(* feed in a dataframe and asks the strategy about the last of them.  A    *)
(* bar is abstracted to its time and to the number of the candle that      *)
(* brought it; an error of the feed comes as a candle of the time Never.   *)
(***************************************************************************)
EXTENDS Integers, Sequences

CONSTANTS
  WarmupPeriod,  \* the rows the strategy wants to see, 80 in the code
  Attached       \* a web server is attached to the controller

\* A strategy that wants one row is asked again about the row of an error
\* when another error comes before the first bar.
ASSUME ControllerAssumption ==
  /\ WarmupPeriod \in Nat \ {0, 1}
  /\ Attached \in BOOLEAN

VARIABLES
  Dataframe,  \* the rows
  started,    \* as main has set it
  seen,       \* as the feed's goroutine last read it
  given,      \* history: the candles OnCandle was called with
  decided     \* history: the samples the strategy was asked about

controllerVars == <<Dataframe, started, seen, given, decided>>

-----------------------------------------------------------------------------
Never == 0   \* time.Time{}
Row   == [time : Nat, n : Nat]

LastRow == Dataframe[Len(Dataframe)]

Late(candle) == Dataframe # <<>> /\ candle.time < LastRow.time

\* Mutant: a row is appended always.
updateAppend(candle) == Append(Dataframe, candle)

\* A candle of the last row's time replaces the row.
updateDataFrame(candle) ==
  IF Dataframe # <<>> /\ candle.time = LastRow.time
  THEN [Dataframe EXCEPT ![Len(Dataframe)] = candle]
  ELSE Append(Dataframe, candle)

Sample(df, positions) ==
  IF Len(df) <= positions THEN df
  ELSE SubSeq(df, Len(df) - positions + 1, Len(df))

ControllerInit ==
  /\ Dataframe = <<>>
  /\ started = FALSE /\ seen = FALSE
  /\ given = <<>> /\ decided = <<>>

\* Start is called by main while the feed's goroutine runs.
ControllerStart ==
  /\ ~started
  /\ started' = TRUE
  /\ UNCHANGED <<Dataframe, seen, given, decided>>

\* The candle is older than the last row.
Drop(candle) ==
  /\ Late(candle)
  /\ given' = Append(given, candle)
  /\ UNCHANGED <<Dataframe, started, seen, decided>>

Update(candle) ==
  /\ ~Late(candle)
  /\ given' = Append(given, candle)
  /\ Dataframe' = updateDataFrame(candle)
  /\ UNCHANGED started

\* Too few rows, or the controller is not started.
WarmUp(candle) ==
  /\ Update(candle)
  /\ Len(Dataframe') < WarmupPeriod
  /\ UNCHANGED <<seen, decided>>

\* started is read without a lock: an old value may be read until the new
\* one has been.
NotStarted(candle) ==
  /\ Update(candle)
  /\ Len(Dataframe') >= WarmupPeriod
  /\ ~seen
  /\ UNCHANGED <<seen, decided>>

\* Mutant: a late candle is dropped, and the strategy asked all the same.
DecideLate(candle) ==
  /\ IF Late(candle)
     THEN /\ given' = Append(given, candle)
          /\ UNCHANGED <<Dataframe, started>>
     ELSE Update(candle)
  /\ Len(Dataframe') >= WarmupPeriod
  /\ started \/ seen
  /\ seen' = TRUE
  /\ decided' = Append(decided, Sample(Dataframe', WarmupPeriod))

Decide(candle) ==
  /\ Update(candle)
  /\ Len(Dataframe') >= WarmupPeriod
  /\ started \/ seen
  /\ seen' = TRUE
  /\ decided' = Append(decided, Sample(Dataframe', WarmupPeriod))

OnCandle(candle) ==
  Drop(candle) \/ WarmUp(candle) \/ NotStarted(candle) \/ Decide(candle)

ControllerNext == ControllerStart \/ \E candle \in Row : OnCandle(candle)

ControllerSpec == ControllerInit /\ [][ControllerNext]_controllerVars
-----------------------------------------------------------------------------
OnTime(i) == \A j \in 1..i : given[j].time <= given[i].time

\* Candle i is the last one on time for its bar.
Kept(i) ==
  /\ OnTime(i)
  /\ \A j \in (i + 1)..Len(given) : given[j].time = given[i].time => ~OnTime(j)

(* The dataframe is what was received with every late candle left out and  *)
(* of each bar the last revision: no row is lost, doubled, out of order or *)
(* of an older revision.                                                   *)
RowsAreLastRevisions ==
  LET kept == {i \in DOMAIN given : Kept(i)} IN
  /\ \A i, j \in DOMAIN Dataframe : i < j => Dataframe[i].time < Dataframe[j].time
  /\ {Dataframe[i] : i \in DOMAIN Dataframe} = {given[i] : i \in kept}
=============================================================================
