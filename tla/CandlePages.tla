---------------------------- MODULE CandlePages ----------------------------
(***************************************************************************)
(* CandlesByPeriod of exchange/upbit.go: fetches the candles of a period   *)
(* page by page, newest first, each page asked for up to the oldest candle *)
(* of the one before.  The exchange has a candle of each interval with     *)
(* trades; a page is its newest candles before toTime.  What the pages     *)
(* bring is a bag, since its order is that of the sort at the end.         *)
(***************************************************************************)
EXTENDS Integers, FiniteSets

CONSTANTS
  Asked,           \* the calls: records of a market, a start and an end
  CandlePageLimit

ASSUME PagesAssumption ==
  /\ CandlePageLimit \in Nat \ {0}
  /\ \A a \in Asked : /\ DOMAIN a.market \subseteq Int
                      /\ IsFiniteSet(DOMAIN a.market)
                      /\ a.start \in Int /\ a.end \in Int

VARIABLES
  asked,       \* the call; its market is external: what happened when
  toTime,
  allCandles,  \* how many times each candle was received
  fetch        \* where the call is

pagesVars == <<asked, toTime, allCandles, fetch>>

-----------------------------------------------------------------------------
Traded == DOMAIN asked.market

\* External: what is there to send, and what a page of it is.
Older == {t \in Traded : t < toTime}

IsPage(page) ==
  /\ page \subseteq Older
  /\ Cardinality(page) <= CandlePageLimit
  /\ page = Older \/ Cardinality(page) = CandlePageLimit
  /\ \A t \in page, u \in Older \ page : u < t

PagesInit ==
  /\ asked \in Asked
  /\ toTime = asked.end
  /\ allCandles = [t \in Traded |-> 0]
  /\ fetch = "request"

\* Mutant: the next page is asked for with its last candle included.
PageAgain(page) ==
  \E oldest \in page :
    /\ \A t \in page : oldest <= t
    /\ allCandles' = [t \in Traded |-> allCandles[t] + IF t \in page THEN 1 ELSE 0]
    /\ IF oldest > asked.start
       THEN toTime' = oldest + 1 /\ UNCHANGED fetch
       ELSE fetch' = "done" /\ UNCHANGED toTime
    /\ UNCHANGED asked

Page(page) ==
  \E oldest \in page :
    /\ \A t \in page : oldest <= t
    /\ allCandles' = [t \in Traded |-> allCandles[t] + IF t \in page THEN 1 ELSE 0]
    /\ IF oldest > asked.start
       THEN toTime' = oldest /\ UNCHANGED fetch
       ELSE fetch' = "done" /\ UNCHANGED toTime
    /\ UNCHANGED asked

NextPage ==
  /\ fetch = "request"
  /\ \E page \in SUBSET Older : IsPage(page) /\ Page(page)

EmptyPage ==
  /\ fetch = "request"
  /\ Older = {}
  /\ fetch' = "done"
  /\ UNCHANGED <<asked, toTime, allCandles>>

\* A request that fails ends the call: what came before is lost.
PageFails ==
  /\ fetch = "request"
  /\ fetch' = "failed"
  /\ UNCHANGED <<asked, toTime, allCandles>>

PagesNext == NextPage \/ EmptyPage \/ PageFails

PagesSpec == PagesInit /\ [][PagesNext]_pagesVars

\* The result, sorted when it is used.
InPeriod(t) == asked.start <= t /\ t <= asked.end

-----------------------------------------------------------------------------
(* CandlesByPeriod returns every candle of the period once, the one at its *)
(* end at most once: none is lost or doubled where one page ends and the   *)
(* next begins.  (The result may hold a candle at the end, line 476, but   *)
(* the first page already asks for older ones only.)                       *)
PeriodComplete ==
  fetch = "done" =>
    \A t \in Traded :
      InPeriod(t) => /\ allCandles[t] <= 1
                     /\ t < asked.end => allCandles[t] = 1
=============================================================================
