---------------------------- MODULE UpbitStream ----------------------------
(***************************************************************************)
(* The websocket of exchange/upbit.go: the goroutines that may run it, its *)
(* connection, the candles and errors it sends to the channels of the      *)
(* aggregators, and Upbit.Stop.  What push1sCandle computes is the subject *)
(* of CandleAggregator; here it yields an incomplete bar, a complete one,  *)
(* both or none.  The channels are unbuffered, so a send is one step with  *)
(* the receiver; MarketData has the receiver, and says under which         *)
(* fairness the goroutines end.                                            *)
(***************************************************************************)
EXTENDS Integers, Sequences

CONSTANTS
  Key,          \* pair_period
  Pair,
  PairOf,       \* the pair of a key
  MaxWSRetries,
  MaxRead,      \* bound: messages read
  MaxFailures   \* bound: dials and reads that fail on their own

ASSUME StreamAssumption ==
  /\ PairOf \in [Key -> Pair]
  /\ {MaxWSRetries, MaxRead, MaxFailures} \subseteq Nat
  /\ "start" \notin Key /\ "nil" \notin Key

\* A goroutine is named after the call that spawns it: Upbit.Start or the
\* CandlesSubscription of a key.
Runner == Key \cup {"start"}

VARIABLES
  cancelled,   \* u.ctx is done
  wsRunning,
  wsConn,      \* the runner whose connection u.wsConn is, or "nil"
  registered,  \* keys of u.aggregatorMap
  pc,          \* where each runner is
  conn,        \* the connection of each runner
  codes,       \* pairs each runner asked the exchange for
  retries,
  todo,        \* keys handleCandle1s has not visited
  outbox,      \* candles it has yet to send
  errs,        \* goroutines of broadcastErr, by key
  stop,        \* where Upbit.Stop is
  closed,      \* the channels of the aggregators are closed
  crashed,     \* a goroutine panicked
  nread,       \* history: messages read
  failures,    \* history: failures of the network
  sent         \* history: candles sent, by key

streamVars ==
  <<cancelled, wsRunning, wsConn, registered, pc, conn, codes, retries, todo,
    outbox, errs, stop, closed, crashed, nread, failures, sent>>
local == <<conn, codes, retries, todo, outbox>>
history == <<nread, failures, sent>>

Candle == [msg : 0..MaxRead, complete : BOOLEAN]

-----------------------------------------------------------------------------
Init ==
  /\ cancelled = FALSE /\ wsRunning = FALSE /\ wsConn = "nil"
  /\ registered = {}
  /\ pc = [r \in Runner |-> "idle"]
  /\ conn = [r \in Runner |-> "none"]
  /\ codes = [r \in Runner |-> {}]
  /\ retries = [r \in Runner |-> 0]
  /\ todo = [r \in Runner |-> {}]
  /\ outbox = [r \in Runner |-> <<>>]
  /\ errs = [k \in Key |-> 0]
  /\ stop = "idle" /\ closed = FALSE /\ crashed = FALSE
  /\ nread = 0 /\ failures = 0
  /\ sent = [k \in Key |-> <<>>]

Goto(r, from, to) ==
  /\ ~crashed
  /\ pc[r] = from
  /\ pc' = [pc EXCEPT ![r] = to]

NetworkFails == failures < MaxFailures /\ failures' = failures + 1

\* One goroutine for each aggregator, that tries to send the error.
broadcastErr ==
  errs' = [k \in Key |-> IF k \in registered THEN errs[k] + 1 ELSE errs[k]]

Start ==
  /\ Goto("start", "idle", "spawned")
  /\ UNCHANGED <<cancelled, wsRunning, wsConn, registered, local, errs, stop,
                 closed, crashed, history>>

\* The aggregator enters the map; the candles of the running interval are
\* fetched before the goroutine is spawned.  A loop over the map that is
\* under way may or may not meet it.
CandlesSubscription(k) ==
  /\ Goto(k, "idle", "preload")
  /\ registered' = registered \cup {k}
  /\ \E met \in SUBSET {r \in Runner : pc[r] = "handle"} :
       todo' = [r \in Runner |-> IF r \in met THEN todo[r] \cup {k} ELSE todo[r]]
  /\ UNCHANGED <<cancelled, wsRunning, wsConn, conn, codes, retries, outbox,
                 errs, stop, closed, crashed, history>>

CandlesSubscriptionReturn(k) ==
  /\ Goto(k, "preload", "spawned")
  /\ UNCHANGED <<cancelled, wsRunning, wsConn, registered, local, errs, stop,
                 closed, crashed, history>>

\* Mutant: wsRunning is looked at and never set.
wsRunAlways(r) ==
  /\ Goto(r, "spawned", IF wsRunning THEN "end" ELSE "begin")
  /\ UNCHANGED <<cancelled, wsRunning, wsConn, registered, local, errs, stop,
                 closed, crashed, history>>

wsRunIfNeeded(r) ==
  /\ Goto(r, "spawned", IF wsRunning THEN "end" ELSE "begin")
  /\ wsRunning' = TRUE
  /\ UNCHANGED <<cancelled, wsConn, registered, local, errs, stop, closed,
                 crashed, history>>

-----------------------------------------------------------------------------
\* wg.Add is the goroutine's own first step.
Begin(r) ==
  /\ Goto(r, "begin", "dial")
  /\ UNCHANGED <<cancelled, wsRunning, wsConn, registered, local, errs, stop,
                 closed, crashed, history>>

Dial(r) ==
  /\ Goto(r, "dial", "subscribe")
  /\ conn' = [conn EXCEPT ![r] = "open"]
  /\ wsConn' = r
  /\ UNCHANGED <<cancelled, wsRunning, registered, codes, retries, todo,
                 outbox, errs, stop, closed, crashed, history>>

DialFail(r) ==
  /\ Goto(r, "dial", "unwind")
  /\ NetworkFails
  /\ broadcastErr
  /\ UNCHANGED <<cancelled, wsRunning, wsConn, registered, local, stop, closed,
                 crashed, nread, sent>>

\* The pairs known by now are asked for; retries is declared anew.
WriteSubscription(r) ==
  /\ Goto(r, "subscribe", "loop")
  /\ conn[r] = "open"
  /\ codes' = [codes EXCEPT ![r] = {PairOf[k] : k \in registered}]
  /\ retries' = [retries EXCEPT ![r] = 0]
  /\ UNCHANGED <<cancelled, wsRunning, wsConn, registered, conn, todo, outbox,
                 errs, stop, closed, crashed, history>>

WriteFail(r) ==
  /\ Goto(r, "subscribe", "unwind")
  /\ IF conn[r] = "open" THEN NetworkFails ELSE UNCHANGED failures
  /\ conn' = [conn EXCEPT ![r] = "closed"]
  /\ broadcastErr
  /\ UNCHANGED <<cancelled, wsRunning, wsConn, registered, codes, retries,
                 todo, outbox, stop, closed, crashed, nread, sent>>

\* Mutant: the context is not looked at.
LoopOn(r) ==
  /\ Goto(r, "loop", "read")
  /\ UNCHANGED <<cancelled, wsRunning, wsConn, registered, local, errs, stop,
                 closed, crashed, history>>

Loop(r) ==
  /\ Goto(r, "loop", IF cancelled THEN "unwind" ELSE "read")
  /\ conn' = IF cancelled THEN [conn EXCEPT ![r] = "closed"] ELSE conn
  /\ UNCHANGED <<cancelled, wsRunning, wsConn, registered, codes, retries,
                 todo, outbox, errs, stop, closed, crashed, history>>

Arrives(r) ==
  /\ conn[r] = "open"
  /\ nread < MaxRead
  /\ nread' = nread + 1

ReadCandle(r, p) ==
  /\ Goto(r, "read", "handle")
  /\ Arrives(r)
  /\ p \in codes[r]
  /\ todo' = [todo EXCEPT ![r] = {k \in registered : PairOf[k] = p}]
  /\ UNCHANGED <<cancelled, wsRunning, wsConn, registered, conn, codes,
                 retries, outbox, errs, stop, closed, crashed, failures, sent>>

ReadErrorMessage(r) ==
  /\ Goto(r, "read", "loop")
  /\ Arrives(r)
  /\ broadcastErr
  /\ UNCHANGED <<cancelled, wsRunning, wsConn, registered, local, stop, closed,
                 crashed, failures, sent>>

\* A read that fails is retried after a sleep, on a new connection; with its
\* retries used up the goroutine gives up.
ReadFails(r) ==
  /\ Goto(r, "read", IF retries[r] < MaxWSRetries THEN "sleep" ELSE "unwind")
  /\ IF conn[r] = "open" THEN NetworkFails ELSE UNCHANGED failures
  /\ IF retries[r] < MaxWSRetries
       THEN /\ retries' = [retries EXCEPT ![r] = @ + 1]
            /\ UNCHANGED <<conn, errs>>
       ELSE /\ conn' = [conn EXCEPT ![r] = "closed"]
            /\ broadcastErr
            /\ UNCHANGED retries
  /\ UNCHANGED <<cancelled, wsRunning, wsConn, registered, codes, todo, outbox,
                 stop, closed, crashed, nread, sent>>

Reconnect(r) ==
  /\ Goto(r, "sleep", "dial")
  /\ conn' = [conn EXCEPT ![r] = "closed"]
  /\ UNCHANGED <<cancelled, wsRunning, wsConn, registered, codes, retries,
                 todo, outbox, errs, stop, closed, crashed, history>>

-----------------------------------------------------------------------------
\* handleCandle1s pushes the candle to one aggregator after the other.
Bars == {<<>>, <<"partial">>, <<"final">>, <<"partial", "final">>}

\* Mutant: the complete bar goes first.
PushBackwards(r, k) ==
  /\ Goto(r, "handle", "handle")
  /\ outbox[r] = <<>>
  /\ k \in todo[r]
  /\ todo' = [todo EXCEPT ![r] = @ \ {k}]
  /\ outbox' = [outbox EXCEPT ![r] =
       <<[key |-> k, candle |-> [msg |-> nread, complete |-> TRUE]],
         [key |-> k, candle |-> [msg |-> nread, complete |-> FALSE]]>>]
  /\ UNCHANGED <<cancelled, wsRunning, wsConn, registered, conn, codes,
                 retries, errs, stop, closed, crashed, history>>

Push(r, k) ==
  /\ Goto(r, "handle", "handle")
  /\ outbox[r] = <<>>
  /\ k \in todo[r]
  /\ todo' = [todo EXCEPT ![r] = @ \ {k}]
  /\ \E bars \in Bars :
       outbox' = [outbox EXCEPT ![r] =
         [i \in DOMAIN bars |->
            [key |-> k,
             candle |-> [msg |-> nread, complete |-> (bars[i] = "final")]]]]
  /\ UNCHANGED <<cancelled, wsRunning, wsConn, registered, conn, codes,
                 retries, errs, stop, closed, crashed, history>>

\* Blocks until the channel's reader takes the candle; panics when the channel
\* is closed.
Send(r) ==
  /\ Goto(r, "handle", "handle")
  /\ outbox[r] # <<>>
  /\ outbox' = [outbox EXCEPT ![r] = Tail(@)]
  /\ LET k == Head(outbox[r]).key
     IN  sent' = [sent EXCEPT ![k] = Append(@, Head(outbox[r]).candle)]
  /\ crashed' = closed
  /\ UNCHANGED <<cancelled, wsRunning, wsConn, registered, conn, codes,
                 retries, todo, errs, stop, closed, nread, failures>>

Handled(r) ==
  /\ Goto(r, "handle", "loop")
  /\ outbox[r] = <<>>
  /\ todo[r] = {}
  /\ UNCHANGED <<cancelled, wsRunning, wsConn, registered, local, errs, stop,
                 closed, crashed, history>>

\* The deferred function: wsRunning is cleared before wg.Done.
Unwind(r) ==
  /\ Goto(r, "unwind", "leave")
  /\ wsRunning' = FALSE
  /\ UNCHANGED <<cancelled, wsConn, registered, local, errs, stop, closed,
                 crashed, history>>

Leave(r) ==
  /\ Goto(r, "leave", "end")
  /\ UNCHANGED <<cancelled, wsRunning, wsConn, registered, local, errs, stop,
                 closed, crashed, history>>

\* A goroutine of broadcastErr, whether its reader waits or not.
SendErr(k) ==
  /\ ~crashed
  /\ errs[k] > 0
  /\ errs' = [errs EXCEPT ![k] = @ - 1]
  /\ crashed' = closed
  /\ UNCHANGED <<cancelled, wsRunning, wsConn, registered, pc, local, stop,
                 closed, history>>

-----------------------------------------------------------------------------
StopFrom(from, to) ==
  /\ ~crashed
  /\ stop = from
  /\ stop' = to

StopCancel ==
  /\ StopFrom("idle", "close")
  /\ cancelled' = TRUE
  /\ UNCHANGED <<wsRunning, wsConn, registered, pc, local, errs, closed,
                 crashed, history>>

StopClose ==
  /\ StopFrom("close", "wait")
  /\ conn' = [r \in Runner |-> IF r = wsConn THEN "closed" ELSE conn[r]]
  /\ UNCHANGED <<cancelled, wsRunning, wsConn, registered, pc, codes, retries,
                 todo, outbox, errs, closed, crashed, history>>

\* Runners between wg.Add and wg.Done.
Waited ==
  {r \in Runner : pc[r] \notin {"idle", "preload", "spawned", "begin", "end"}}

\* Mutant: the goroutine is not waited for.
StopNoWait ==
  /\ StopFrom("wait", "channels")
  /\ UNCHANGED <<cancelled, wsRunning, wsConn, registered, pc, local, errs,
                 closed, crashed, history>>

StopWait ==
  /\ StopFrom("wait", "channels")
  /\ Waited = {}
  /\ UNCHANGED <<cancelled, wsRunning, wsConn, registered, pc, local, errs,
                 closed, crashed, history>>

StopChannels ==
  /\ StopFrom("channels", "done")
  /\ closed' = TRUE
  /\ UNCHANGED <<cancelled, wsRunning, wsConn, registered, pc, local, errs,
                 crashed, history>>

Stop == StopCancel \/ StopClose \/ StopWait \/ StopChannels

-----------------------------------------------------------------------------
\* A runner's steps other than the rendezvous on a channel.
RunnerStep(r) ==
  \/ wsRunIfNeeded(r) \/ Begin(r) \/ Dial(r) \/ DialFail(r)
  \/ WriteSubscription(r) \/ WriteFail(r)
  \/ Loop(r) \/ ReadErrorMessage(r) \/ \E p \in Pair : ReadCandle(r, p)
  \/ ReadFails(r) \/ Reconnect(r)
  \/ \E k \in Key : Push(r, k)
  \/ Handled(r) \/ Unwind(r) \/ Leave(r)

Next ==
  \/ Start
  \/ \E k \in Key : CandlesSubscription(k) \/ CandlesSubscriptionReturn(k)
  \/ \E r \in Runner : RunnerStep(r) \/ Send(r)
  \/ \E k \in Key : SendErr(k)
  \/ Stop

Spec == Init /\ [][Next]_streamVars
-----------------------------------------------------------------------------
Place == {"idle", "preload", "spawned", "begin", "dial", "subscribe", "loop",
          "read", "sleep", "handle", "unwind", "leave", "end"}

Active ==
  {r \in Runner : pc[r] \notin {"idle", "preload", "spawned", "leave", "end"}}

TypeOK ==
  /\ cancelled \in BOOLEAN /\ wsRunning \in BOOLEAN
  /\ closed \in BOOLEAN /\ crashed \in BOOLEAN
  /\ wsConn \in Runner \cup {"nil"}
  /\ registered \subseteq Key
  /\ pc \in [Runner -> Place]
  /\ conn \in [Runner -> {"none", "open", "closed"}]
  /\ codes \in [Runner -> SUBSET Pair]
  /\ retries \in [Runner -> 0..MaxWSRetries]
  /\ todo \in [Runner -> SUBSET registered]
  /\ outbox \in [Runner -> Seq([key : registered, candle : Candle])]
  /\ errs \in [Key -> Nat]
  /\ stop \in {"idle", "close", "wait", "channels", "done"}
  /\ nread \in 0..MaxRead /\ failures \in 0..MaxFailures
  /\ sent \in [Key -> Seq(Candle)]

(* However often it is asked for, the websocket is run by one goroutine at *)
(* a time: the aggregators are pushed to by nobody else.                   *)
OneStream == \A r, s \in Active : r = s

(* A key gets a message once, the incomplete bar before the complete one,  *)
(* and messages in the order of the stream, over reconnections too.        *)
SentInOrder ==
  \A k \in Key : \A i, j \in DOMAIN sent[k] :
    i < j => \/ sent[k][i].msg < sent[k][j].msg
             \/ /\ sent[k][i].msg = sent[k][j].msg
                /\ ~sent[k][i].complete /\ sent[k][j].complete

(* Stop closes the channels when no candle is to be sent any more, though  *)
(* a goroutine that has not called wg.Add yet is not waited for.           *)
NoCandleAfterClose == closed => \A r \in Runner : outbox[r] = <<>>

(* What carries the proofs: a goroutine is active while wsRunning is set,  *)
(* candles are held in handleCandle1s only, and once Stop has waited no    *)
(* goroutine is past the loop's look at the context.                       *)
StreamInv ==
  /\ Active # {} => wsRunning
  /\ \A r \in Runner : outbox[r] # <<>> => pc[r] = "handle"
  /\ stop # "idle" => cancelled
  /\ stop \in {"channels", "done"} =>
       \A r \in Runner : pc[r] \notin {"read", "sleep", "handle"}
  /\ closed => stop = "done"
=============================================================================
