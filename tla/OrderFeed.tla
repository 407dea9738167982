------------------------------ MODULE OrderFeed ------------------------------
(***************************************************************************)
(* The order feed of feed/order_feed.go: one buffered channel per pair,    *)
(* filled by Publish and drained by one goroutine per pair, which hands    *)
(* every order to the pair's subscribers in turn.  Publish, Subscribe and  *)
(* the delivery loop share one sync.RWMutex, and Stop cancels the context  *)
(* that both selects listen to.                                            *)
(*                                                                         *)
(* An element of Order stands for one call of Publish, an element of       *)
(* Subscription for one call of Subscribe.                                 *)
(***************************************************************************)
EXTENDS Naturals, Sequences

CONSTANTS
  Pair,          \* trading pairs
  Order,         \* calls of Publish
  Publisher,     \* goroutines that call Publish
  Subscription,  \* calls of Subscribe, each with a consumer of its own
  Late,          \* subscriptions that may be made while the feed runs
  PairOf,        \* the pair of an order and of a subscription
  Capacity,      \* size of a Data channel (100 in the code)
  NoOrder

ASSUME OrderFeedAssumption ==
  /\ PairOf \in [Order \cup Subscription -> Pair]
  /\ Late \subseteq Subscription
  /\ Capacity \in Nat \ {0}
  /\ NoOrder \notin Order

VARIABLES
  started,   \* Start has launched the goroutines
  ctxDone,   \* Stop has cancelled the context
  panicked,  \* the process died of a send on a closed channel
  feeds,     \* keys of OrderFeeds
  subs,      \* SubscriptionsByFeedKey
  data,      \* buffers of the Data channels
  parked,    \* publishers blocked in a Data channel, oldest first
  closed,    \* pairs whose Data channel is closed
  subPc,     \* progress of each Subscribe call
  pubPc,     \* progress of the Publish call of each publisher
  pubOrder,  \* the order that call publishes
  recvPc,    \* progress of each pair's goroutine
  current,   \* the order a goroutine has taken from its channel
  nextSub,   \* position of the delivery loop
  issued,    \* history: when Publish was called with each order
  sent,      \* history: orders the channel accepted, per pair
  handled,   \* history: how many of them were delivered to the end
  joined,    \* history: value of handled when a subscription was made
  got        \* history: orders each consumer was called with

chan     == <<data, parked, closed>>
registry == <<feeds, subs, subPc, joined>>
pubs     == <<pubPc, pubOrder, issued>>
recv     == <<recvPc, current, nextSub, handled, got>>
ctl      == <<started, ctxDone, panicked>>
vars     == <<ctl, registry, chan, pubs, recv, sent>>

-----------------------------------------------------------------------------
(* sync.RWMutex.  A pending writer keeps new readers out, and waits for    *)
(* the readers that are in.                                                *)

Publishing(p)  == pubPc[p] \in {"select", "parked", "return"}
WriterPending  == \E s \in Subscription : subPc[s] = "pending"
ReadLocked     == \/ \E p \in Publisher : Publishing(p)
                  \/ \E q \in Pair : recvPc[q] = "deliver"

\* The subscriptions that Raccoon.SetupSubscriptions makes are in place.
Registered == \A s \in Subscription \ Late : subPc[s] = "done"

-----------------------------------------------------------------------------
Init ==
  /\ started = FALSE
  /\ ctxDone = FALSE
  /\ panicked = FALSE
  /\ feeds = {}
  /\ subs = [q \in Pair |-> <<>>]
  /\ data = [q \in Pair |-> <<>>]
  /\ parked = [q \in Pair |-> <<>>]
  /\ closed = {}
  /\ subPc = [s \in Subscription |-> "new"]
  /\ pubPc = [p \in Publisher |-> "idle"]
  /\ pubOrder = [p \in Publisher |-> NoOrder]
  /\ recvPc = [q \in Pair |-> "off"]
  /\ current = [q \in Pair |-> NoOrder]
  /\ nextSub = [q \in Pair |-> 1]
  /\ issued = [o \in Order |-> "not"]
  /\ sent = [q \in Pair |-> <<>>]
  /\ handled = [q \in Pair |-> 0]
  /\ joined = [s \in Subscription |-> 0]
  /\ got = [s \in Subscription |-> <<>>]

-----------------------------------------------------------------------------
(* Subscribe: mu.Lock announces the writer, the body runs once the readers *)
(* have left, and the deferred Unlock ends it.                             *)

SubscribeLock(s) ==
  /\ subPc[s] = "new"
  /\ ~WriterPending
  /\ subPc' = [subPc EXCEPT ![s] = "pending"]
  /\ UNCHANGED <<ctl, feeds, subs, joined, chan, pubs, recv, sent>>

Subscribe(s) ==
  LET q == PairOf[s] IN
  /\ subPc[s] = "pending"
  /\ ~ReadLocked
  /\ feeds' = feeds \cup {q}
  /\ subs' = [subs EXCEPT ![q] = Append(@, s)]
  /\ subPc' = [subPc EXCEPT ![s] = "done"]
  /\ joined' = [joined EXCEPT ![s] = handled[q]]
  /\ UNCHANGED <<ctl, chan, pubs, recv, sent>>

-----------------------------------------------------------------------------
(* Publish: the caller takes the read lock, looks its channel up and       *)
(* selects between the send and the context.  Orders come from a strategy, *)
(* and those run once the subscriptions of Raccoon.Start are made.         *)

Publish(p, o) ==
  /\ pubPc[p] = "idle"
  /\ issued[o] = "not"
  /\ Registered
  /\ issued' = [issued EXCEPT ![o] = IF ctxDone THEN "stopped" ELSE "running"]
  /\ pubPc' = [pubPc EXCEPT ![p] = "rlock"]
  /\ pubOrder' = [pubOrder EXCEPT ![p] = o]
  /\ UNCHANGED <<ctl, registry, chan, recv, sent>>

\* An order of a pair nobody subscribed to is dropped.
PublishLookup(p) ==
  /\ pubPc[p] = "rlock"
  /\ ~WriterPending
  /\ pubPc' = [pubPc EXCEPT ![p] = IF PairOf[pubOrder[p]] \in feeds
                                     THEN "select" ELSE "idle"]
  /\ UNCHANGED <<ctl, registry, chan, pubOrder, issued, recv, sent>>

PublishSend(p) ==
  LET q == PairOf[pubOrder[p]] IN
  /\ pubPc[p] = "select"
  /\ q \notin closed
  /\ Len(data[q]) < Capacity
  /\ data' = [data EXCEPT ![q] = Append(@, pubOrder[p])]
  /\ sent' = [sent EXCEPT ![q] = Append(@, pubOrder[p])]
  /\ pubPc' = [pubPc EXCEPT ![p] = "return"]
  /\ UNCHANGED <<ctl, registry, parked, closed, pubOrder, issued, recv>>

\* Both branches of the select may be ready: Go picks either.
PublishAbandon(p) ==
  /\ pubPc[p] = "select"
  /\ ctxDone
  /\ pubPc' = [pubPc EXCEPT ![p] = "return"]
  /\ UNCHANGED <<ctl, registry, chan, pubOrder, issued, recv, sent>>

\* The send branch of a select is ready on a closed channel, and panics.
PublishPanic(p) ==
  /\ pubPc[p] = "select"
  /\ PairOf[pubOrder[p]] \in closed
  /\ panicked' = TRUE
  /\ UNCHANGED <<started, ctxDone, registry, chan, pubs, recv, sent>>

\* No branch is ready: the goroutine sleeps in both, with the read lock.
PublishPark(p) ==
  LET q == PairOf[pubOrder[p]] IN
  /\ pubPc[p] = "select"
  /\ q \notin closed
  /\ Len(data[q]) = Capacity
  /\ ~ctxDone
  /\ parked' = [parked EXCEPT ![q] = Append(@, p)]
  /\ pubPc' = [pubPc EXCEPT ![p] = "parked"]
  /\ UNCHANGED <<ctl, registry, data, closed, pubOrder, issued, recv, sent>>

PublishReturn(p) ==
  /\ pubPc[p] = "return"
  /\ pubPc' = [pubPc EXCEPT ![p] = "idle"]
  /\ UNCHANGED <<ctl, registry, chan, pubOrder, issued, recv, sent>>

-----------------------------------------------------------------------------
(* Start and Stop.  Raccoon.Start makes its subscriptions, then starts the *)
(* feed once; only the subscriptions of Late may come afterwards.          *)

Start ==
  /\ ~started
  /\ Registered
  /\ ~WriterPending
  /\ started' = TRUE
  /\ recvPc' = [q \in Pair |-> IF q \in feeds THEN "select" ELSE "off"]
  /\ UNCHANGED <<ctxDone, panicked, registry, chan, pubs, current, nextSub,
                 handled, got, sent>>

\* Mutant: a publisher that sleeps does not listen to the context.
StopWakesNobody ==
  /\ ~ctxDone
  /\ ctxDone' = TRUE
  /\ UNCHANGED <<started, panicked, registry, chan, pubs, recv, sent>>

\* cancel() wakes every parked publisher on its ctx.Done branch.
Stop ==
  /\ ~ctxDone
  /\ ctxDone' = TRUE
  /\ parked' = [q \in Pair |-> <<>>]
  /\ pubPc' = [p \in Publisher |-> IF pubPc[p] = "parked" THEN "return"
                                                         ELSE pubPc[p]]
  /\ UNCHANGED <<started, panicked, registry, data, closed, pubOrder, issued,
                 recv, sent>>

-----------------------------------------------------------------------------
(* The goroutine of a pair. *)

\* Mutant: break in place of return, which only leaves the select.
ReceiveDoneBreak(q) ==
  /\ recvPc[q] = "select"
  /\ ctxDone
  /\ closed' = closed \cup {q}
  /\ UNCHANGED <<ctl, registry, data, parked, pubs, recv, sent>>

\* case <-ctx.Done(): the goroutine closes its channels and ends.
ReceiveDone(q) ==
  /\ recvPc[q] = "select"
  /\ ctxDone
  /\ closed' = closed \cup {q}
  /\ recvPc' = [recvPc EXCEPT ![q] = "exited"]
  /\ UNCHANGED <<ctl, registry, data, parked, pubs, current, nextSub,
                 handled, got, sent>>

\* case order := <-feed.Data, with nobody parked in the channel.
Receive(q) ==
  /\ recvPc[q] = "select"
  /\ data[q] # <<>>
  /\ parked[q] = <<>>
  /\ current' = [current EXCEPT ![q] = Head(data[q])]
  /\ data' = [data EXCEPT ![q] = Tail(@)]
  /\ recvPc' = [recvPc EXCEPT ![q] = "rlock"]
  /\ UNCHANGED <<ctl, registry, parked, closed, pubs, nextSub, handled, got,
                 sent>>

\* Mutant: the order that waited overtakes those in the buffer.
ReceiveAndOvertake(q) ==
  /\ recvPc[q] = "select"
  /\ data[q] # <<>>
  /\ parked[q] # <<>>
  /\ LET p == Head(parked[q]) IN
       /\ current' = [current EXCEPT ![q] = pubOrder[p]]
       /\ sent' = [sent EXCEPT ![q] = Append(@, pubOrder[p])]
       /\ pubPc' = [pubPc EXCEPT ![p] = "return"]
  /\ parked' = [parked EXCEPT ![q] = Tail(@)]
  /\ recvPc' = [recvPc EXCEPT ![q] = "rlock"]
  /\ UNCHANGED <<ctl, registry, data, closed, pubOrder, issued, nextSub,
                 handled, got>>

\* The same, when a parked publisher's order takes the slot that came free.
ReceiveAndUnpark(q) ==
  /\ recvPc[q] = "select"
  /\ data[q] # <<>>
  /\ parked[q] # <<>>
  /\ LET p == Head(parked[q]) IN
       /\ data' = [data EXCEPT ![q] = Append(Tail(@), pubOrder[p])]
       /\ sent' = [sent EXCEPT ![q] = Append(@, pubOrder[p])]
       /\ pubPc' = [pubPc EXCEPT ![p] = "return"]
  /\ parked' = [parked EXCEPT ![q] = Tail(@)]
  /\ current' = [current EXCEPT ![q] = Head(data[q])]
  /\ recvPc' = [recvPc EXCEPT ![q] = "rlock"]
  /\ UNCHANGED <<ctl, registry, closed, pubOrder, issued, nextSub, handled,
                 got>>

\* deliverToSubscribers: the read lock, the loop over the subscribers and
\* the deferred RUnlock.
DeliverLock(q) ==
  /\ recvPc[q] = "rlock"
  /\ ~WriterPending
  /\ recvPc' = [recvPc EXCEPT ![q] = "deliver"]
  /\ nextSub' = [nextSub EXCEPT ![q] = 1]
  /\ UNCHANGED <<ctl, registry, chan, pubs, current, handled, got, sent>>

Deliver(q) ==
  /\ recvPc[q] = "deliver"
  /\ nextSub[q] <= Len(subs[q])
  /\ got' = [got EXCEPT ![subs[q][nextSub[q]]] = Append(@, current[q])]
  /\ nextSub' = [nextSub EXCEPT ![q] = @ + 1]
  /\ UNCHANGED <<ctl, registry, chan, pubs, recvPc, current, handled, sent>>

\* Mutant: the loop ends after the first subscriber.
DeliverDoneEarly(q) ==
  /\ recvPc[q] = "deliver"
  /\ nextSub[q] > 1 \/ subs[q] = <<>>
  /\ handled' = [handled EXCEPT ![q] = @ + 1]
  /\ recvPc' = [recvPc EXCEPT ![q] = "select"]
  /\ UNCHANGED <<ctl, registry, chan, pubs, current, nextSub, got, sent>>

DeliverDone(q) ==
  /\ recvPc[q] = "deliver"
  /\ nextSub[q] > Len(subs[q])
  /\ handled' = [handled EXCEPT ![q] = @ + 1]
  /\ recvPc' = [recvPc EXCEPT ![q] = "select"]
  /\ UNCHANGED <<ctl, registry, chan, pubs, current, nextSub, got, sent>>

-----------------------------------------------------------------------------
SubscribeStep(s) == SubscribeLock(s) \/ Subscribe(s)

PublishStep(p) ==
  \/ PublishLookup(p)
  \/ PublishSend(p)
  \/ PublishAbandon(p)
  \/ PublishPanic(p)
  \/ PublishPark(p)
  \/ PublishReturn(p)

ReceiveStep(q) ==
  \/ ReceiveDone(q)
  \/ Receive(q)
  \/ ReceiveAndUnpark(q)
  \/ DeliverLock(q)
  \/ Deliver(q)
  \/ DeliverDone(q)

Next ==
  /\ ~panicked
  /\ \/ \E s \in Subscription : SubscribeStep(s)
     \/ \E p \in Publisher, o \in Order : Publish(p, o)
     \/ \E p \in Publisher : PublishStep(p)
     \/ \E q \in Pair : ReceiveStep(q)
     \/ Start
     \/ Stop

Spec == Init /\ [][Next]_vars

(* The Go scheduler runs every goroutine that can take a step: the calls   *)
(* in progress and the goroutines of the feed are weakly fair.  So are the *)
(* calls Raccoon.Start always makes.  Publish, Stop and the start of a     *)
(* late subscription are up to the environment.                            *)
FairSpec ==
  /\ Spec
  /\ \A p \in Publisher : WF_vars(~panicked /\ PublishStep(p))
  /\ \A q \in Pair : WF_vars(~panicked /\ ReceiveStep(q))
  /\ \A s \in Subscription : WF_vars(~panicked /\ Subscribe(s))
  /\ \A s \in Subscription \ Late : WF_vars(~panicked /\ SubscribeLock(s))
  /\ WF_vars(~panicked /\ Start)

-----------------------------------------------------------------------------
Elems(seq) == {seq[i] : i \in DOMAIN seq}

TypeOK ==
  /\ started \in BOOLEAN
  /\ ctxDone \in BOOLEAN
  /\ panicked \in BOOLEAN
  /\ feeds \in SUBSET Pair
  /\ closed \in SUBSET Pair
  /\ subs \in [Pair -> Seq(Subscription)]
  /\ data \in [Pair -> Seq(Order)]
  /\ parked \in [Pair -> Seq(Publisher)]
  /\ subPc \in [Subscription -> {"new", "pending", "done"}]
  /\ pubPc \in [Publisher -> {"idle", "rlock", "select", "parked", "return"}]
  /\ pubOrder \in [Publisher -> Order \cup {NoOrder}]
  /\ recvPc \in [Pair -> {"off", "select", "rlock", "deliver", "exited"}]
  /\ current \in [Pair -> Order \cup {NoOrder}]
  /\ nextSub \in [Pair -> Nat \ {0}]
  /\ issued \in [Order -> {"not", "running", "stopped"}]
  /\ sent \in [Pair -> Seq(Order)]
  /\ handled \in [Pair -> Nat]
  /\ joined \in [Subscription -> Nat]
  /\ got \in [Subscription -> Seq(Order)]
  /\ \A q \in Pair : Len(data[q]) <= Capacity
  /\ \A q \in Pair : recvPc[q] \in {"rlock", "deliver"} => current[q] \in Order

InFlight(q) == IF recvPc[q] \in {"rlock", "deliver"} THEN 1 ELSE 0

\* A channel accepted the orders all, of which done are delivered, f are in
\* the goroutine's hands (held, if there is one) and rest are buffered.
Accounts(all, done, f, held, rest) ==
  /\ Len(all) = done + f + Len(rest)
  /\ f = 1 => held = all[done + 1]
  /\ \A i \in 1..Len(rest) : rest[i] = all[done + f + i]

(* Whatever publishers sleep in the channel, wake up or are cancelled, the *)
(* orders a channel accepted are, in this order: those delivered, the one  *)
(* being delivered, those in the buffer.                                   *)
Conserved ==
  \A q \in Pair :
    Accounts(sent[q], handled[q], InFlight(q), current[q], data[q])

(* A consumer is called with the orders its pair's channel accepted, in    *)
(* that order and without a gap, from the moment it subscribed: this is    *)
(* what keeps a sale from being executed before the purchase it closes.    *)
DeliveredInOrder ==
  \A s \in Subscription :
    /\ joined[s] + Len(got[s]) <= Len(sent[PairOf[s]])
    /\ \A i \in 1..Len(got[s]) : got[s][i] = sent[PairOf[s]][joined[s] + i]

(* No consumer is called twice for one call of Publish: the broker would   *)
(* place the order twice.                                                  *)
DeliveredOnce ==
  \A s \in Subscription : \A i, j \in 1..Len(got[s]) :
    got[s][i] = got[s][j] => i = j

(* A consumer of a pair is never more than one order ahead of another one  *)
(* that had subscribed by then: delivery is sequential.                    *)
Lockstep ==
  \A s \in Subscription :
    subPc[s] = "done" =>
      joined[s] + Len(got[s]) \in {handled[PairOf[s]], handled[PairOf[s]] + 1}

(* The invariant that carries the proofs.  A subscription holds one place  *)
(* of its pair's list; the delivery loop has passed the places before      *)
(* nextSub, whose consumers are one order ahead.                           *)
Placed ==
  /\ \A s \in Subscription :
       IF subPc[s] = "done"
         THEN \E k \in 1..Len(subs[PairOf[s]]) : subs[PairOf[s]][k] = s
         ELSE joined[s] = 0 /\ got[s] = <<>>
  /\ \A q \in Pair : \A k \in 1..Len(subs[q]) :
       /\ PairOf[subs[q][k]] = q
       /\ subPc[subs[q][k]] = "done"
       /\ \A j \in 1..Len(subs[q]) : subs[q][j] = subs[q][k] => j = k

Ahead(q, k) == IF recvPc[q] = "deliver" /\ k < nextSub[q] THEN 1 ELSE 0

Progress ==
  \A q \in Pair :
    /\ recvPc[q] = "deliver" => nextSub[q] \in 1..(Len(subs[q]) + 1)
    /\ \A k \in 1..Len(subs[q]) :
         joined[subs[q][k]] + Len(got[subs[q][k]]) = handled[q] + Ahead(q, k)

Dormant == ~started => \A q \in Pair : recvPc[q] = "off"

DeliveryInv ==
  /\ TypeOK
  /\ Dormant
  /\ Conserved
  /\ Placed
  /\ Progress
  /\ DeliveredInOrder

(* An order is in the hands of one publisher until a channel accepts it,   *)
(* and of no publisher from then on.                                       *)
Holding(p) == pubPc[p] \in {"rlock", "select", "parked"}

SentOnce ==
  \A q \in Pair : \A i \in 1..Len(sent[q]) :
    /\ PairOf[sent[q][i]] = q
    /\ issued[sent[q][i]] # "not"
    /\ \A j \in 1..Len(sent[q]) : sent[q][i] = sent[q][j] => i = j

Held ==
  \A p \in Publisher : Holding(p) =>
    /\ pubOrder[p] \in Order
    /\ issued[pubOrder[p]] # "not"
    /\ \A i \in 1..Len(sent[PairOf[pubOrder[p]]]) :
         sent[PairOf[pubOrder[p]]][i] # pubOrder[p]
    /\ \A r \in Publisher : Holding(r) /\ pubOrder[r] = pubOrder[p] => r = p

Sleeping ==
  \A q \in Pair : \A i \in 1..Len(parked[q]) :
    /\ pubPc[parked[q][i]] = "parked"
    /\ PairOf[pubOrder[parked[q][i]]] = q
    /\ \A j \in 1..Len(parked[q]) : parked[q][i] = parked[q][j] => i = j

OnceInv == SentOnce /\ Held /\ Sleeping

(* Every call of Publish returns, unless the process dies: only a          *)
(* Subscribe that waits for the lock can keep it, and then until Stop.     *)
PublishReturns ==
  \A p \in Publisher :
    pubPc[p] # "idle"
      ~> (pubPc[p] = "idle" \/ panicked \/ (WriterPending /\ ~ctxDone))

(* While the feed runs and no Subscribe waits, an order that a channel     *)
(* accepted after a consumer subscribed reaches that consumer.             *)
AcceptedDelivered ==
  \A s \in Subscription, o \in Order :
    LET q == PairOf[s]
    IN  (subPc[s] = "done"
           /\ \E i \in (joined[s] + 1)..Len(sent[q]) : sent[q][i] = o)
          ~> (o \in Elems(got[s]) \/ ctxDone \/ WriterPending)

(* Stop ends every goroutine of the feed, whatever is parked, pending or   *)
(* buffered, unless the process dies.                                      *)
StopEndsDelivery ==
  ctxDone ~> (panicked \/ \A q \in Pair : recvPc[q] \in {"off", "exited"})

(* What a user of the feed relies on is the queue of OrderQueue.           *)
Queue == INSTANCE OrderQueue WITH
  accepted <- sent,
  subscribed <- {s \in Subscription : subPc[s] = "done"},
  from <- joined,
  received <- got

ImplementsQueue == Queue!Spec

-----------------------------------------------------------------------------
(* Statements of the repository that the code does not keep. *)

(* test/order_feed_test.go:147: Publish on a stopped feed returns, and no   *)
(* consumer receives its order.                                            *)
QuietAfterStop ==
  /\ ~panicked
  /\ \A s \in Subscription : \A i \in 1..Len(got[s]) :
       issued[got[s][i]] # "stopped"
=============================================================================
