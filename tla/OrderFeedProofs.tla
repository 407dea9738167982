--------------------------- MODULE OrderFeedProofs ---------------------------
(***************************************************************************)
(* Proofs about OrderFeed, for any pairs, orders, publishers,              *)
(* subscriptions and capacity, and with subscriptions made while the feed  *)
(* runs.                                                                   *)
(***************************************************************************)
EXTENDS OrderFeed, TLAPS

-----------------------------------------------------------------------------
(* What Append and Tail do, place by place. *)

LEMMA EmptyFacts ==
  ASSUME NEW S
  PROVE  <<>> \in Seq(S) /\ Len(<<>>) = 0
  OBVIOUS

LEMMA AppendFacts ==
  ASSUME NEW S, NEW seq \in Seq(S), NEW x \in S
  PROVE  /\ Append(seq, x) \in Seq(S)
         /\ Len(Append(seq, x)) = Len(seq) + 1
         /\ Append(seq, x)[Len(seq) + 1] = x
         /\ \A i \in 1..Len(seq) : Append(seq, x)[i] = seq[i]
  OBVIOUS

LEMMA TailFacts ==
  ASSUME NEW S, NEW seq \in Seq(S), seq # <<>>
  PROVE  /\ Tail(seq) \in Seq(S)
         /\ Head(seq) \in S
         /\ Head(seq) = seq[1]
         /\ Len(seq) \in Nat
         /\ Len(seq) > 0
         /\ Len(Tail(seq)) = Len(seq) - 1
         /\ \A i \in 1..Len(Tail(seq)) : Tail(seq)[i] = seq[i + 1]
  OBVIOUS

-----------------------------------------------------------------------------
(* Type correctness.  Every variable keeps its type, and no buffer holds   *)
(* more orders than its capacity.                                          *)

LEMMA TypeInit == Init => TypeOK
  <1> SUFFICES ASSUME Init
               PROVE  TypeOK
    OBVIOUS
  <1>1. \A q \in Pair : Len(data[q]) = 0
    BY DEF Init
  <1>2. \A q \in Pair : Len(data[q]) <= Capacity
    <2> Capacity \in Nat /\ Capacity >= 0
      BY OrderFeedAssumption
    <2> QED
      BY <1>1
  <1>3. \A q \in Pair : recvPc[q] \in {"rlock", "deliver"} => current[q] \in Order
    BY DEF Init
  <1>4. /\ data \in [Pair -> Seq(Order)]
        /\ sent \in [Pair -> Seq(Order)]
        /\ parked \in [Pair -> Seq(Publisher)]
    BY DEF Init
  <1>5. subs \in [Pair -> Seq(Subscription)]
    BY DEF Init
  <1>6. got \in [Subscription -> Seq(Order)]
    BY DEF Init
  <1>7. closed \in SUBSET Pair /\ feeds \in SUBSET Pair
    BY DEF Init
  <1>8. /\ handled \in [Pair -> Nat]
        /\ joined \in [Subscription -> Nat]
        /\ nextSub \in [Pair -> Nat \ {0}]
    BY DEF Init
  <1> QED
    BY <1>2, <1>3, <1>4, <1>5, <1>6, <1>7, <1>8 DEF Init, TypeOK

LEMMA TypeNext == TypeOK /\ OnceInv /\ [Next]_vars => TypeOK'
  <1> SUFFICES ASSUME TypeOK, OnceInv, [Next]_vars
               PROVE  TypeOK'
    OBVIOUS
  <1> USE OrderFeedAssumption
  <1>1. ASSUME NEW s \in Subscription, SubscribeLock(s)
        PROVE  TypeOK'
    BY <1>1 DEF TypeOK, SubscribeLock, ctl, chan, pubs, recv
  <1>2. ASSUME NEW s \in Subscription, Subscribe(s)
        PROVE  TypeOK'
    <2>1. PairOf[s] \in Pair
      OBVIOUS
    <2>2. Append(subs[PairOf[s]], s) \in Seq(Subscription)
      BY <2>1, AppendFacts DEF TypeOK
    <2> QED
      BY <1>2, <2>1, <2>2 DEF TypeOK, Subscribe, ctl, chan, pubs, recv
  <1>3. ASSUME NEW p \in Publisher, NEW o \in Order, Publish(p, o)
        PROVE  TypeOK'
    BY <1>3 DEF TypeOK, Publish, ctl, registry, chan, recv
  <1>4. ASSUME NEW p \in Publisher, PublishLookup(p)
        PROVE  TypeOK'
    BY <1>4 DEF TypeOK, PublishLookup, ctl, registry, chan, recv
  <1>5. ASSUME NEW p \in Publisher, PublishSend(p)
        PROVE  TypeOK'
    <2>1. pubOrder[p] \in Order
      BY <1>5 DEF PublishSend, OnceInv, Held, Holding
    <2> DEFINE q == PairOf[pubOrder[p]]
    <2>2. /\ q \in Pair
          /\ Append(data[q], pubOrder[p]) \in Seq(Order)
          /\ Append(sent[q], pubOrder[p]) \in Seq(Order)
          /\ Len(Append(data[q], pubOrder[p])) = Len(data[q]) + 1
          /\ Len(data[q]) \in Nat
      BY <2>1, AppendFacts DEF TypeOK
    <2>3. \A x \in Pair : Len(data'[x]) <= Capacity
      BY <1>5, <2>2 DEF TypeOK, PublishSend
    <2>4. data' \in [Pair -> Seq(Order)] /\ sent' \in [Pair -> Seq(Order)]
      BY <1>5, <2>2 DEF TypeOK, PublishSend
    <2> QED
      BY <1>5, <2>3, <2>4 DEF TypeOK, PublishSend, ctl, registry, recv
  <1>6. ASSUME NEW p \in Publisher, PublishAbandon(p)
        PROVE  TypeOK'
    BY <1>6 DEF TypeOK, PublishAbandon, ctl, registry, chan, recv
  <1>7. ASSUME NEW p \in Publisher, PublishPanic(p)
        PROVE  TypeOK'
    BY <1>7 DEF TypeOK, PublishPanic, registry, chan, pubs, recv
  <1>8. ASSUME NEW p \in Publisher, PublishPark(p)
        PROVE  TypeOK'
    BY <1>8, AppendFacts, ZenonT(40) DEF TypeOK, PublishPark, ctl, registry, recv
  <1>9. ASSUME NEW p \in Publisher, PublishReturn(p)
        PROVE  TypeOK'
    BY <1>9 DEF TypeOK, PublishReturn, ctl, registry, chan, recv
  <1>10. ASSUME NEW q \in Pair, ReceiveDone(q)
         PROVE  TypeOK'
    BY <1>10 DEF TypeOK, ReceiveDone, ctl, registry, pubs
  <1>11. ASSUME NEW q \in Pair, Receive(q)
         PROVE  TypeOK'
    <2>1. /\ Tail(data[q]) \in Seq(Order)
          /\ Head(data[q]) \in Order
          /\ Len(Tail(data[q])) = Len(data[q]) - 1
          /\ Len(data[q]) \in Nat
      BY <1>11, TailFacts DEF TypeOK, Receive
    <2>2. \A x \in Pair : Len(data'[x]) <= Capacity
      BY <1>11, <2>1 DEF TypeOK, Receive
    <2> QED
      BY <1>11, <2>1, <2>2 DEF TypeOK, Receive, ctl, registry, pubs
  <1>12. ASSUME NEW q \in Pair, ReceiveAndUnpark(q)
         PROVE  TypeOK'
    <2> DEFINE p == Head(parked[q])
    <2>1. p \in Publisher /\ p = parked[q][1] /\ 1 \in 1..Len(parked[q])
      BY <1>12, TailFacts DEF TypeOK, ReceiveAndUnpark
    <2>2. pubOrder[p] \in Order
      BY <2>1 DEF OnceInv, Sleeping, Held, Holding
    <2>3. /\ Tail(data[q]) \in Seq(Order)
          /\ Head(data[q]) \in Order
          /\ Tail(parked[q]) \in Seq(Publisher)
          /\ Len(Tail(data[q])) = Len(data[q]) - 1
      BY <1>12, TailFacts DEF TypeOK, ReceiveAndUnpark
    <2>4. /\ Append(Tail(data[q]), pubOrder[p]) \in Seq(Order)
          /\ Len(Append(Tail(data[q]), pubOrder[p])) = Len(data[q])
          /\ Append(sent[q], pubOrder[p]) \in Seq(Order)
      BY <2>2, <2>3, AppendFacts DEF TypeOK
    <2> QED
      BY <1>12, <2>1, <2>2, <2>3, <2>4
      DEF TypeOK, ReceiveAndUnpark, ctl, registry
  <1>13. ASSUME NEW q \in Pair, DeliverLock(q)
         PROVE  TypeOK'
    BY <1>13, SMTT(30) DEF TypeOK, DeliverLock, ctl, registry, chan, pubs
  <1>14. ASSUME NEW q \in Pair, Deliver(q)
         PROVE  TypeOK'
    <2>1. subs[q][nextSub[q]] \in Subscription /\ current[q] \in Order
      BY <1>14 DEF TypeOK, Deliver
    <2>2. Append(got[subs[q][nextSub[q]]], current[q]) \in Seq(Order)
      BY <2>1, AppendFacts DEF TypeOK
    <2>3. nextSub[q] + 1 \in Nat \ {0}
      BY DEF TypeOK
    <2>4. /\ got' \in [Subscription -> Seq(Order)]
          /\ nextSub' \in [Pair -> Nat \ {0}]
      BY <1>14, <2>1, <2>2, <2>3 DEF TypeOK, Deliver
    <2> QED
      BY <1>14, <2>4
      DEF TypeOK, Deliver, ctl, registry, chan, pubs
  <1>15. ASSUME NEW q \in Pair, DeliverDone(q)
         PROVE  TypeOK'
    <2> handled[q] + 1 \in Nat
      BY DEF TypeOK
    <2>1. handled' \in [Pair -> Nat]
      BY <1>15 DEF TypeOK, DeliverDone
    <2>2. \A x \in Pair : recvPc'[x] \in {"rlock", "deliver"} => current'[x] \in Order
      BY <1>15 DEF TypeOK, DeliverDone
    <2>3. recvPc' \in [Pair -> {"off", "select", "rlock", "deliver", "exited"}]
      BY <1>15 DEF TypeOK, DeliverDone
    <2>4. UNCHANGED <<ctl, registry, chan, pubs, current, nextSub, got, sent>>
      BY <1>15 DEF DeliverDone
    <2> QED
      BY <2>1, <2>2, <2>3, <2>4 DEF TypeOK, ctl, registry, chan, pubs
  <1>16. CASE Start
    BY <1>16 DEF TypeOK, Start, registry, chan, pubs
  <1>17. CASE Stop
    BY <1>17 DEF TypeOK, Stop, registry, recv
  <1>18. CASE UNCHANGED vars
    BY <1>18 DEF TypeOK, vars, ctl, registry, chan, pubs, recv
  <1> QED
    BY <1>1, <1>2, <1>3, <1>4, <1>5, <1>6, <1>7, <1>8, <1>9, <1>10, <1>11,
       <1>12, <1>13, <1>14, <1>15, <1>16, <1>17, <1>18
    DEF Next, SubscribeStep, PublishStep, ReceiveStep

-----------------------------------------------------------------------------
(* An order has one holder until it is sent, and is sent once. *)

LEMMA SleepersArePublishers ==
  ASSUME TypeOK
  PROVE  \A y \in Pair : \A k \in 1..Len(parked[y]) : parked[y][k] \in Publisher
<1> SUFFICES ASSUME NEW y \in Pair, NEW k \in 1..Len(parked[y])
             PROVE  parked[y][k] \in Publisher
  OBVIOUS
<1>1. parked[y] \in Seq(Publisher)
  BY DEF TypeOK
<1> QED
  BY <1>1

LEMMA OnceInit == Init => OnceInv
  <1> SUFFICES ASSUME Init
               PROVE  OnceInv
    OBVIOUS
  <1>1. SentOnce /\ Sleeping
    BY DEF Init, SentOnce, Sleeping
  <1>2. Held
    BY DEF Init, Held, Holding
  <1> QED
    BY <1>1, <1>2 DEF OnceInv

LEMMA OnceFrame ==
  ASSUME OnceInv, UNCHANGED <<parked, pubPc, pubOrder, issued, sent>>
  PROVE  OnceInv'
  BY DEF OnceInv, SentOnce, Held, Holding, Sleeping

\* A publisher that lets go of its order, or never had one, disturbs nothing.
LEMMA OncePublisher ==
  ASSUME TypeOK, OnceInv, NEW p \in Publisher,
         \/ PublishLookup(p)
         \/ PublishAbandon(p)
         \/ PublishPanic(p)
         \/ PublishReturn(p)
  PROVE  OnceInv'
  <1>1. CASE PublishPanic(p)
    BY <1>1, OnceFrame DEF PublishPanic, chan, pubs
  <1>2. CASE PublishLookup(p) \/ PublishAbandon(p) \/ PublishReturn(p)
    <2>1. /\ UNCHANGED <<parked, pubOrder, issued, sent>>
          /\ pubPc[p] # "parked"
          /\ Holding(p)' => Holding(p)
          /\ \A r \in Publisher : r # p => pubPc'[r] = pubPc[r]
      BY <1>2 DEF TypeOK, PublishLookup, PublishAbandon, PublishReturn,
                 Holding, chan
    <2>2. SentOnce'
      BY <2>1 DEF OnceInv, SentOnce
    <2>3. Held'
      BY <2>1 DEF OnceInv, Held, Holding
    <2>4. Sleeping'
      BY <2>1 DEF TypeOK, OnceInv, Sleeping
    <2> QED
      BY <2>2, <2>3, <2>4 DEF OnceInv
  <1> QED
    BY <1>1, <1>2

LEMMA OncePublish ==
  ASSUME TypeOK, OnceInv, NEW p \in Publisher, NEW o \in Order, Publish(p, o)
  PROVE  OnceInv'
  <1>1. /\ UNCHANGED <<parked, sent>>
        /\ pubPc[p] = "idle"
        /\ issued[o] = "not" /\ issued'[o] # "not"
        /\ \A x \in Order : x # o => issued'[x] = issued[x]
        /\ pubOrder'[p] = o
        /\ \A r \in Publisher : r # p =>
             pubPc'[r] = pubPc[r] /\ pubOrder'[r] = pubOrder[r]
    BY DEF Publish, TypeOK, chan
  <1>2. \A q \in Pair : \A i \in 1..Len(sent[q]) : sent[q][i] \in Order
    BY DEF TypeOK
  <1>3. SentOnce'
    BY <1>1, <1>2 DEF OnceInv, SentOnce
  <1>4. \A q \in Pair : \A i \in 1..Len(sent[q]) : sent[q][i] # o
    BY <1>1 DEF OnceInv, SentOnce
  <1>5. \A r \in Publisher : r # p /\ Holding(r)' => pubOrder'[r] # o
    BY <1>1 DEF OnceInv, Held, Holding
  <1>6. PairOf[o] \in Pair
    BY OrderFeedAssumption
  <1>7. Held'
    <2> SUFFICES ASSUME NEW r \in Publisher, Holding(r)'
                 PROVE  /\ pubOrder'[r] \in Order
                        /\ issued'[pubOrder'[r]] # "not"
                        /\ \A i \in 1..Len(sent'[PairOf[pubOrder'[r]]]) :
                             sent'[PairOf[pubOrder'[r]]][i] # pubOrder'[r]
                        /\ \A t \in Publisher :
                             Holding(t)' /\ pubOrder'[t] = pubOrder'[r] => t = r
      BY DEF Held, Holding
    <2>1. CASE r = p
      BY <1>1, <1>4, <1>5, <1>6, <2>1
    <2>2. CASE r # p
      BY <1>1, <1>5, <2>2 DEF OnceInv, Held, Holding
    <2> QED
      BY <2>1, <2>2
  <1>8. \A q \in Pair : \A i \in 1..Len(parked[q]) :
          parked[q][i] \in Publisher /\ parked[q][i] # p
    BY <1>1, SleepersArePublishers DEF OnceInv, Sleeping
  <1>9. Sleeping'
    BY <1>1, <1>8 DEF OnceInv, Sleeping
  <1> QED
    BY <1>3, <1>7, <1>9 DEF OnceInv

\* A channel accepts the order that p holds, and p holds it no more.
LEMMA OnceAccept ==
  ASSUME TypeOK, OnceInv, NEW p \in Publisher, Holding(p), ~Holding(p)',
         UNCHANGED <<pubOrder, issued>>,
         \A r \in Publisher : r # p => pubPc'[r] = pubPc[r],
         sent' = [sent EXCEPT ![PairOf[pubOrder[p]]] =
                    Append(@, pubOrder[p])]
  PROVE  SentOnce' /\ Held'
  <1> DEFINE o == pubOrder[p]
             q == PairOf[o]
             n == Len(sent[q])
  <1>1. /\ o \in Order
        /\ issued[o] # "not"
        /\ \A i \in 1..Len(sent[q]) : sent[q][i] # o
        /\ \A r \in Publisher : Holding(r) /\ pubOrder[r] = o => r = p
    BY DEF OnceInv, Held
  <1>2. q \in Pair /\ n \in Nat /\ sent[q] \in Seq(Order)
    BY <1>1, OrderFeedAssumption DEF TypeOK
  <1>3. /\ Len(sent'[q]) = n + 1
        /\ sent'[q][n + 1] = o
        /\ \A i \in 1..n : sent'[q][i] = sent[q][i]
        /\ \A x \in Pair : x # q => sent'[x] = sent[x]
    BY <1>1, <1>2, AppendFacts DEF TypeOK
  <1>4. \A i \in 1..Len(sent'[q]) : i = n + 1 \/ i \in 1..n
    BY <1>2, <1>3
  <1> HIDE DEF o, q, n
  <1>5. SentOnce'
    <2> SUFFICES ASSUME NEW x \in Pair, NEW i \in 1..Len(sent'[x])
                 PROVE  /\ PairOf[sent'[x][i]] = x
                        /\ issued[sent'[x][i]] # "not"
                        /\ \A j \in 1..Len(sent'[x]) :
                             sent'[x][i] = sent'[x][j] => i = j
      BY DEF SentOnce
    <2>1. CASE x # q
      <3>1. sent'[x] = sent[x] /\ i \in 1..Len(sent[x])
        BY <1>3, <2>1
      <3>2. /\ PairOf[sent[x][i]] = x
            /\ issued[sent[x][i]] # "not"
            /\ \A j \in 1..Len(sent[x]) : sent[x][i] = sent[x][j] => i = j
        BY <3>1 DEF OnceInv, SentOnce
      <3> QED
        BY <3>1, <3>2
    <2>2. CASE x = q
      BY <1>1, <1>2, <1>3, <1>4, <2>2 DEF OnceInv, SentOnce, q
    <2> QED
      BY <2>1, <2>2
  <1>6. Held'
    <2> SUFFICES ASSUME NEW r \in Publisher, Holding(r)'
                 PROVE  /\ pubOrder[r] \in Order
                        /\ issued[pubOrder[r]] # "not"
                        /\ \A i \in 1..Len(sent'[PairOf[pubOrder[r]]]) :
                             sent'[PairOf[pubOrder[r]]][i] # pubOrder[r]
                        /\ \A t \in Publisher :
                             Holding(t)' /\ pubOrder[t] = pubOrder[r] => t = r
      BY DEF Held, Holding
    <2>1. r # p /\ Holding(r)
      BY DEF Holding
    <2>2. /\ pubOrder[r] \in Order
          /\ issued[pubOrder[r]] # "not"
          /\ \A i \in 1..Len(sent[PairOf[pubOrder[r]]]) :
               sent[PairOf[pubOrder[r]]][i] # pubOrder[r]
          /\ \A t \in Publisher :
               Holding(t) /\ pubOrder[t] = pubOrder[r] => t = r
      BY <2>1 DEF OnceInv, Held
    <2>3. pubOrder[r] # o /\ PairOf[pubOrder[r]] \in Pair
      BY <1>1, <2>1, <2>2, OrderFeedAssumption
    <2>4. \A i \in 1..Len(sent'[PairOf[pubOrder[r]]]) :
            sent'[PairOf[pubOrder[r]]][i] # pubOrder[r]
      BY <1>2, <1>3, <1>4, <2>2, <2>3
    <2>5. \A t \in Publisher :
            Holding(t)' /\ pubOrder[t] = pubOrder[r] => t = r
      BY <2>2 DEF Holding
    <2> QED
      BY <2>2, <2>4, <2>5
  <1> QED
    BY <1>5, <1>6

LEMMA OnceSend ==
  ASSUME TypeOK, OnceInv, NEW p \in Publisher, PublishSend(p)
  PROVE  OnceInv'
  <1>1. /\ Holding(p) /\ ~Holding(p)'
        /\ pubPc[p] # "parked"
        /\ \A r \in Publisher : r # p => pubPc'[r] = pubPc[r]
        /\ UNCHANGED <<parked, pubOrder, issued>>
    BY DEF TypeOK, PublishSend, Holding
  <1>2. SentOnce' /\ Held'
    BY <1>1, OnceAccept DEF PublishSend
  <1>3. Sleeping'
    BY <1>1 DEF TypeOK, OnceInv, Sleeping
  <1> QED
    BY <1>2, <1>3 DEF OnceInv

LEMMA OncePark ==
  ASSUME TypeOK, OnceInv, NEW p \in Publisher, PublishPark(p)
  PROVE  OnceInv'
  <1> DEFINE q == PairOf[pubOrder[p]]
             n == Len(parked[q])
  <1>1. /\ pubPc[p] = "select" /\ pubPc'[p] = "parked"
        /\ \A r \in Publisher : r # p => pubPc'[r] = pubPc[r]
        /\ UNCHANGED <<pubOrder, issued, sent>>
        /\ parked' = [parked EXCEPT ![q] = Append(@, p)]
    BY DEF TypeOK, PublishPark
  <1>2. SentOnce'
    BY <1>1 DEF OnceInv, SentOnce
  <1>3. \A r \in Publisher : Holding(r)' <=> Holding(r)
    BY <1>1 DEF Holding
  <1>4. Held'
    BY <1>1, <1>3 DEF OnceInv, Held
  <1>5. pubOrder[p] \in Order
    BY <1>1 DEF OnceInv, Held, Holding
  <1>6. q \in Pair /\ n \in Nat /\ parked[q] \in Seq(Publisher)
    BY <1>5, OrderFeedAssumption DEF TypeOK
  <1>7. \A x \in Pair : \A i \in 1..Len(parked[x]) :
          /\ parked[x][i] \in Publisher
          /\ parked[x][i] # p
          /\ pubPc'[parked[x][i]] = "parked"
          /\ PairOf[pubOrder[parked[x][i]]] = x
    BY <1>1, SleepersArePublishers DEF OnceInv, Sleeping
  <1>8. /\ Len(parked'[q]) = n + 1
        /\ parked'[q][n + 1] = p
        /\ \A i \in 1..n : parked'[q][i] = parked[q][i]
        /\ \A x \in Pair : x # q => parked'[x] = parked[x]
    BY <1>1, <1>6, AppendFacts DEF TypeOK
  <1>9. \A i \in 1..Len(parked'[q]) : i = n + 1 \/ i \in 1..n
    BY <1>6, <1>8
  <1> HIDE DEF n
  <1>10. Sleeping'
    <2>0. pubOrder' = pubOrder
      BY <1>1
    <2> SUFFICES ASSUME NEW x \in Pair, NEW i \in 1..Len(parked'[x])
                 PROVE  /\ pubPc'[parked'[x][i]] = "parked"
                        /\ PairOf[pubOrder[parked'[x][i]]] = x
                        /\ \A j \in 1..Len(parked'[x]) :
                             parked'[x][i] = parked'[x][j] => i = j
      BY <2>0 DEF Sleeping
    <2>1. CASE x # q
      <3>1. parked'[x] = parked[x] /\ i \in 1..Len(parked[x])
        BY <1>8, <2>1
      <3> QED
        BY <1>7, <3>1 DEF OnceInv, Sleeping
    <2>2. CASE x = q
      <3>1. \A k, j \in 1..n : parked[q][k] = parked[q][j] => k = j
        BY <1>6 DEF OnceInv, Sleeping, n
      <3>2. \A k \in 1..n : parked[q][k] # p /\ pubPc'[parked[q][k]] = "parked"
        BY <1>6, <1>7 DEF n
      <3>3. CASE i = n + 1
        <4>1. parked'[q][i] = p /\ PairOf[pubOrder[p]] = q
          BY <1>8, <3>3
        <4>2. \A j \in 1..n : parked'[q][j] # p
          BY <1>8, <3>2
        <4> QED
          BY <1>1, <1>9, <2>2, <3>3, <4>1, <4>2
      <3>4. CASE i \in 1..n
        <4>1. parked'[q][i] = parked[q][i] /\ PairOf[pubOrder[parked[q][i]]] = q
          BY <1>6, <1>7, <1>8, <3>4 DEF n
        <4> QED
          BY <1>8, <1>9, <2>2, <3>1, <3>2, <3>4, <4>1
      <3> QED
        BY <1>9, <2>2, <3>3, <3>4
    <2> QED
      BY <2>1, <2>2
  <1> QED
    BY <1>2, <1>4, <1>10 DEF OnceInv

LEMMA OnceStop ==
  ASSUME TypeOK, OnceInv, Stop
  PROVE  OnceInv'
  <1>1. /\ UNCHANGED <<pubOrder, issued, sent>>
        /\ \A r \in Publisher : Holding(r)' => Holding(r)
        /\ \A q \in Pair : Len(parked'[q]) = 0
    BY DEF Stop, TypeOK, Holding
  <1>2. SentOnce' /\ Sleeping'
    BY <1>1 DEF OnceInv, SentOnce, Sleeping
  <1>3. Held'
    BY <1>1 DEF OnceInv, Held
  <1> QED
    BY <1>2, <1>3 DEF OnceInv

LEMMA OnceUnpark ==
  ASSUME TypeOK, OnceInv, NEW q \in Pair, ReceiveAndUnpark(q)
  PROVE  OnceInv'
  <1>0. PICK p \in Publisher : p = Head(parked[q])
    BY TailFacts DEF TypeOK, ReceiveAndUnpark
  <1>1. /\ p = parked[q][1]
        /\ Len(Tail(parked[q])) = Len(parked[q]) - 1
        /\ Len(parked[q]) \in Nat /\ Len(parked[q]) > 0
        /\ \A i \in 1..Len(Tail(parked[q])) :
             Tail(parked[q])[i] = parked[q][i + 1]
    BY <1>0, TailFacts DEF TypeOK, ReceiveAndUnpark
  <1>2. pubPc[p] = "parked" /\ PairOf[pubOrder[p]] = q
    BY <1>1 DEF OnceInv, Sleeping
  <1>3. /\ pubPc' = [pubPc EXCEPT ![p] = "return"]
        /\ sent' = [sent EXCEPT ![q] = Append(@, pubOrder[p])]
        /\ parked' = [parked EXCEPT ![q] = Tail(@)]
        /\ UNCHANGED <<pubOrder, issued>>
    BY <1>0 DEF ReceiveAndUnpark
  <1>4. /\ pubPc'[p] = "return"
        /\ \A r \in Publisher : r # p => pubPc'[r] = pubPc[r]
    BY <1>1, <1>3 DEF TypeOK
  <1>5. SentOnce' /\ Held'
    <2>1. Holding(p) /\ ~Holding(p)'
      <3>1. Holding(p)
        BY <1>2 DEF Holding
      <3>2. ~Holding(p)'
        BY <1>4 DEF Holding
      <3> QED
        BY <3>1, <3>2
    <2>2. sent' = [sent EXCEPT ![PairOf[pubOrder[p]]] = Append(@, pubOrder[p])]
      BY <1>2, <1>3
    <2> QED
      BY <1>1, <1>3, <1>4, <2>1, <2>2, OnceAccept
  <1>6. Sleeping'
    <2>0. pubOrder' = pubOrder
      BY <1>3
    <2> SUFFICES ASSUME NEW x \in Pair, NEW i \in 1..Len(parked'[x])
                 PROVE  /\ pubPc'[parked'[x][i]] = "parked"
                        /\ PairOf[pubOrder[parked'[x][i]]] = x
                        /\ \A j \in 1..Len(parked'[x]) :
                             parked'[x][i] = parked'[x][j] => i = j
      BY <2>0 DEF Sleeping
    <2>1. \A y \in Pair : \A k \in 1..Len(parked[y]) :
            /\ parked[y][k] \in Publisher
            /\ pubPc[parked[y][k]] = "parked"
            /\ PairOf[pubOrder[parked[y][k]]] = y
            /\ \A j \in 1..Len(parked[y]) : parked[y][k] = parked[y][j] => k = j
      <3>1. \A y \in Pair : \A k \in 1..Len(parked[y]) : parked[y][k] \in Publisher
        BY SleepersArePublishers
      <3> QED
        BY <3>1 DEF OnceInv, Sleeping
    <2>2. CASE x # q
      <3>1. parked'[x] = parked[x] /\ i \in 1..Len(parked[x])
        BY <1>3, <2>2 DEF TypeOK
      <3>2. parked[x][i] # p
        BY <1>2, <2>1, <2>2, <3>1
      <3> QED
        BY <1>4, <2>1, <3>1, <3>2
    <2>3. CASE x = q
      <3>1. /\ Len(parked'[q]) = Len(parked[q]) - 1
            /\ \A j \in 1..Len(parked'[q]) : parked'[q][j] = parked[q][j + 1]
        BY <1>1, <1>3 DEF TypeOK
      <3>2. \A j \in 1..Len(parked'[q]) :
              /\ j \in Nat /\ j # 0
              /\ j + 1 \in 1..Len(parked[q])
        BY <1>1, <3>1
      <3>3. i + 1 # 1 /\ 1 \in 1..Len(parked[q])
        BY <1>1, <2>3, <3>2
      <3>4. parked[q][i + 1] # p
        BY <1>1, <2>1, <2>3, <3>2, <3>3
      <3>5. \A j \in 1..Len(parked'[q]) : i + 1 = j + 1 => i = j
        BY <2>3, <3>2
      <3>6. /\ parked[q][i + 1] \in Publisher
            /\ pubPc[parked[q][i + 1]] = "parked"
            /\ PairOf[pubOrder[parked[q][i + 1]]] = q
            /\ \A j \in 1..Len(parked[q]) :
                 parked[q][i + 1] = parked[q][j] => i + 1 = j
        BY <2>1, <2>3, <3>2
      <3>7. \A j \in 1..Len(parked'[q]) : parked'[q][i] = parked'[q][j] => i = j
        BY <2>3, <3>1, <3>2, <3>5, <3>6
      <3>8. parked'[q][i] = parked[q][i + 1]
        BY <2>3, <3>1
      <3> QED
        BY <1>4, <2>3, <3>4, <3>6, <3>7, <3>8
    <2> QED
      BY <2>2, <2>3
  <1> QED
    BY <1>5, <1>6 DEF OnceInv

LEMMA OnceNext == TypeOK /\ OnceInv /\ [Next]_vars => OnceInv'
  <1> SUFFICES ASSUME TypeOK, OnceInv, [Next]_vars
               PROVE  OnceInv'
    OBVIOUS
  <1>1. ASSUME NEW s \in Subscription, SubscribeStep(s)
        PROVE  OnceInv'
    BY <1>1, OnceFrame
    DEF SubscribeStep, SubscribeLock, Subscribe, chan, pubs
  <1>2. ASSUME NEW p \in Publisher, NEW o \in Order, Publish(p, o)
        PROVE  OnceInv'
    BY <1>2, OncePublish
  <1>3. ASSUME NEW p \in Publisher, PublishStep(p)
        PROVE  OnceInv'
    BY <1>3, OncePublisher, OnceSend, OncePark DEF PublishStep
  <1>4. ASSUME NEW q \in Pair, ReceiveStep(q)
        PROVE  OnceInv'
    <2>1. CASE ReceiveAndUnpark(q)
      BY <2>1, OnceUnpark
    <2>2. CASE \/ ReceiveDone(q) \/ Receive(q) \/ DeliverLock(q)
               \/ Deliver(q) \/ DeliverDone(q)
      BY <2>2, OnceFrame
      DEF ReceiveDone, Receive, DeliverLock, Deliver, DeliverDone, chan, pubs
    <2> QED
      BY <1>4, <2>1, <2>2 DEF ReceiveStep
  <1>5. CASE Start
    BY <1>5, OnceFrame DEF Start, chan, pubs
  <1>6. CASE Stop
    BY <1>6, OnceStop
  <1>7. CASE UNCHANGED vars
    BY <1>7, OnceFrame DEF vars, chan, pubs
  <1> QED
    BY <1>1, <1>2, <1>3, <1>4, <1>5, <1>6, <1>7 DEF Next

-----------------------------------------------------------------------------
(* Delivery: what a goroutine has handled, holds and still finds in its    *)
(* channel is what the channel accepted, and every consumer is as far as   *)
(* the goroutine, or one order ahead of it.                                *)

LEMMA AccountsSend ==
  ASSUME NEW S, NEW all \in Seq(S), NEW rest \in Seq(S), NEW done \in Nat,
         NEW f \in {0, 1}, NEW held, NEW o \in S,
         Accounts(all, done, f, held, rest)
  PROVE  Accounts(Append(all, o), done, f, held, Append(rest, o))
  <1> DEFINE m == Len(all)
             n == Len(rest)
  <1>1. /\ m \in Nat /\ n \in Nat /\ f \in Nat
        /\ m = done + f + n
        /\ f = 1 => held = all[done + 1]
        /\ \A i \in 1..n : rest[i] = all[done + f + i]
    BY DEF Accounts
  <1>2. /\ Len(Append(all, o)) = m + 1 /\ Len(Append(rest, o)) = n + 1
        /\ Append(all, o)[m + 1] = o /\ Append(rest, o)[n + 1] = o
        /\ \A i \in 1..m : Append(all, o)[i] = all[i]
        /\ \A i \in 1..n : Append(rest, o)[i] = rest[i]
    BY AppendFacts
  <1> HIDE DEF m, n
  <1>3. f = 1 => held = Append(all, o)[done + 1]
    BY <1>1, <1>2
  <1>4. ASSUME NEW i \in 1..(n + 1)
        PROVE  Append(rest, o)[i] = Append(all, o)[done + f + i]
    <2>1. CASE i = n + 1
      BY <1>1, <1>2, <2>1
    <2>2. CASE i \in 1..n
      <3>1. done + f + i \in 1..m
        BY <1>1, <2>2
      <3> QED
        BY <1>1, <1>2, <2>2, <3>1
    <2>3. i = n + 1 \/ i \in 1..n
      BY <1>1
    <2> QED
      BY <2>1, <2>2, <2>3
  <1>5. Len(Append(all, o)) = done + f + Len(Append(rest, o))
    BY <1>1, <1>2
  <1> QED
    BY <1>2, <1>3, <1>4, <1>5 DEF Accounts

LEMMA AccountsTake ==
  ASSUME NEW S, NEW all \in Seq(S), NEW rest \in Seq(S), NEW done \in Nat,
         NEW held, rest # <<>>,
         Accounts(all, done, 0, held, rest)
  PROVE  Accounts(all, done, 1, Head(rest), Tail(rest))
  <1> DEFINE n == Len(rest)
  <1>1. /\ n \in Nat /\ n > 0 /\ Head(rest) = rest[1] /\ Len(Tail(rest)) = n - 1
        /\ \A i \in 1..(n - 1) : Tail(rest)[i] = rest[i + 1]
    BY TailFacts
  <1>2. /\ Len(all) = done + n
        /\ \A i \in 1..n : rest[i] = all[done + i]
    BY <1>1 DEF Accounts
  <1> HIDE DEF n
  <1>3. Head(rest) = all[done + 1]
    BY <1>1, <1>2
  <1>4. ASSUME NEW i \in 1..(n - 1)
        PROVE  Tail(rest)[i] = all[done + 1 + i]
    <2>1. i + 1 \in 1..n /\ done + (i + 1) = done + 1 + i
      BY <1>1
    <2> QED
      BY <1>1, <1>2, <2>1
  <1>5. Len(all) = done + 1 + Len(Tail(rest))
    BY <1>1, <1>2
  <1> QED
    BY <1>1, <1>3, <1>4, <1>5 DEF Accounts

LEMMA AccountsDone ==
  ASSUME NEW S, NEW all \in Seq(S), NEW rest \in Seq(S), NEW done \in Nat,
         NEW held, NEW next,
         Accounts(all, done, 1, held, rest)
  PROVE  Accounts(all, done + 1, 0, next, rest)
  <1>1. Len(all) = done + 1 + 0 + Len(rest)
    BY DEF Accounts
  <1>2. \A i \in 1..Len(rest) : rest[i] = all[done + 1 + 0 + i]
    BY DEF Accounts
  <1> QED
    BY <1>1, <1>2 DEF Accounts

LEMMA DeliveryInit == Init => DeliveryInv
  <1> SUFFICES ASSUME Init
               PROVE  DeliveryInv
    OBVIOUS
  <1>1. TypeOK
    BY TypeInit
  <1>2. Dormant
    BY DEF Init, Dormant
  <1>3. Conserved
    <2> SUFFICES ASSUME NEW q \in Pair
                 PROVE  Accounts(sent[q], handled[q], InFlight(q), current[q],
                                 data[q])
      BY DEF Conserved
    <2>1. /\ sent[q] = <<>> /\ data[q] = <<>>
          /\ handled[q] = 0 /\ InFlight(q) = 0
      BY DEF Init, InFlight
    <2> QED
      BY <2>1 DEF Accounts
  <1>4. Placed
    BY DEF Init, Placed
  <1>5. Progress
    <2>1. \A q \in Pair : Len(subs[q]) = 0 /\ recvPc[q] = "off"
      BY DEF Init
    <2>2. \A q \in Pair : \A k \in 1..Len(subs[q]) : FALSE
      BY <2>1
    <2> QED
      BY <2>1, <2>2 DEF Progress
  <1>6. DeliveredInOrder
    BY DEF Init, DeliveredInOrder
  <1> QED
    BY <1>1, <1>2, <1>3, <1>4, <1>5, <1>6 DEF DeliveryInv

\* The parts of DeliveryInv other than TypeOK.
Delivering ==
  /\ Dormant
  /\ Conserved
  /\ Placed
  /\ Progress
  /\ DeliveredInOrder

LEMMA DeliveryFrame ==
  ASSUME TypeOK, Delivering, Dormant',
         UNCHANGED <<subs, joined, data, sent, handled, current, nextSub, got>>,
         \A q \in Pair : InFlight(q)' = InFlight(q),
         \A q \in Pair : recvPc'[q] = "deliver" <=> recvPc[q] = "deliver",
         \A s \in Subscription : subPc'[s] = "done" <=> subPc[s] = "done"
  PROVE  Delivering'
  <1>1. Conserved'
    BY DEF Delivering, Conserved
  <1>2. Placed'
    <2>1. \A s \in Subscription :
            IF subPc'[s] = "done"
              THEN \E k \in 1..Len(subs[PairOf[s]]) : subs[PairOf[s]][k] = s
              ELSE joined[s] = 0 /\ got[s] = <<>>
      BY DEF Delivering, Placed
    <2>2. \A q \in Pair : \A k \in 1..Len(subs[q]) :
            /\ PairOf[subs[q][k]] = q
            /\ subPc'[subs[q][k]] = "done"
            /\ \A j \in 1..Len(subs[q]) : subs[q][j] = subs[q][k] => j = k
      <3>1. \A q \in Pair : \A k \in 1..Len(subs[q]) : subs[q][k] \in Subscription
        BY DEF TypeOK
      <3> QED
        BY <3>1 DEF Delivering, Placed
    <2> QED
      BY <2>1, <2>2 DEF Placed
  <1>3. Progress'
    BY DEF Delivering, Progress, Ahead
  <1>4. DeliveredInOrder'
    BY DEF Delivering, DeliveredInOrder
  <1> QED
    BY <1>1, <1>2, <1>3, <1>4 DEF Delivering

LEMMA DeliverySubscribeLock ==
  ASSUME TypeOK, Delivering, NEW s \in Subscription, SubscribeLock(s)
  PROVE  Delivering'
  <1>1. /\ UNCHANGED <<subs, joined, data, sent, handled, current, nextSub, got>>
        /\ UNCHANGED <<recvPc, started>>
        /\ \A x \in Subscription : subPc'[x] = "done" <=> subPc[x] = "done"
    BY DEF SubscribeLock, TypeOK, ctl, chan, recv
  <1>2. \A q \in Pair : InFlight(q)' = InFlight(q)
    BY <1>1 DEF InFlight
  <1>3. Dormant'
    BY <1>1 DEF Delivering, Dormant
  <1> QED
    BY <1>1, <1>2, <1>3, DeliveryFrame

\* A publisher that sends nothing, and Stop.
LEMMA DeliveryOther ==
  ASSUME TypeOK, Delivering,
         UNCHANGED <<started, subs, subPc, joined, data, recvPc, current,
                     nextSub, handled, got, sent>>
  PROVE  Delivering'
  <1>1. \A q \in Pair : InFlight(q)' = InFlight(q)
    BY DEF InFlight
  <1>2. Dormant'
    BY DEF Delivering, Dormant
  <1> QED
    BY <1>1, <1>2, DeliveryFrame

LEMMA DeliveryStart ==
  ASSUME TypeOK, Delivering, Start
  PROVE  Delivering'
  <1>1. /\ UNCHANGED <<subs, joined, data, sent, handled, current, nextSub, got>>
        /\ UNCHANGED subPc
        /\ started'
        /\ \A q \in Pair : recvPc[q] = "off" /\ recvPc'[q] \in {"off", "select"}
    BY DEF Start, Delivering, Dormant, registry, chan
  <1>2. \A q \in Pair : InFlight(q)' = InFlight(q)
    BY <1>1 DEF InFlight
  <1>3. Dormant'
    BY <1>1 DEF Dormant
  <1>4. \A q \in Pair : recvPc'[q] = "deliver" <=> recvPc[q] = "deliver"
    BY <1>1
  <1> QED
    BY <1>1, <1>2, <1>3, <1>4, DeliveryFrame

LEMMA DeliveryReceiveDone ==
  ASSUME TypeOK, Delivering, NEW q \in Pair, ReceiveDone(q)
  PROVE  Delivering'
  <1>1. /\ UNCHANGED <<subs, joined, data, sent, handled, current, nextSub, got>>
        /\ UNCHANGED <<subPc, started>>
        /\ recvPc[q] = "select" /\ recvPc'[q] = "exited"
        /\ \A x \in Pair : x # q => recvPc'[x] = recvPc[x]
    BY DEF ReceiveDone, TypeOK, ctl, registry
  <1>2. \A x \in Pair : InFlight(x)' = InFlight(x)
    BY <1>1 DEF InFlight
  <1>3. Dormant'
    BY <1>1 DEF Delivering, Dormant
  <1>4. \A x \in Pair : recvPc'[x] = "deliver" <=> recvPc[x] = "deliver"
    BY <1>1
  <1> QED
    BY <1>1, <1>2, <1>3, <1>4, DeliveryFrame

\* What consumers got stays in place when a channel accepts more.
LEMMA DeliveryGrows ==
  ASSUME DeliveredInOrder, UNCHANGED <<joined, got>>,
         TypeOK,
         \A q \in Pair : /\ Len(sent[q]) <= Len(sent'[q])
                         /\ Len(sent'[q]) \in Nat
                         /\ \A i \in 1..Len(sent[q]) : sent'[q][i] = sent[q][i]
  PROVE  DeliveredInOrder'
  <1> SUFFICES ASSUME NEW s \in Subscription
               PROVE  /\ joined[s] + Len(got[s]) <= Len(sent'[PairOf[s]])
                      /\ \A i \in 1..Len(got[s]) :
                           got[s][i] = sent'[PairOf[s]][joined[s] + i]
    BY DEF DeliveredInOrder
  <1>1. /\ PairOf[s] \in Pair
        /\ joined[s] \in Nat /\ Len(got[s]) \in Nat
        /\ Len(sent[PairOf[s]]) \in Nat
    BY OrderFeedAssumption DEF TypeOK
  <1>2. joined[s] + Len(got[s]) <= Len(sent[PairOf[s]])
    BY DEF DeliveredInOrder
  <1>3. \A i \in 1..Len(got[s]) :
          /\ joined[s] + i \in 1..Len(sent[PairOf[s]])
          /\ got[s][i] = sent[PairOf[s]][joined[s] + i]
    BY <1>1, <1>2, SMTT(30) DEF DeliveredInOrder
  <1>4. PICK m \in Nat : m = joined[s] + Len(got[s])
    BY <1>1
  <1>5. m <= Len(sent'[PairOf[s]])
    BY <1>1, <1>2, <1>4
  <1>6. \A i \in 1..Len(got[s]) :
          got[s][i] = sent'[PairOf[s]][joined[s] + i]
    BY <1>1, <1>3
  <1> QED
    BY <1>4, <1>5, <1>6

LEMMA SentGrows ==
  ASSUME TypeOK, NEW o \in Order, NEW q \in Pair,
         sent' = [sent EXCEPT ![q] = Append(@, o)]
  PROVE  \A x \in Pair : /\ Len(sent[x]) <= Len(sent'[x])
                         /\ Len(sent'[x]) \in Nat
                         /\ \A i \in 1..Len(sent[x]) : sent'[x][i] = sent[x][i]
  <1> TAKE x \in Pair
  <1>1. sent[x] \in Seq(Order) /\ Len(sent[x]) \in Nat
    BY DEF TypeOK
  <1>2. CASE x = q
    <2>1. sent'[x] = Append(sent[x], o)
      BY <1>2 DEF TypeOK
    <2>2. /\ Len(sent'[x]) = Len(sent[x]) + 1
          /\ \A i \in 1..Len(sent[x]) : sent'[x][i] = sent[x][i]
      BY <1>1, <2>1, AppendFacts
    <2> QED
      BY <1>1, <2>2
  <1>3. CASE x # q
    <2>1. sent'[x] = sent[x]
      BY <1>3 DEF TypeOK
    <2> QED
      BY <1>1, <2>1
  <1> QED
    BY <1>2, <1>3

\* A channel accepts the order that p holds.
LEMMA DeliverySend ==
  ASSUME TypeOK, OnceInv, Delivering, NEW p \in Publisher, PublishSend(p)
  PROVE  Delivering'
  <1>1. PICK o \in Order, q \in Pair : o = pubOrder[p] /\ q = PairOf[o]
    BY OrderFeedAssumption DEF PublishSend, OnceInv, Held, Holding
  <1>2. /\ UNCHANGED <<started, subs, subPc, joined, recvPc, current, nextSub,
                       handled, got>>
        /\ data' = [data EXCEPT ![q] = Append(@, o)]
        /\ sent' = [sent EXCEPT ![q] = Append(@, o)]
    BY <1>1 DEF PublishSend, ctl, registry, recv
  <1>3. Conserved'
    <2> SUFFICES ASSUME NEW x \in Pair
                 PROVE  Accounts(sent'[x], handled'[x], InFlight(x)',
                                 current'[x], data'[x])
      BY DEF Conserved
    <2>1. /\ Accounts(sent[x], handled[x], InFlight(x), current[x], data[x])
          /\ InFlight(x) \in {0, 1} /\ InFlight(x)' = InFlight(x)
          /\ sent[x] \in Seq(Order) /\ data[x] \in Seq(Order)
          /\ handled[x] \in Nat
          /\ handled'[x] = handled[x] /\ current'[x] = current[x]
      BY <1>2 DEF Delivering, Conserved, InFlight, TypeOK
    <2>2. CASE x = q
      <3>1. /\ sent'[x] = Append(sent[x], o)
            /\ data'[x] = Append(data[x], o)
        BY <1>2, <2>2 DEF TypeOK
      <3> QED
        BY <2>1, <3>1, AccountsSend
    <2>3. CASE x # q
      BY <1>2, <2>1, <2>3 DEF TypeOK
    <2> QED
      BY <2>2, <2>3
  <1>4. Placed' /\ Dormant'
    BY <1>2 DEF Delivering, Placed, Dormant
  <1>5. Progress'
    BY <1>2 DEF Delivering, Progress, Ahead
  <1>6. DeliveredInOrder'
    BY <1>1, <1>2, SentGrows, DeliveryGrows DEF Delivering
  <1> QED
    BY <1>3, <1>4, <1>5, <1>6 DEF Delivering

\* A goroutine takes an order and sends it to no one yet: InFlight becomes 1
\* and no consumer is ahead.
LEMMA DeliveryTaken ==
  ASSUME TypeOK, Delivering, NEW q \in Pair, recvPc[q] = "select",
         UNCHANGED <<started, subs, subPc, joined, nextSub, handled, got>>,
         recvPc' = [recvPc EXCEPT ![q] = "rlock"]
  PROVE  /\ Placed' /\ Progress' /\ Dormant'
         /\ InFlight(q) = 0 /\ InFlight(q)' = 1
         /\ \A x \in Pair : x # q => InFlight(x)' = InFlight(x)
  <1>1. recvPc'[q] = "rlock" /\ \A x \in Pair : x # q => recvPc'[x] = recvPc[x]
    BY DEF TypeOK
  <1>2. /\ InFlight(q) = 0 /\ InFlight(q)' = 1
        /\ \A x \in Pair : x # q => InFlight(x)' = InFlight(x)
    BY <1>1 DEF InFlight
  <1>3. Placed'
    BY DEF Delivering, Placed
  <1>4. Dormant'
    BY <1>1 DEF Delivering, Dormant
  <1>5. \A x \in Pair : recvPc'[x] = "deliver" <=> recvPc[x] = "deliver"
    BY <1>1
  <1>6. Progress'
    BY <1>5 DEF Delivering, Progress, Ahead
  <1> QED
    BY <1>2, <1>3, <1>4, <1>6

LEMMA DeliveryReceive ==
  ASSUME TypeOK, Delivering, NEW q \in Pair, Receive(q)
  PROVE  Delivering'
  <1>1. /\ UNCHANGED <<started, subs, subPc, joined, nextSub, handled, got, sent>>
        /\ recvPc[q] = "select"
        /\ recvPc' = [recvPc EXCEPT ![q] = "rlock"]
        /\ current' = [current EXCEPT ![q] = Head(data[q])]
        /\ data' = [data EXCEPT ![q] = Tail(@)]
        /\ data[q] # <<>>
    BY DEF Receive, ctl, registry
  <1>2. /\ Placed' /\ Progress' /\ Dormant'
        /\ InFlight(q) = 0 /\ InFlight(q)' = 1
        /\ \A x \in Pair : x # q => InFlight(x)' = InFlight(x)
    BY <1>1, DeliveryTaken
  <1>3. Conserved'
    <2> SUFFICES ASSUME NEW x \in Pair
                 PROVE  Accounts(sent'[x], handled'[x], InFlight(x)',
                                 current'[x], data'[x])
      BY DEF Conserved
    <2>1. /\ Accounts(sent[x], handled[x], InFlight(x), current[x], data[x])
          /\ sent[x] \in Seq(Order) /\ data[x] \in Seq(Order)
          /\ handled[x] \in Nat
          /\ handled'[x] = handled[x] /\ sent'[x] = sent[x]
      BY <1>1 DEF Delivering, Conserved, TypeOK
    <2>2. CASE x = q
      <3>1. /\ current'[x] = Head(data[x])
            /\ data'[x] = Tail(data[x])
            /\ data[x] # <<>>
        BY <1>1, <2>2 DEF TypeOK
      <3>2. Accounts(sent[x], handled[x], 0, current[x], data[x])
        BY <1>2, <2>1, <2>2
      <3>3. Accounts(sent[x], handled[x], 1, Head(data[x]), Tail(data[x]))
        BY <2>1, <3>1, <3>2, AccountsTake
      <3> QED
        BY <1>2, <2>1, <2>2, <3>1, <3>3
    <2>3. CASE x # q
      BY <1>1, <1>2, <2>1, <2>3 DEF TypeOK
    <2> QED
      BY <2>2, <2>3
  <1>4. DeliveredInOrder'
    BY <1>1 DEF Delivering, DeliveredInOrder
  <1> QED
    BY <1>2, <1>3, <1>4 DEF Delivering

LEMMA DeliveryUnpark ==
  ASSUME TypeOK, OnceInv, Delivering, NEW q \in Pair, ReceiveAndUnpark(q)
  PROVE  Delivering'
  <1>1. PICK o \in Order : o = pubOrder[Head(parked[q])]
    <2>1. /\ Head(parked[q]) = parked[q][1]
          /\ 1 \in 1..Len(parked[q])
          /\ Head(parked[q]) \in Publisher
      BY TailFacts DEF TypeOK, ReceiveAndUnpark
    <2> QED
      BY <2>1 DEF OnceInv, Sleeping, Held, Holding
  <1>2. /\ UNCHANGED <<started, subs, subPc, joined, nextSub, handled, got>>
        /\ recvPc[q] = "select"
        /\ recvPc' = [recvPc EXCEPT ![q] = "rlock"]
        /\ current' = [current EXCEPT ![q] = Head(data[q])]
        /\ data' = [data EXCEPT ![q] = Append(Tail(@), o)]
        /\ sent' = [sent EXCEPT ![q] = Append(@, o)]
        /\ data[q] # <<>>
    BY <1>1 DEF ReceiveAndUnpark, ctl, registry
  <1>3. /\ Placed' /\ Progress' /\ Dormant'
        /\ InFlight(q) = 0 /\ InFlight(q)' = 1
        /\ \A x \in Pair : x # q => InFlight(x)' = InFlight(x)
    BY <1>2, DeliveryTaken
  <1>4. Conserved'
    <2> SUFFICES ASSUME NEW x \in Pair
                 PROVE  Accounts(sent'[x], handled'[x], InFlight(x)',
                                 current'[x], data'[x])
      BY DEF Conserved
    <2>1. /\ Accounts(sent[x], handled[x], InFlight(x), current[x], data[x])
          /\ sent[x] \in Seq(Order) /\ data[x] \in Seq(Order)
          /\ handled[x] \in Nat
          /\ handled'[x] = handled[x]
      BY <1>2 DEF Delivering, Conserved, TypeOK
    <2>2. CASE x = q
      <3>1. /\ current'[x] = Head(data[x])
            /\ data'[x] = Append(Tail(data[x]), o)
            /\ sent'[x] = Append(sent[x], o)
            /\ data[x] # <<>>
        BY <1>2, <2>2 DEF TypeOK
      <3>2. Accounts(sent[x], handled[x], 0, current[x], data[x])
        BY <1>3, <2>1, <2>2
      <3>3. Accounts(sent[x], handled[x], 1, Head(data[x]), Tail(data[x]))
        BY <2>1, <3>1, <3>2, AccountsTake
      <3>4. Tail(data[x]) \in Seq(Order)
        BY <2>1, <3>1, TailFacts
      <3>5. Accounts(Append(sent[x], o), handled[x], 1, Head(data[x]),
                     Append(Tail(data[x]), o))
        BY <2>1, <3>3, <3>4, AccountsSend
      <3> QED
        BY <1>3, <2>1, <2>2, <3>1, <3>5
    <2>3. CASE x # q
      BY <1>2, <1>3, <2>1, <2>3 DEF TypeOK
    <2> QED
      BY <2>2, <2>3
  <1>5. DeliveredInOrder'
    BY <1>2, SentGrows, DeliveryGrows DEF Delivering
  <1> QED
    BY <1>3, <1>4, <1>5 DEF Delivering

\* The delivery loop starts at the first subscriber.
LEMMA DeliveryLock ==
  ASSUME TypeOK, Delivering, NEW q \in Pair, DeliverLock(q)
  PROVE  Delivering'
  <1>1. /\ UNCHANGED <<started, subs, subPc, joined, data, sent, current, handled,
                       got>>
        /\ recvPc[q] = "rlock" /\ recvPc'[q] = "deliver" /\ nextSub'[q] = 1
        /\ \A x \in Pair : x # q => /\ recvPc'[x] = recvPc[x]
                                   /\ nextSub'[x] = nextSub[x]
    BY DEF DeliverLock, TypeOK, ctl, registry, chan
  <1>2. \A x \in Pair : InFlight(x)' = InFlight(x)
    BY <1>1 DEF InFlight
  <1>3. Conserved'
    BY <1>1, <1>2 DEF Delivering, Conserved
  <1>4. Placed' /\ DeliveredInOrder'
    <2>1. Placed'
      BY <1>1 DEF Delivering, Placed
    <2>2. DeliveredInOrder'
      BY <1>1 DEF Delivering, DeliveredInOrder
    <2> QED
      BY <2>1, <2>2
  <1>5. Dormant'
    BY <1>1 DEF Delivering, Dormant
  <1>6. Progress'
    <2> SUFFICES ASSUME NEW x \in Pair
                 PROVE  /\ recvPc'[x] = "deliver" =>
                             nextSub'[x] \in 1..(Len(subs[x]) + 1)
                        /\ \A k \in 1..Len(subs[x]) :
                             joined[subs[x][k]] + Len(got[subs[x][k]])
                               = handled[x] + Ahead(x, k)'
      BY <1>1 DEF Progress, Ahead
    <2>1. Len(subs[x]) \in Nat
      BY DEF TypeOK
    <2>2. \A k \in 1..Len(subs[x]) : Ahead(x, k)' = Ahead(x, k)
      BY <1>1, <2>1 DEF Ahead
    <2>3. recvPc'[x] = "deliver" => nextSub'[x] \in 1..(Len(subs[x]) + 1)
      BY <1>1, <2>1 DEF Delivering, Progress
    <2> QED
      BY <2>2, <2>3 DEF Delivering, Progress
  <1> QED
    BY <1>3, <1>4, <1>5, <1>6 DEF Delivering

\* The consumer at place nextSub gets the order: it is now one ahead.
LEMMA DeliveryDeliver ==
  ASSUME TypeOK, Delivering, NEW q \in Pair, Deliver(q)
  PROVE  Delivering'
  <1>1. PICK n \in Nat \ {0} : n = nextSub[q]
    BY DEF TypeOK
  <1>2. PICK s \in Subscription : s = subs[q][n]
    BY <1>1 DEF TypeOK, Deliver
  <1>3. /\ UNCHANGED <<started, subs, subPc, joined, data, sent, current, handled,
                       recvPc>>
        /\ recvPc[q] = "deliver"
        /\ n \in 1..Len(subs[q])
        /\ nextSub' = [nextSub EXCEPT ![q] = n + 1]
        /\ got' = [got EXCEPT ![s] = Append(@, current[q])]
    BY <1>1, <1>2 DEF Deliver, TypeOK, ctl, registry, chan, pubs
  <1>4. /\ PairOf[s] = q /\ subPc[s] = "done"
        /\ \A k \in 1..Len(subs[q]) : subs[q][k] = s => k = n
        /\ \A x \in Pair : x # q => \A k \in 1..Len(subs[x]) : subs[x][k] # s
    BY <1>2, <1>3 DEF Delivering, Placed
  <1>5. /\ joined[s] \in Nat /\ got[s] \in Seq(Order) /\ Len(got[s]) \in Nat
        /\ current[q] \in Order /\ handled[q] \in Nat /\ Len(sent[q]) \in Nat
        /\ Len(data[q]) \in Nat
    BY <1>3, SMTT(30) DEF TypeOK
  <1>6. joined[s] + Len(got[s]) = handled[q]
    <2>1. Ahead(q, n) = 0
      BY <1>1 DEF Ahead
    <2> QED
      BY <1>2, <1>3, <1>5, <2>1 DEF Delivering, Progress
  <1>7. /\ Len(sent[q]) = handled[q] + 1 + Len(data[q])
        /\ current[q] = sent[q][handled[q] + 1]
    <2>1. InFlight(q) = 1
      BY <1>3 DEF InFlight
    <2> QED
      BY <2>1 DEF Delivering, Conserved, Accounts
  <1>8. /\ Len(got'[s]) = Len(got[s]) + 1
        /\ got'[s][Len(got[s]) + 1] = current[q]
        /\ \A i \in 1..Len(got[s]) : got'[s][i] = got[s][i]
        /\ \A t \in Subscription : t # s => got'[t] = got[t]
    BY <1>3, <1>5, AppendFacts DEF TypeOK
  <1>9. Conserved'
    <2>1. \A x \in Pair : InFlight(x)' = InFlight(x)
      BY <1>3 DEF InFlight
    <2> QED
      BY <1>3, <2>1 DEF Delivering, Conserved
  <1>10. Dormant'
    BY <1>3 DEF Delivering, Dormant
  <1>11. Placed'
    <2>1. \A t \in Subscription : subPc[t] # "done" => got'[t] = got[t]
      BY <1>4, <1>8
    <2>2. \A t \in Subscription :
            IF subPc[t] = "done"
              THEN \E k \in 1..Len(subs[PairOf[t]]) : subs[PairOf[t]][k] = t
              ELSE joined[t] = 0 /\ got[t] = <<>>
      BY DEF Delivering, Placed
    <2>3. \A t \in Subscription :
            IF subPc[t] = "done"
              THEN \E k \in 1..Len(subs[PairOf[t]]) : subs[PairOf[t]][k] = t
              ELSE joined[t] = 0 /\ got'[t] = <<>>
      BY <2>1, <2>2
    <2> QED
      BY <1>3, <2>3 DEF Delivering, Placed
  <1>12. Progress'
    <2> SUFFICES ASSUME NEW x \in Pair
                 PROVE  /\ recvPc[x] = "deliver" =>
                             nextSub'[x] \in 1..(Len(subs[x]) + 1)
                        /\ \A k \in 1..Len(subs[x]) :
                             joined[subs[x][k]] + Len(got'[subs[x][k]])
                               = handled[x] + Ahead(x, k)'
      BY <1>3 DEF Progress, Ahead
    <2>1. /\ Len(subs[x]) \in Nat
          /\ \A k \in 1..Len(subs[x]) : subs[x][k] \in Subscription
      BY DEF TypeOK
    <2>2. /\ recvPc[x] = "deliver" => nextSub[x] \in 1..(Len(subs[x]) + 1)
          /\ \A k \in 1..Len(subs[x]) :
               joined[subs[x][k]] + Len(got[subs[x][k]]) = handled[x] + Ahead(x, k)
      BY DEF Delivering, Progress
    <2>3. CASE x # q
      <3>1. nextSub'[x] = nextSub[x]
        BY <1>3, <2>3 DEF TypeOK
      <3>2. \A k \in 1..Len(subs[x]) :
              Ahead(x, k)' = Ahead(x, k) /\ got'[subs[x][k]] = got[subs[x][k]]
        BY <1>3, <1>4, <1>8, <2>1, <2>3, <3>1 DEF Ahead
      <3> QED
        BY <2>2, <3>1, <3>2
    <2>4. CASE x = q
      <3>1. nextSub'[q] = n + 1
        BY <1>3 DEF TypeOK
      <3>2. ASSUME NEW k \in 1..Len(subs[q])
            PROVE  joined[subs[q][k]] + Len(got'[subs[q][k]])
                     = handled[q] + Ahead(q, k)'
        <4>1. CASE k = n
          <5>1. Ahead(q, k)' = 1
            BY <1>3, <2>1, <2>4, <3>1, <4>1 DEF Ahead
          <5>2. joined[s] + Len(got'[s]) = handled[q] + 1
            BY <1>5, <1>6, <1>8
          <5> QED
            BY <1>2, <4>1, <5>1, <5>2
        <4>2. CASE k # n
          <5>1. Ahead(q, k)' = Ahead(q, k)
            BY <1>1, <1>3, <2>1, <2>4, <3>1, <4>2 DEF Ahead
          <5>2. subs[q][k] # s
            BY <1>4, <4>2
          <5> QED
            BY <1>8, <2>1, <2>2, <2>4, <5>1, <5>2
        <4> QED
          BY <4>1, <4>2
      <3>3. nextSub'[q] \in 1..(Len(subs[q]) + 1)
        BY <1>3, <2>1, <2>4, <3>1
      <3> QED
        BY <2>4, <3>2, <3>3
    <2> QED
      BY <2>3, <2>4
  <1>13. DeliveredInOrder'
    <2> SUFFICES ASSUME NEW t \in Subscription
                 PROVE  /\ joined[t] + Len(got'[t]) <= Len(sent[PairOf[t]])
                        /\ \A i \in 1..Len(got'[t]) :
                             got'[t][i] = sent[PairOf[t]][joined[t] + i]
      BY <1>3 DEF DeliveredInOrder
    <2>1. CASE t # s
      BY <1>8, <2>1 DEF Delivering, DeliveredInOrder
    <2>2. CASE t = s
      <3>1. joined[s] + Len(got'[s]) <= Len(sent[q])
        <4>1. joined[s] + Len(got'[s]) = handled[q] + 1
          BY <1>5, <1>6, <1>8
        <4>2. handled[q] + 1 <= Len(sent[q])
          BY <1>5, <1>7
        <4> QED
          BY <4>1, <4>2
      <3>2. \A i \in 1..Len(got[s]) : got[s][i] = sent[q][joined[s] + i]
        BY <1>4 DEF Delivering, DeliveredInOrder
      <3>3. got'[s][Len(got[s]) + 1] = sent[q][joined[s] + (Len(got[s]) + 1)]
        <4>1. joined[s] + (Len(got[s]) + 1) = handled[q] + 1
          BY <1>5, <1>6
        <4> QED
          BY <1>7, <1>8, <4>1
      <3>4. \A i \in 1..Len(got'[s]) :
              i \in 1..Len(got[s]) \/ i = Len(got[s]) + 1
        BY <1>5, <1>8
      <3> QED
        BY <1>4, <1>8, <2>2, <3>1, <3>2, <3>3, <3>4
    <2> QED
      BY <2>1, <2>2
  <1> QED
    BY <1>9, <1>10, <1>11, <1>12, <1>13 DEF Delivering

\* Every consumer was ahead: the goroutine catches up with them.
LEMMA DeliveryDone ==
  ASSUME TypeOK, Delivering, NEW q \in Pair, DeliverDone(q)
  PROVE  Delivering'
  <1>1. /\ UNCHANGED <<started, subs, subPc, joined, data, sent, current, nextSub,
                       got>>
        /\ recvPc[q] = "deliver" /\ recvPc'[q] = "select"
        /\ handled'[q] = handled[q] + 1
        /\ \A x \in Pair : x # q => /\ recvPc'[x] = recvPc[x]
                                   /\ handled'[x] = handled[x]
    BY DEF DeliverDone, TypeOK, ctl, registry, chan
  <1>2. /\ InFlight(q) = 1 /\ InFlight(q)' = 0
        /\ \A x \in Pair : x # q => InFlight(x)' = InFlight(x)
    BY <1>1 DEF InFlight
  <1>3. Conserved'
    <2> SUFFICES ASSUME NEW x \in Pair
                 PROVE  Accounts(sent'[x], handled'[x], InFlight(x)',
                                 current'[x], data'[x])
      BY DEF Conserved
    <2>1. /\ Accounts(sent[x], handled[x], InFlight(x), current[x], data[x])
          /\ sent[x] \in Seq(Order) /\ data[x] \in Seq(Order)
          /\ handled[x] \in Nat
      BY DEF Delivering, Conserved, TypeOK
    <2>2. CASE x = q
      BY <1>1, <1>2, <2>1, <2>2, AccountsDone
    <2>3. CASE x # q
      BY <1>1, <1>2, <2>1, <2>3
    <2> QED
      BY <2>2, <2>3
  <1>4. Placed'
    BY <1>1 DEF Delivering, Placed
  <1>5. DeliveredInOrder'
    BY <1>1 DEF Delivering, DeliveredInOrder
  <1>6. Dormant'
    BY <1>1 DEF Delivering, Dormant
  <1>7. Progress'
    <2> SUFFICES ASSUME NEW x \in Pair
                 PROVE  /\ recvPc'[x] = "deliver" =>
                             nextSub[x] \in 1..(Len(subs[x]) + 1)
                        /\ \A k \in 1..Len(subs[x]) :
                             joined[subs[x][k]] + Len(got[subs[x][k]])
                               = handled'[x] + Ahead(x, k)'
      BY <1>1 DEF Progress, Ahead
    <2>1. /\ Len(subs[x]) \in Nat /\ handled[x] \in Nat
          /\ nextSub[x] \in Nat
      BY DEF TypeOK
    <2>2. /\ recvPc[x] = "deliver" => nextSub[x] \in 1..(Len(subs[x]) + 1)
          /\ \A k \in 1..Len(subs[x]) :
               joined[subs[x][k]] + Len(got[subs[x][k]]) = handled[x] + Ahead(x, k)
      BY DEF Delivering, Progress
    <2>3. CASE x # q
      <3>1. \A k \in 1..Len(subs[x]) : Ahead(x, k)' = Ahead(x, k)
        BY <1>1, <2>3 DEF Ahead
      <3> QED
        BY <1>1, <2>2, <2>3, <3>1
    <2>4. CASE x = q
      <3>1. \A k \in 1..Len(subs[q]) : k < nextSub[q]
        BY <2>1, <2>4 DEF DeliverDone
      <3>2. \A k \in 1..Len(subs[q]) : Ahead(q, k) = 1 /\ Ahead(q, k)' = 0
        BY <1>1, <3>1 DEF Ahead
      <3>3. \A k \in 1..Len(subs[q]) :
              joined[subs[q][k]] + Len(got[subs[q][k]]) = handled'[q]
        BY <1>1, <2>2, <2>4, <3>2
      <3>4. handled'[q] + 0 = handled'[q]
        BY <1>1, <2>1, <2>4
      <3> QED
        BY <1>1, <2>4, <3>2, <3>3, <3>4
    <2> QED
      BY <2>3, <2>4
  <1> QED
    BY <1>3, <1>4, <1>5, <1>6, <1>7 DEF Delivering

\* A new subscription takes the last place and joins where the goroutine is.
LEMMA DeliverySubscribe ==
  ASSUME TypeOK, Delivering, NEW s \in Subscription, Subscribe(s)
  PROVE  Delivering'
  <1>1. PICK q \in Pair : q = PairOf[s]
    BY OrderFeedAssumption
  <1>2. PICK n \in Nat : n = Len(subs[q])
    BY DEF TypeOK
  <1>3. /\ UNCHANGED <<started, data, sent, current, nextSub, handled, got, recvPc>>
        /\ subPc[s] # "done" /\ subPc'[s] = "done"
        /\ joined'[s] = handled[q]
        /\ \A t \in Subscription : t # s => /\ subPc'[t] = subPc[t]
                                           /\ joined'[t] = joined[t]
        /\ subs' = [subs EXCEPT ![q] = Append(@, s)]
        /\ \A x \in Pair : recvPc[x] # "deliver"
    BY <1>1 DEF Subscribe, ReadLocked, TypeOK, ctl, chan, pubs, recv
  <1>4. /\ Len(subs'[q]) = n + 1 /\ subs'[q][n + 1] = s
        /\ \A k \in 1..n : subs'[q][k] = subs[q][k]
        /\ \A x \in Pair : x # q => subs'[x] = subs[x]
    <2>1. subs[q] \in Seq(Subscription) /\ subs'[q] = Append(subs[q], s)
      BY <1>3 DEF TypeOK
    <2>2. \A x \in Pair : x # q => subs'[x] = subs[x]
      BY <1>3 DEF TypeOK
    <2> QED
      BY <1>2, <2>1, <2>2, AppendFacts
  <1>5. \A k \in 1..Len(subs'[q]) : k = n + 1 \/ k \in 1..n
    BY <1>4
  <1>6. \A x \in Pair : \A k \in 1..Len(subs[x]) :
          /\ subs[x][k] \in Subscription
          /\ subs[x][k] # s
          /\ PairOf[subs[x][k]] = x
          /\ subPc[subs[x][k]] = "done"
          /\ \A j \in 1..Len(subs[x]) : subs[x][j] = subs[x][k] => j = k
    <2>1. \A x \in Pair : \A k \in 1..Len(subs[x]) : subs[x][k] \in Subscription
      BY DEF TypeOK
    <2> QED
      BY <1>3, <2>1 DEF Delivering, Placed
  <1>7. Conserved'
    <2>1. \A x \in Pair : InFlight(x)' = InFlight(x)
      BY <1>3 DEF InFlight
    <2> QED
      BY <1>3, <2>1 DEF Delivering, Conserved
  <1>8. Dormant'
    BY <1>3 DEF Delivering, Dormant
  <1>9. got[s] = <<>> /\ Len(got[s]) = 0
    BY <1>3 DEF Delivering, Placed
  <1>10. Placed'
    <2>1. ASSUME NEW t \in Subscription
          PROVE  IF subPc'[t] = "done"
                   THEN \E k \in 1..Len(subs'[PairOf[t]]) : subs'[PairOf[t]][k] = t
                   ELSE joined'[t] = 0 /\ got[t] = <<>>
      <3>1. CASE t = s
        <4>1. n + 1 \in 1..Len(subs'[q])
          BY <1>4
        <4> QED
          BY <1>1, <1>3, <1>4, <3>1, <4>1
      <3>2. CASE t # s
        <4>1. IF subPc[t] = "done"
                THEN \E k \in 1..Len(subs[PairOf[t]]) : subs[PairOf[t]][k] = t
                ELSE joined[t] = 0 /\ got[t] = <<>>
          BY DEF Delivering, Placed
        <4>2. ASSUME NEW k \in 1..Len(subs[PairOf[t]])
              PROVE  /\ k \in 1..Len(subs'[PairOf[t]])
                     /\ subs'[PairOf[t]][k] = subs[PairOf[t]][k]
          <5>1. PairOf[t] \in Pair
            BY OrderFeedAssumption
          <5> QED
            BY <1>2, <1>4, <5>1
        <4> QED
          BY <1>3, <3>2, <4>1, <4>2
      <3> QED
        BY <3>1, <3>2
    <2>2. ASSUME NEW x \in Pair, NEW k \in 1..Len(subs'[x])
          PROVE  /\ PairOf[subs'[x][k]] = x
                 /\ subPc'[subs'[x][k]] = "done"
                 /\ \A j \in 1..Len(subs'[x]) : subs'[x][j] = subs'[x][k] => j = k
      <3>1. CASE x # q
        <4>1. subs'[x] = subs[x] /\ k \in 1..Len(subs[x])
          BY <1>4, <3>1
        <4> QED
          BY <1>3, <1>6, <4>1
      <3>2. CASE x = q /\ k = n + 1
        <4>1. \A j \in 1..n : subs'[q][j] # s
          BY <1>2, <1>4, <1>6
        <4> QED
          BY <1>1, <1>3, <1>4, <1>5, <3>2, <4>1
      <3>3. CASE x = q /\ k \in 1..n
        <4>1. /\ subs'[q][k] = subs[q][k] /\ subs[q][k] # s
              /\ PairOf[subs[q][k]] = q /\ subPc'[subs[q][k]] = "done"
              /\ \A j \in 1..n : subs[q][j] = subs[q][k] => j = k
          BY <1>2, <1>3, <1>4, <1>6, <3>3
        <4> QED
          BY <1>4, <1>5, <3>3, <4>1
      <3> QED
        BY <1>5, <3>1, <3>2, <3>3
    <2> QED
      BY <1>3, <2>1, <2>2 DEF Placed
  <1>11. Progress'
    <2> SUFFICES ASSUME NEW x \in Pair, NEW k \in 1..Len(subs'[x])
                 PROVE  joined'[subs'[x][k]] + Len(got[subs'[x][k]]) = handled[x]
      <3>1. \A x \in Pair : handled[x] + 0 = handled[x]
        BY DEF TypeOK
      <3>2. \A x \in Pair : \A k \in 1..Len(subs'[x]) : Ahead(x, k)' = 0
        BY <1>3 DEF Ahead
      <3> QED
        BY <1>3, <3>1, <3>2 DEF Progress
    <2>1. \A y \in Pair : \A j \in 1..Len(subs[y]) :
            joined'[subs[y][j]] + Len(got[subs[y][j]]) = handled[y]
      <3>1. \A y \in Pair : handled[y] + 0 = handled[y]
        BY DEF TypeOK
      <3>2. \A y \in Pair : \A j \in 1..Len(subs[y]) : Ahead(y, j) = 0
        BY <1>3 DEF Ahead
      <3>3. \A y \in Pair : \A j \in 1..Len(subs[y]) :
              joined'[subs[y][j]] = joined[subs[y][j]]
        BY <1>3, <1>6
      <3> QED
        BY <3>1, <3>2, <3>3 DEF Delivering, Progress
    <2>2. CASE x # q
      BY <1>4, <2>1, <2>2
    <2>3. CASE x = q /\ k = n + 1
      <3>1. handled[q] + 0 = handled[q]
        BY DEF TypeOK
      <3> QED
        BY <1>3, <1>4, <1>9, <2>3, <3>1
    <2>4. CASE x = q /\ k \in 1..n
      BY <1>2, <1>4, <2>1, <2>4
    <2> QED
      BY <1>5, <2>2, <2>3, <2>4
  <1>12. DeliveredInOrder'
    <2> SUFFICES ASSUME NEW t \in Subscription
                 PROVE  /\ joined'[t] + Len(got[t]) <= Len(sent[PairOf[t]])
                        /\ \A i \in 1..Len(got[t]) :
                             got[t][i] = sent[PairOf[t]][joined'[t] + i]
      BY <1>3 DEF DeliveredInOrder
    <2>1. CASE t # s
      BY <1>3, <2>1 DEF Delivering, DeliveredInOrder
    <2>2. CASE t = s
      <3>1. /\ Len(sent[q]) = handled[q] + InFlight(q) + Len(data[q])
            /\ handled[q] \in Nat /\ InFlight(q) \in Nat /\ Len(data[q]) \in Nat
        BY DEF Delivering, Conserved, Accounts, InFlight, TypeOK
      <3>2. handled[q] + 0 <= Len(sent[q])
        BY <3>1
      <3>3. \A i \in 1..Len(got[t]) : FALSE
        BY <1>9, <2>2
      <3> QED
        BY <1>1, <1>3, <1>9, <2>2, <3>2, <3>3
    <2> QED
      BY <2>1, <2>2
  <1> QED
    BY <1>7, <1>8, <1>10, <1>11, <1>12 DEF Delivering

LEMMA DeliveryNext == DeliveryInv /\ OnceInv /\ [Next]_vars => DeliveryInv'
  <1> SUFFICES ASSUME DeliveryInv, OnceInv, [Next]_vars
               PROVE  DeliveryInv'
    OBVIOUS
  <1>1. TypeOK /\ Delivering
    BY DEF DeliveryInv, Delivering
  <1>2. TypeOK'
    BY <1>1, TypeNext
  <1> SUFFICES Delivering'
    BY <1>2 DEF DeliveryInv, Delivering
  <1>3. ASSUME NEW s \in Subscription, SubscribeStep(s)
        PROVE  Delivering'
    BY <1>1, <1>3, DeliverySubscribeLock, DeliverySubscribe DEF SubscribeStep
  <1>4. ASSUME NEW p \in Publisher, NEW o \in Order, Publish(p, o)
        PROVE  Delivering'
    BY <1>1, <1>4, DeliveryOther DEF Publish, ctl, registry, chan, recv
  <1>5. ASSUME NEW p \in Publisher, PublishStep(p)
        PROVE  Delivering'
    <2>1. CASE PublishSend(p)
      BY <1>1, <2>1, DeliverySend
    <2>2. CASE PublishPanic(p)
      BY <1>1, <2>2, DeliveryOther DEF PublishPanic, registry, chan, recv
    <2>3. CASE \/ PublishLookup(p) \/ PublishAbandon(p)
               \/ PublishPark(p) \/ PublishReturn(p)
      BY <1>1, <2>3, DeliveryOther
      DEF PublishLookup, PublishAbandon, PublishPark, PublishReturn,
          ctl, registry, chan, recv
    <2> QED
      BY <1>5, <2>1, <2>2, <2>3 DEF PublishStep
  <1>6. ASSUME NEW q \in Pair, ReceiveStep(q)
        PROVE  Delivering'
    BY <1>1, <1>6, DeliveryReceiveDone, DeliveryReceive, DeliveryUnpark,
       DeliveryLock, DeliveryDeliver, DeliveryDone
    DEF ReceiveStep
  <1>7. CASE Start
    BY <1>1, <1>7, DeliveryStart
  <1>8. CASE Stop
    BY <1>1, <1>8, DeliveryOther DEF Stop, registry, recv
  <1>9. CASE UNCHANGED vars
    BY <1>1, <1>9, DeliveryOther DEF vars, ctl, registry, chan, recv
  <1> QED
    BY <1>3, <1>4, <1>5, <1>6, <1>7, <1>8, <1>9 DEF Next

-----------------------------------------------------------------------------
(* The theorems. *)

LEMMA InvariantHolds == Spec => [](DeliveryInv /\ OnceInv)
  <1>1. Init => DeliveryInv /\ OnceInv
    BY DeliveryInit, OnceInit
  <1>2. DeliveryInv /\ OnceInv /\ [Next]_vars => (DeliveryInv /\ OnceInv)'
    BY DeliveryNext, OnceNext DEF DeliveryInv
  <1> QED
    BY <1>1, <1>2, PTL DEF Spec

(* No variable of the feed leaves its type, and no buffer overflows its    *)
(* capacity (Publish, Start and deliverToSubscribers).                     *)
THEOREM TypeCorrect == Spec => []TypeOK
  <1>1. DeliveryInv => TypeOK
    BY DEF DeliveryInv
  <1> QED
    BY <1>1, InvariantHolds, PTL

(* Orders are conserved between Publish and the end of                     *)
(* deliverToSubscribers: a channel's orders are the delivered ones, the    *)
(* one in hand and the buffered ones, in this order.                       *)
THEOREM OrdersConserved == Spec => []Conserved
  <1>1. DeliveryInv => Conserved
    BY DEF DeliveryInv
  <1> QED
    BY <1>1, InvariantHolds, PTL

(* Every consumer is called with a run of the accepted orders, without a   *)
(* gap, from the point at which it subscribed.                             *)
THEOREM DeliveryOrdered == Spec => []DeliveredInOrder
  <1>1. DeliveryInv => DeliveredInOrder
    BY DEF DeliveryInv
  <1> QED
    BY <1>1, InvariantHolds, PTL

(* No consumer is called twice for one call of Publish.                    *)
THEOREM DeliveryUnique == Spec => []DeliveredOnce
  <1>1. ASSUME DeliveryInv, OnceInv, NEW s \in Subscription,
               NEW i \in 1..Len(got[s]), NEW j \in 1..Len(got[s]),
               got[s][i] = got[s][j]
        PROVE  i = j
    <2>1. PICK q \in Pair : q = PairOf[s]
      BY OrderFeedAssumption
    <2>2. /\ joined[s] \in Nat /\ Len(got[s]) \in Nat /\ Len(sent[q]) \in Nat
      BY <1>1 DEF DeliveryInv, TypeOK
    <2>3. /\ joined[s] + Len(got[s]) <= Len(sent[q])
          /\ got[s][i] = sent[q][joined[s] + i]
          /\ got[s][j] = sent[q][joined[s] + j]
      BY <1>1, <2>1 DEF DeliveryInv, DeliveredInOrder
    <2>4. joined[s] + i \in 1..Len(sent[q]) /\ joined[s] + j \in 1..Len(sent[q])
      BY <2>2, <2>3, SMTT(30)
    <2>5. joined[s] + i = joined[s] + j
      BY <1>1, <2>3, <2>4, ZenonT(40) DEF OnceInv, SentOnce
    <2> QED
      BY <2>2, <2>5
  <1>2. DeliveryInv /\ OnceInv => DeliveredOnce
    BY <1>1 DEF DeliveredOnce
  <1> QED
    BY <1>2, InvariantHolds, PTL

(* Two consumers of a pair never drift apart by more than the order being  *)
(* delivered.                                                              *)
THEOREM DeliveryLockstep == Spec => []Lockstep
  <1>1. ASSUME DeliveryInv, NEW s \in Subscription, subPc[s] = "done"
        PROVE  joined[s] + Len(got[s])
                 \in {handled[PairOf[s]], handled[PairOf[s]] + 1}
    <2>1. PICK q \in Pair : q = PairOf[s]
      BY OrderFeedAssumption
    <2>2. PICK k \in 1..Len(subs[q]) : subs[q][k] = s
      BY <1>1, <2>1 DEF DeliveryInv, Placed
    <2>3. joined[s] + Len(got[s]) = handled[q] + Ahead(q, k)
      BY <1>1, <2>2 DEF DeliveryInv, Progress
    <2>4. Ahead(q, k) \in {0, 1} /\ handled[q] \in Nat
      BY <1>1 DEF Ahead, DeliveryInv, TypeOK
    <2> QED
      BY <2>1, <2>3, <2>4
  <1>2. DeliveryInv => Lockstep
    BY <1>1 DEF Lockstep
  <1> QED
    BY <1>2, InvariantHolds, PTL

(* The feed implements the queue of OrderQueue: a send is an Accept, the   *)
(* body of Subscribe a Subscribe, a call of a consumer a Receive, and      *)
(* every other step is invisible.                                          *)
THEOREM FeedImplementsQueue == Spec => ImplementsQueue
  <1>1. Init => Queue!Init
    BY DEF Init, Queue!Init
  <1>2. DeliveryInv /\ OnceInv /\ [Next]_vars => [Queue!Next]_Queue!vars
    <2> SUFFICES ASSUME DeliveryInv, OnceInv, [Next]_vars
                 PROVE  [Queue!Next]_Queue!vars
      OBVIOUS
    <2>1. TypeOK
      BY DEF DeliveryInv
    <2>2. ASSUME UNCHANGED <<sent, subPc, joined, got>>
          PROVE  [Queue!Next]_Queue!vars
      BY <2>2 DEF Queue!vars
    <2>3. ASSUME NEW o \in Order, NEW q \in Pair, q = PairOf[o],
                 \A i \in 1..Len(sent[q]) : sent[q][i] # o,
                 sent' = [sent EXCEPT ![q] = Append(@, o)],
                 UNCHANGED <<subPc, joined, got>>
          PROVE  Queue!Next
      BY <2>3 DEF Queue!Next, Queue!Accept
    <2>4. ASSUME NEW s \in Subscription, SubscribeLock(s)
          PROVE  [Queue!Next]_Queue!vars
      <3>1. \A t \in Subscription : subPc'[t] = "done" <=> subPc[t] = "done"
        BY <2>1, <2>4 DEF SubscribeLock, TypeOK
      <3>2. UNCHANGED <<sent, joined, got>>
        BY <2>4 DEF SubscribeLock, recv
      <3> QED
        BY <3>1, <3>2 DEF Queue!vars
    <2>5. ASSUME NEW s \in Subscription, Subscribe(s)
          PROVE  Queue!Next
      <3>1. PICK q \in Pair : q = PairOf[s]
        BY OrderFeedAssumption
      <3>2. /\ subPc[s] # "done"
            /\ subPc' = [subPc EXCEPT ![s] = "done"]
            /\ joined' = [joined EXCEPT ![s] = handled[q]]
            /\ UNCHANGED <<sent, got>>
        BY <2>5, <3>1 DEF Subscribe, recv
      <3>3. handled[q] \in 0..Len(sent[q])
        <4>1. /\ Len(sent[q]) = handled[q] + InFlight(q) + Len(data[q])
              /\ handled[q] \in Nat /\ InFlight(q) \in Nat /\ Len(data[q]) \in Nat
          BY <2>1 DEF DeliveryInv, Conserved, Accounts, InFlight, TypeOK
        <4> QED
          BY <4>1
      <3>4. {t \in Subscription : subPc'[t] = "done"}
              = {t \in Subscription : subPc[t] = "done"} \cup {s}
        BY <2>1, <3>2 DEF TypeOK
      <3> QED
        BY <3>1, <3>2, <3>3, <3>4 DEF Queue!Next, Queue!Subscribe
    <2>6. ASSUME NEW p \in Publisher, PublishSend(p)
          PROVE  Queue!Next
      <3>1. PICK o \in Order, q \in Pair : o = pubOrder[p] /\ q = PairOf[o]
        BY <2>6, OrderFeedAssumption DEF PublishSend, OnceInv, Held, Holding
      <3>2. \A i \in 1..Len(sent[q]) : sent[q][i] # o
        BY <2>6, <3>1 DEF PublishSend, OnceInv, Held, Holding
      <3> QED
        BY <2>3, <2>6, <3>1, <3>2 DEF PublishSend, registry, recv
    <2>7. ASSUME NEW q \in Pair, ReceiveAndUnpark(q)
          PROVE  Queue!Next
      <3>1. PICK p \in Publisher : p = Head(parked[q]) /\ p = parked[q][1]
        BY <2>1, <2>7, TailFacts DEF TypeOK, ReceiveAndUnpark
      <3>2. 1 \in 1..Len(parked[q])
        BY <2>1, <2>7, TailFacts DEF TypeOK, ReceiveAndUnpark
      <3>3. pubPc[p] = "parked" /\ PairOf[pubOrder[p]] = q
        BY <3>1, <3>2 DEF OnceInv, Sleeping
      <3>4. PICK o \in Order : o = pubOrder[p] /\ q = PairOf[o]
        BY <3>3 DEF OnceInv, Held, Holding
      <3>5. \A i \in 1..Len(sent[q]) : sent[q][i] # o
        BY <3>3, <3>4 DEF OnceInv, Held, Holding
      <3> QED
        BY <2>3, <2>7, <3>1, <3>4, <3>5 DEF ReceiveAndUnpark, registry
    <2>8. ASSUME NEW q \in Pair, Deliver(q)
          PROVE  Queue!Next
      <3>1. PICK s \in Subscription, k \in 1..Len(subs[q]) :
              k = nextSub[q] /\ s = subs[q][k]
        BY <2>1, <2>8 DEF Deliver, TypeOK
      <3>2. /\ PairOf[s] = q /\ subPc[s] = "done"
            /\ joined[s] + Len(got[s]) = handled[q] + Ahead(q, k)
        BY <3>1 DEF DeliveryInv, Placed, Progress
      <3>3. Ahead(q, k) = 0 /\ InFlight(q) = 1
        BY <2>1, <2>8, <3>1 DEF Deliver, Ahead, InFlight, TypeOK
      <3>4. /\ Len(sent[q]) = handled[q] + 1 + Len(data[q])
            /\ current[q] = sent[q][handled[q] + 1]
            /\ handled[q] \in Nat /\ Len(data[q]) \in Nat
        BY <2>1, <3>3 DEF DeliveryInv, Conserved, Accounts, TypeOK
      <3>5. PICK n \in Nat : n = joined[s] + Len(got[s]) + 1
        BY <2>1 DEF TypeOK
      <3>6. n = handled[q] + 1 /\ n <= Len(sent[q]) /\ current[q] = sent[q][n]
        BY <3>2, <3>3, <3>4, <3>5
      <3>7. /\ got' = [got EXCEPT ![s] = Append(@, sent[q][n])]
            /\ UNCHANGED <<sent, subPc, joined>>
        BY <2>8, <3>1, <3>6 DEF Deliver, registry
      <3> QED
        BY <3>2, <3>5, <3>6, <3>7 DEF Queue!Next, Queue!Receive
    <2>9. ASSUME NEW p \in Publisher, NEW o \in Order, Publish(p, o)
          PROVE  [Queue!Next]_Queue!vars
      BY <2>2, <2>9 DEF Publish, registry, recv
    <2>10. ASSUME NEW p \in Publisher,
                  \/ PublishLookup(p) \/ PublishAbandon(p) \/ PublishPanic(p)
                  \/ PublishPark(p) \/ PublishReturn(p)
           PROVE  [Queue!Next]_Queue!vars
      BY <2>2, <2>10
      DEF PublishLookup, PublishAbandon, PublishPanic, PublishPark,
          PublishReturn, registry, recv
    <2>11. ASSUME NEW q \in Pair,
                  \/ ReceiveDone(q) \/ Receive(q) \/ DeliverLock(q)
                  \/ DeliverDone(q)
           PROVE  [Queue!Next]_Queue!vars
      BY <2>2, <2>11
      DEF ReceiveDone, Receive, DeliverLock, DeliverDone, registry
    <2>12. CASE Start \/ Stop \/ UNCHANGED vars
      BY <2>2, <2>12 DEF Start, Stop, vars, registry, recv
    <2> QED
      BY <2>4, <2>5, <2>6, <2>7, <2>8, <2>9, <2>10, <2>11, <2>12
      DEF Next, SubscribeStep, PublishStep, ReceiveStep
  <1>3. Spec => Queue!Spec
    BY <1>1, <1>2, InvariantHolds, PTL DEF Spec, Queue!Spec
  <1> QED
    BY <1>3 DEF ImplementsQueue
=============================================================================
