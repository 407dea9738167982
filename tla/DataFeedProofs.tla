--------------------------- MODULE DataFeedProofs ---------------------------
(***************************************************************************)
(* Like subscriptions of a feed are served in turn, for any number of      *)
(* feeds and subscriptions and any candles and errors.                     *)
(***************************************************************************)
EXTENDS DataFeed, TLAPS

Like(i, j) == Subscriptions[i] = Subscriptions[j] /\ since[i] = since[j]

\* The candle a goroutine hands out lies between a subscription that was
\* called and a like one that was not.
PairInStep(i, j) ==
  LET k == Subscriptions[i].key IN
  /\ i \in left[k] => j \in left[k]
  /\ got[i] = IF i \notin left[k] /\ j \in left[k] /\ Given(j, item[k])
              THEN Append(got[j], item[k]) ELSE got[j]

InStep == \A i, j \in 1..nsub : i < j /\ Like(i, j) => PairInStep(i, j)

\* Until Start there is no goroutine, and a subscription has been given all
\* that was preloaded since it was made.
SetUp ==
  ~started =>
    /\ \A k \in Key : at[k] = "none"
    /\ \A i \in 1..nsub : since[i] + Len(got[i]) = Len(taken[Subscriptions[i].key])
    /\ \A i \in Sub : i > nsub => got[i] = <<>>

\* Only a candle that is handed out has subscriptions to be called with it.
Calling ==
  \A k \in Key :
    /\ left[k] \subseteq Subscribers(k)
    /\ at[k] # "deliver" => left[k] = {}

FeedInv == TypeOK /\ SetUp /\ Calling /\ InStep

-----------------------------------------------------------------------------
LEMMA ElementOfSequence ==
  ASSUME NEW S, NEW s \in Seq(S), NEW i \in DOMAIN s
  PROVE  s[i] \in S
OBVIOUS

LEMMA KeysOfSubscriptions ==
  /\ \A i \in Sub : Subscriptions[i].key \in Key
  /\ Sub = 1..Len(Subscriptions) /\ Len(Subscriptions) \in Nat
<1>1. Subscriptions \in Seq([key : Key, onCandleClose : BOOLEAN])
  BY FeedAssumption DEF FeedAssumption
<1>2. Sub = 1..Len(Subscriptions) /\ Len(Subscriptions) \in Nat
  BY <1>1 DEF Sub
<1>3. \A i \in Sub : Subscriptions[i] \in [key : Key, onCandleClose : BOOLEAN]
  BY <1>1, ElementOfSequence DEF Sub
<1> QED
  BY <1>2, <1>3

\* What the types say of one subscription that was made.
LEMMA Typed ==
  ASSUME TypeOK, NEW i \in 1..nsub
  PROVE  /\ nsub \in Nat /\ i \in Sub /\ Subscriptions[i].key \in Key
         /\ since[i] \in Nat
         /\ got[i] \in Seq(FeedCandle) /\ Len(got[i]) \in Nat
         /\ taken[Subscriptions[i].key] \in Seq(FeedCandle)
         /\ Len(taken[Subscriptions[i].key]) \in Nat
         /\ item[Subscriptions[i].key] \in FeedCandle
<1>1. nsub \in Nat /\ i \in Sub
  BY KeysOfSubscriptions DEF TypeOK
<1>2. Subscriptions[i].key \in Key
  BY <1>1, KeysOfSubscriptions
<1>3. since[i] \in Nat
  BY <1>1 DEF TypeOK
<1>4. got[i] \in Seq(FeedCandle) /\ taken[Subscriptions[i].key] \in Seq(FeedCandle)
  BY <1>1, <1>2 DEF TypeOK
<1>5. item[Subscriptions[i].key] \in FeedCandle
  BY <1>2 DEF TypeOK
<1> QED
  BY <1>1, <1>2, <1>3, <1>4, <1>5

LEMMA PastIsCandles ==
  /\ [n \in 1..History |-> Past(n)] \in Seq(FeedCandle)
  /\ Len([n \in 1..History |-> Past(n)]) = History /\ History \in Nat
<1>1. History \in Nat
  BY FeedAssumption DEF FeedAssumption
<1>2. \A n \in 1..History : Past(n) \in FeedCandle
  BY <1>1 DEF Past, FeedCandle
<1> QED
  BY <1>1, <1>2

LEMMA SentIsCandle ==
  ASSUME NEW n \in Nat, NEW complete \in BOOLEAN
  PROVE  [msg |-> n, complete |-> complete] \in FeedCandle /\ Empty \in FeedCandle
BY DEF FeedCandle, Empty

LEMMA FeedInitial == Init => FeedInv
<1> SUFFICES ASSUME Init  PROVE FeedInv
  OBVIOUS
<1> USE DEF Init
<1>1. TypeOK
  <2>1. Empty \in FeedCandle
    BY DEF Empty, FeedCandle
  <2>2. nsub \in 0..Len(Subscriptions)
    BY KeysOfSubscriptions
  <2>3. since \in Seq(Nat) /\ Len(since) = nsub
    OBVIOUS
  <2>4. item \in [Key -> FeedCandle] /\ left \in [Key -> SUBSET (1..nsub)]
    BY <2>1
  <2>5. got \in [Sub -> Seq(FeedCandle)] /\ taken \in [Key -> Seq(FeedCandle)]
    OBVIOUS
  <2> QED
    BY <2>2, <2>3, <2>4, <2>5 DEF TypeOK
<1>2. SetUp /\ Calling /\ InStep
  BY DEF SetUp, Calling, InStep
<1> QED
  BY <1>1, <1>2 DEF FeedInv

-----------------------------------------------------------------------------
LEMMA SubscribeKeeps == FeedInv /\ Subscribe => FeedInv'
<1> SUFFICES ASSUME FeedInv, Subscribe  PROVE FeedInv'
  OBVIOUS
<1> USE KeysOfSubscriptions DEF FeedInv, Subscribe
<1> DEFINE new == nsub + 1
<1> DEFINE key == Subscriptions[new].key
<1>1. nsub \in Nat /\ new \in Sub /\ key \in Key /\ nsub' = new
  BY DEF TypeOK
<1>2. Len(taken[key]) \in Nat
  BY <1>1 DEF TypeOK
<1>3. /\ since' \in Seq(Nat) /\ Len(since') = new
      /\ \A i \in 1..nsub : since'[i] = since[i]
      /\ since'[new] = Len(taken[key])
  BY <1>1, <1>2 DEF TypeOK
<1>4. TypeOK'
  <2>1. \A k \in Key : left'[k] \subseteq 1..nsub'
    BY <1>1 DEF TypeOK
  <2>2. left' \in [Key -> SUBSET (1..nsub')]
    BY <2>1 DEF TypeOK
  <2> QED
    BY <1>1, <1>3, <2>2 DEF TypeOK, Feeds
<1>5. SetUp'
  BY <1>1, <1>2, <1>3 DEF SetUp, TypeOK
<1>6. \A k \in Key : left[k] = {}
  BY DEF SetUp, Calling
<1>7. Calling'
  BY <1>6 DEF Calling
<1>8. InStep'
  <2> SUFFICES ASSUME NEW i \in 1..new, NEW j \in 1..new, i < j, Like(i, j)'
               PROVE  PairInStep(i, j)'
    BY <1>1 DEF InStep
  <2>1. i \in 1..nsub /\ Subscriptions[i].key \in Key
    BY <1>1
  <2>2. CASE j \in 1..nsub
    BY <1>3, <1>6, <2>1, <2>2, SMTT(30) DEF InStep, PairInStep, Like
  <2>3. CASE j = new
    <3>1. since[i] = Len(taken[Subscriptions[i].key])
      BY <1>3, <2>1, <2>3 DEF Like
    <3>2. got[i] \in Seq(FeedCandle) /\ since[i] \in Nat
      BY <2>1, Typed
    <3>3. Len(got[i]) = 0
      BY <2>1, <3>1, <3>2 DEF SetUp
    <3>4. got[i] = <<>> /\ got[j] = <<>>
      BY <1>1, <2>3, <3>2, <3>3 DEF SetUp
    <3> QED
      BY <1>6, <2>1, <3>4 DEF PairInStep
  <2> QED
    BY <1>1, <2>2, <2>3
<1> QED
  BY <1>4, <1>5, <1>7, <1>8

LEMMA PreloadKeeps ==
  ASSUME FeedInv, NEW k \in Key, Preload(k)
  PROVE  FeedInv'
<1> USE KeysOfSubscriptions DEF FeedInv
<1> DEFINE past == [n \in 1..History |-> Past(n)]
<1>0. /\ got' = [i \in Sub |-> IF i <= nsub /\ Subscriptions[i].key = k
                               THEN got[i] \o past ELSE got[i]]
      /\ taken' = [taken EXCEPT ![k] = @ \o past]
      /\ preloaded' = preloaded \cup {k} /\ ~started
      /\ UNCHANGED <<nsub, since, connected, started, stopped, at, item, left>>
  BY DEF Preload
<1>1. past \in Seq(FeedCandle) /\ Len(past) = History /\ History \in Nat
  BY PastIsCandles
<1> HIDE DEF past
<1>2. /\ \A i \in Sub : got[i] \in Seq(FeedCandle) /\ got[i] \o past \in Seq(FeedCandle)
                        /\ Len(got[i] \o past) = Len(got[i]) + History
      /\ taken[k] \in Seq(FeedCandle) /\ taken[k] \o past \in Seq(FeedCandle)
      /\ Len(taken[k] \o past) = Len(taken[k]) + History
  <2>1. ASSUME NEW s \in Seq(FeedCandle)
        PROVE  s \o past \in Seq(FeedCandle) /\ Len(s \o past) = Len(s) + History
    BY <1>1
  <2>2. taken[k] \in Seq(FeedCandle) /\ \A i \in Sub : got[i] \in Seq(FeedCandle)
    BY DEF TypeOK
  <2> QED
    BY <2>1, <2>2
<1>3. got' \in [Sub -> Seq(FeedCandle)] /\ taken' \in [Key -> Seq(FeedCandle)]
  BY <1>0, <1>2 DEF TypeOK
<1>4. TypeOK'
  BY <1>0, <1>3 DEF TypeOK, Feeds
<1>5. nsub \in Nat /\ 1..nsub \subseteq Sub
  BY DEF TypeOK
<1>6. SetUp'
  <2>1. ASSUME NEW i \in 1..nsub
        PROVE  since[i] + Len(got'[i]) = Len(taken'[Subscriptions[i].key])
    <3>1. /\ i \in Sub /\ i <= nsub /\ since[i] \in Nat /\ Subscriptions[i].key \in Key
          /\ since[i] + Len(got[i]) = Len(taken[Subscriptions[i].key])
          /\ Len(got[i]) \in Nat /\ Len(taken[k]) \in Nat
      BY <1>0, <1>2, <1>5, Typed DEF SetUp
    <3>2. CASE Subscriptions[i].key = k
      <4>1. got'[i] = got[i] \o past /\ taken'[k] = taken[k] \o past
        BY <1>0, <3>1, <3>2 DEF TypeOK
      <4>2. Len(got'[i]) = Len(got[i]) + History /\ Len(taken'[k]) = Len(taken[k]) + History
        BY <1>2, <3>1, <4>1
      <4>3. since[i] + Len(got[i]) = Len(taken[k])
        BY <3>1, <3>2
      <4> DEFINE before == since[i]
      <4> DEFINE given == Len(got[i])
      <4> DEFINE all == Len(taken[k])
      <4>4. before \in Nat /\ given \in Nat /\ all \in Nat
        BY <3>1
      <4>5. before + given = all
        BY <4>3
      <4> HIDE DEF before, given, all
      <4>6. before + (given + History) = all + History
        BY <1>1, <4>4, <4>5
      <4> USE DEF before, given, all
      <4> QED
        BY <3>2, <4>2, <4>6
    <3>3. CASE Subscriptions[i].key # k
      BY <1>0, <3>1, <3>3 DEF TypeOK
    <3> QED
      BY <3>2, <3>3
  <2>2. \A i \in Sub : i > nsub => got'[i] = <<>>
    BY <1>0, <1>5 DEF SetUp
  <2> QED
    BY <1>0, <2>1, <2>2 DEF SetUp
<1>7. \A l \in Key : left[l] = {}
  BY <1>0 DEF SetUp, Calling
<1>8. Calling'
  BY <1>0, <1>7 DEF Calling
<1>9. InStep'
  <2> SUFFICES ASSUME NEW i \in 1..nsub, NEW j \in 1..nsub, i < j, Like(i, j)
               PROVE  PairInStep(i, j)'
    BY <1>0 DEF InStep, Like
  <2>1. i \in Sub /\ j \in Sub /\ Subscriptions[i].key \in Key
    BY <1>5
  <2>2. got[i] = got[j]
    BY <1>7, <2>1 DEF InStep, PairInStep
  <2>3. got'[i] = got'[j]
    BY <1>0, <1>5, <2>1, <2>2 DEF Like
  <2> QED
    BY <1>0, <1>7, <2>1, <2>3 DEF PairInStep
<1> QED
  BY <1>4, <1>6, <1>8, <1>9

LEMMA ConnectKeeps ==
  ASSUME FeedInv, NEW k \in Key, Connect(k)
  PROVE  FeedInv'
<1> USE DEF FeedInv, Connect
<1>1. TypeOK'
  BY DEF TypeOK, Feeds
<1>2. SetUp' /\ Calling'
  BY DEF SetUp, Calling, Subscribers
<1>3. InStep'
  BY DEF InStep, PairInStep, Like
<1> QED
  BY <1>1, <1>2, <1>3

LEMMA StartKeeps == FeedInv /\ Start => FeedInv'
<1> SUFFICES ASSUME FeedInv, Start  PROVE FeedInv'
  OBVIOUS
<1> USE DEF FeedInv, Start
<1>1. TypeOK'
  BY DEF TypeOK, Feeds
<1>2. SetUp'
  BY DEF SetUp
<1>3. \A k \in Key : left[k] = {}
  BY DEF SetUp, Calling
<1>4. Calling'
  BY <1>3 DEF Calling
<1>5. InStep'
  BY DEF InStep, PairInStep, Like
<1> QED
  BY <1>1, <1>2, <1>4, <1>5

\* The goroutine of a feed: before it takes a candle, like subscriptions have
\* the same.
LEMMA HandOutKeeps ==
  ASSUME FeedInv, NEW k \in Key, NEW c \in FeedCandle, HandOut(k, c)
  PROVE  FeedInv'
<1> USE KeysOfSubscriptions DEF FeedInv, HandOut
<1>1. nsub \in Nat /\ Subscribers(k) \subseteq 1..nsub /\ started
  BY DEF TypeOK, Subscribers, SetUp
<1>2. TypeOK'
  <2>1. Append(taken[k], c) \in Seq(FeedCandle)
    BY DEF TypeOK
  <2>2. taken' \in [Key -> Seq(FeedCandle)] /\ item' \in [Key -> FeedCandle]
    BY <2>1 DEF TypeOK
  <2>3. left' \in [Key -> SUBSET (1..nsub)]
    BY <1>1 DEF TypeOK
  <2>4. at' \in [Key -> {"none", "select", "deliver", "end"}]
    BY DEF TypeOK
  <2> QED
    BY <2>2, <2>3, <2>4 DEF TypeOK, Feeds
<1>3. SetUp'
  BY <1>1 DEF SetUp
<1>4. Calling'
  BY DEF Calling, TypeOK, Subscribers
<1>5. left[k] = {}
  BY DEF Calling
<1>6. InStep'
  <2> SUFFICES ASSUME NEW i \in 1..nsub, NEW j \in 1..nsub, i < j, Like(i, j)
               PROVE  PairInStep(i, j)'
    BY DEF InStep, Like
  <2>1. Subscriptions[i].key \in Key /\ Subscriptions[j].key = Subscriptions[i].key
    BY <1>1 DEF Like, TypeOK
  <2>2. PairInStep(i, j)
    BY DEF InStep
  <2>3. CASE Subscriptions[i].key = k
    <3>1. i \in left'[k] /\ j \in left'[k]
      BY <1>1, <2>1, <2>3 DEF Subscribers, TypeOK
    <3>2. got[i] = got[j]
      BY <1>5, <2>2, <2>3 DEF PairInStep
    <3> QED
      BY <2>3, <3>1, <3>2 DEF PairInStep
  <2>4. CASE Subscriptions[i].key # k
    BY <2>1, <2>2, <2>4 DEF PairInStep, TypeOK
  <2> QED
    BY <2>3, <2>4
<1> QED
  BY <1>2, <1>3, <1>4, <1>6

\* The candle is given to the first of the subscriptions that are left.
LEMMA CallKeeps ==
  ASSUME FeedInv, NEW k \in Key, Call(k)
  PROVE  FeedInv'
<1> USE KeysOfSubscriptions DEF FeedInv
<1>1. PICK m \in left[k] :
        /\ \A j \in left[k] : m <= j
        /\ left' = [left EXCEPT ![k] = @ \ {m}]
        /\ got' = IF Given(m, item[k])
                  THEN [got EXCEPT ![m] = Append(@, item[k])] ELSE got
  BY DEF Call, Given
<1>2. /\ at[k] = "deliver"
      /\ UNCHANGED <<nsub, since, preloaded, connected, started, stopped, at,
                     item, taken>>
  BY DEF Call
<1>3. nsub \in Nat /\ m \in 1..nsub /\ m \in Sub /\ Subscriptions[m].key = k /\ started
  BY <1>2 DEF TypeOK, Subscribers, Calling, SetUp
<1>4. item[k] \in FeedCandle /\ got[m] \in Seq(FeedCandle)
  BY <1>3 DEF TypeOK
<1>5. got' \in [Sub -> Seq(FeedCandle)]
  BY <1>1, <1>4 DEF TypeOK
<1>6. left' \in [Key -> SUBSET (1..nsub)]
  BY <1>1 DEF TypeOK
<1>7. TypeOK'
  BY <1>2, <1>5, <1>6 DEF TypeOK, Feeds
<1>8. SetUp'
  BY <1>2, <1>3 DEF SetUp
<1>9. Calling'
  BY <1>1, <1>2 DEF Calling, Subscribers, TypeOK
<1>10. InStep'
  <2> SUFFICES ASSUME NEW i \in 1..nsub, NEW j \in 1..nsub, i < j, Like(i, j)
               PROVE  PairInStep(i, j)'
    BY <1>2 DEF InStep, Like
  <2>1. /\ i \in Sub /\ j \in Sub
        /\ Subscriptions[i].key \in Key /\ Subscriptions[j].key = Subscriptions[i].key
    BY <1>3 DEF Like, TypeOK
  <2>2. PairInStep(i, j)
    BY DEF InStep
  <2>3. CASE Subscriptions[i].key # k
    <3>1. got'[i] = got[i] /\ got'[j] = got[j]
      BY <1>1, <1>3, <2>1, <2>3 DEF TypeOK
    <3>2. left'[Subscriptions[i].key] = left[Subscriptions[i].key]
      BY <1>1, <2>1, <2>3 DEF TypeOK
    <3> QED
      BY <1>2, <2>2, <3>1, <3>2 DEF PairInStep, Given, Wanted
  <2>4. CASE Subscriptions[i].key = k
    <3>0. /\ left'[k] = left[k] \ {m}
          /\ Given(i, item[k]) <=> Given(j, item[k])
      BY <1>1 DEF TypeOK, Like, Given, Wanted
    <3>1. CASE m = i
      <4>1. i \in left[k] /\ j \in left[k] /\ got[i] = got[j] /\ i # j
        BY <1>1, <2>2, <2>4, <3>1 DEF PairInStep
      <4>2. i \notin left'[k] /\ j \in left'[k] /\ got'[j] = got[j]
        BY <1>1, <2>1, <3>0, <3>1, <4>1 DEF TypeOK
      <4>3. got'[i] = IF Given(i, item[k]) THEN Append(got[i], item[k]) ELSE got[i]
        BY <1>1, <2>1, <3>1 DEF TypeOK
      <4> QED
        BY <1>2, <2>4, <3>0, <4>1, <4>2, <4>3 DEF PairInStep, Given, Wanted
    <3>2. CASE m = j
      <4>1. j \in left[k] /\ i \notin left[k] /\ i # j
        BY <1>1, <1>3, <3>2
      <4>2. got[i] = IF Given(j, item[k]) THEN Append(got[j], item[k]) ELSE got[j]
        BY <2>2, <2>4, <4>1 DEF PairInStep
      <4>3. got'[i] = got[i] /\ i \notin left'[k] /\ j \notin left'[k]
        BY <1>1, <2>1, <3>0, <3>2, <4>1 DEF TypeOK
      <4>4. got'[j] = IF Given(j, item[k]) THEN Append(got[j], item[k]) ELSE got[j]
        BY <1>1, <2>1, <3>2 DEF TypeOK
      <4> QED
        BY <2>4, <4>2, <4>3, <4>4 DEF PairInStep
    <3>3. CASE m # i /\ m # j
      <4>1. got'[i] = got[i] /\ got'[j] = got[j]
        BY <1>1, <2>1, <3>3 DEF TypeOK
      <4> QED
        BY <1>2, <2>2, <2>4, <3>0, <3>3, <4>1 DEF PairInStep, Given, Wanted
    <3> QED
      BY <3>1, <3>2, <3>3
  <2> QED
    BY <2>3, <2>4
<1> QED
  BY <1>7, <1>8, <1>9, <1>10

LEMMA CalledKeeps ==
  ASSUME FeedInv, NEW k \in Key, Called(k) \/ End(k)
  PROVE  FeedInv'
<1> USE DEF FeedInv, Called, End
<1>1. TypeOK'
  BY DEF TypeOK, Feeds
<1>2. started
  BY DEF SetUp
<1>3. SetUp' /\ Calling'
  BY <1>2 DEF SetUp, Calling, Subscribers, TypeOK
<1>4. InStep'
  BY DEF InStep, PairInStep, Like, Given, Wanted
<1> QED
  BY <1>1, <1>3, <1>4

LEMMA FeedStep == FeedInv /\ [Next]_feedVars => FeedInv'
<1> SUFFICES ASSUME FeedInv, [Next]_feedVars  PROVE FeedInv'
  OBVIOUS
<1>1. CASE Subscribe
  BY <1>1, SubscribeKeeps
<1>2. CASE Start
  BY <1>2, StartKeeps
<1>3. CASE Stop
  <2> USE <1>3 DEF FeedInv, Stop
  <2>1. TypeOK' /\ SetUp' /\ Calling'
    BY DEF TypeOK, Feeds, SetUp, Calling, Subscribers
  <2>2. InStep'
    BY DEF InStep, PairInStep, Like, Given, Wanted
  <2> QED
    BY <2>1, <2>2
<1>4. ASSUME NEW k \in Key, Preload(k) \/ Connect(k)
      PROVE  FeedInv'
  BY <1>4, PreloadKeeps, ConnectKeeps
<1>5. ASSUME NEW k \in Key, Step(k) \/ End(k)
      PROVE  FeedInv'
  BY <1>5, CallKeeps, CalledKeeps DEF Step, Done
<1>6. ASSUME NEW k \in Key, Sends(k) \/ ReceiveErr(k)
      PROVE  FeedInv'
  <2>1. Len(taken[k]) \in Nat
    BY DEF FeedInv, TypeOK
  <2> QED
    BY <1>6, <2>1, SentIsCandle, HandOutKeeps DEF Sends, Receive, ReceiveErr
<1>7. CASE UNCHANGED feedVars
  <2> USE <1>7 DEF FeedInv, feedVars
  <2>1. TypeOK' /\ SetUp' /\ Calling'
    BY DEF TypeOK, Feeds, SetUp, Calling, Subscribers
  <2>2. InStep'
    BY DEF InStep, PairInStep, Like, Given, Wanted
  <2> QED
    BY <2>1, <2>2
<1> QED
  BY <1>1, <1>2, <1>3, <1>4, <1>5, <1>6, <1>7 DEF Next

-----------------------------------------------------------------------------
(* What a subscription gets of its feed's candles. *)

\* Before Start a subscription has been given all its feed handed out since.
Direct ==
  ~started =>
    \A i \in 1..nsub : \A n \in 1..Len(got[i]) :
      /\ got[i][n] = taken[Subscriptions[i].key][since[i] + n]
      /\ Given(i, got[i][n])

CandleInv ==
  /\ Direct
  /\ \A i \in 1..nsub : since[i] <= Len(taken[Subscriptions[i].key])
  /\ GetsItsCandles

LEMMA SequenceFacts ==
  ASSUME NEW S, NEW s \in Seq(S)
  PROVE  /\ Len(s) \in Nat /\ DOMAIN s = 1..Len(s)
         /\ s \o <<>> = s
         /\ \A c \in S : /\ Append(s, c) \in Seq(S)
                         /\ s \o <<c>> = Append(s, c)
                         /\ Len(Append(s, c)) = Len(s) + 1
                         /\ DOMAIN Append(s, c) = 1..(Len(s) + 1)
                         /\ Append(s, c)[Len(s) + 1] = c
                         /\ \A n \in 1..Len(s) : Append(s, c)[n] = s[n]
OBVIOUS

LEMMA ConcatFacts ==
  ASSUME NEW S, NEW s \in Seq(S), NEW t \in Seq(S)
  PROVE  /\ Len(s \o t) = Len(s) + Len(t)
         /\ \A n \in 1..Len(s) : (s \o t)[n] = s[n]
         /\ \A n \in 1..Len(t) : (s \o t)[Len(s) + n] = t[n]
OBVIOUS

LEMMA ListsAt ==
  ASSUME NEW seq, NEW all, NEW places, NEW place \in Surjection(DOMAIN seq, places),
         \A m, n \in DOMAIN seq : m < n => place[m] < place[n],
         \A n \in DOMAIN seq : seq[n] = all[place[n]]
  PROVE  Lists(seq, all, places)
BY DEF Lists

\* The feed hands out one candle more, that is not for the subscription,
LEMMA ListsOthers ==
  ASSUME NEW S, NEW seq \in Seq(S), NEW all \in Seq(S), NEW c \in S,
         NEW places, places \subseteq 1..Len(all), Lists(seq, all, places)
  PROVE  Lists(seq, Append(all, c), places)
<1>1. PICK place \in Surjection(DOMAIN seq, places) :
        /\ \A m, n \in DOMAIN seq : m < n => place[m] < place[n]
        /\ \A n \in DOMAIN seq : seq[n] = all[place[n]]
  BY DEF Lists
<1>2. \A n \in DOMAIN seq : place[n] \in 1..Len(all)
  BY DEF Surjection
<1> DEFINE longer == Append(all, c)
<1>3. \A n \in DOMAIN seq : longer[place[n]] = all[place[n]]
  BY <1>2, SequenceFacts
<1>4. \A n \in DOMAIN seq : seq[n] = longer[place[n]]
  BY <1>1, <1>3
<1> HIDE DEF longer
<1>5. Lists(seq, longer, places)
  BY <1>1, <1>4, ListsAt
<1> QED
  BY <1>5 DEF longer

\* or that is.
LEMMA ListsNext ==
  ASSUME NEW S, NEW seq \in Seq(S), NEW all \in Seq(S), NEW c \in S,
         NEW places, places \subseteq 1..Len(all), Lists(seq, all, places)
  PROVE  Lists(Append(seq, c), Append(all, c), places \cup {Len(all) + 1})
<1> DEFINE last == Len(seq) + 1
           end == Len(all) + 1
<1>1. PICK place \in Surjection(DOMAIN seq, places) :
        /\ \A m, n \in DOMAIN seq : m < n => place[m] < place[n]
        /\ \A n \in DOMAIN seq : seq[n] = all[place[n]]
  BY DEF Lists
<1>2. /\ DOMAIN seq = 1..Len(seq) /\ Len(seq) \in Nat /\ Len(all) \in Nat
      /\ DOMAIN Append(seq, c) = 1..last
      /\ Append(seq, c)[last] = c /\ Append(all, c)[end] = c
      /\ \A n \in 1..Len(seq) : Append(seq, c)[n] = seq[n]
      /\ \A n \in 1..Len(all) : Append(all, c)[n] = all[n]
  BY SequenceFacts
<1>3. /\ \A n \in 1..Len(seq) : place[n] \in places /\ place[n] \in 1..Len(all)
      /\ \A t \in places : \E n \in 1..Len(seq) : place[n] = t
  BY <1>2 DEF Surjection
<1> DEFINE longer == [n \in 1..last |-> IF n = last THEN end ELSE place[n]]
<1>4. /\ longer[last] = end /\ last \in 1..last
      /\ \A n \in 1..last : n = last \/ n \in 1..Len(seq)
      /\ \A n \in 1..Len(seq) : n \in 1..last /\ n # last
  BY <1>2
<1>5. \A n \in 1..Len(seq) : longer[n] = place[n]
  BY <1>4
<1>6. longer \in Surjection(DOMAIN Append(seq, c), places \cup {end})
  <2>1. longer \in [1..last -> places \cup {end}]
    BY <1>3, <1>4
  <2>2. \A t \in places \cup {end} : \E n \in 1..last : longer[n] = t
    BY <1>3, <1>4, <1>5
  <2> QED
    BY <1>2, <2>1, <2>2 DEF Surjection
<1> HIDE DEF longer
<1>7. ASSUME NEW m \in 1..last, NEW n \in 1..last, m < n
      PROVE  longer[m] < longer[n]
  <2>1. m \in 1..Len(seq)
    BY <1>2, <1>7
  <2>2. CASE n = last
    BY <1>2, <1>3, <1>4, <1>5, <2>1, <2>2
  <2>3. CASE n # last
    BY <1>1, <1>2, <1>4, <1>5, <1>7, <2>1, <2>3
  <2> QED
    BY <2>2, <2>3
<1>8. ASSUME NEW n \in 1..last
      PROVE  Append(seq, c)[n] = Append(all, c)[longer[n]]
  <2>1. CASE n = last
    BY <1>2, <1>4, <2>1
  <2>2. CASE n # last
    <3>1. n \in 1..Len(seq) /\ longer[n] = place[n] /\ place[n] \in 1..Len(all)
      BY <1>3, <1>4, <1>5, <2>2
    <3>2. Append(seq, c)[n] = seq[n] /\ Append(all, c)[place[n]] = all[place[n]]
      BY <1>2, <3>1
    <3>3. seq[n] = all[place[n]]
      BY <1>1, <1>2, <3>1
    <3> QED
      BY <3>1, <3>2, <3>3
  <2> QED
    BY <2>1, <2>2
<1> QED
  BY <1>2, <1>6, <1>7, <1>8, ListsAt

\* Everything from some place on.
LEMMA ListsRest ==
  ASSUME NEW S, NEW seq \in Seq(S), NEW all \in Seq(S), NEW from \in Nat,
         from + Len(seq) = Len(all),
         \A n \in 1..Len(seq) : seq[n] = all[from + n]
  PROVE  Lists(seq, all, from + 1 .. Len(all))
<1> DEFINE place == [n \in 1..Len(seq) |-> from + n]
<1>1. DOMAIN seq = 1..Len(seq) /\ Len(seq) \in Nat /\ Len(all) \in Nat
  BY SequenceFacts
<1>2. place \in [1..Len(seq) -> from + 1 .. Len(all)]
  BY <1>1
<1>3. ASSUME NEW t \in from + 1 .. Len(all)
      PROVE  \E n \in 1..Len(seq) : place[n] = t
  <2>1. t - from \in 1..Len(seq)
    BY <1>1
  <2>2. place[t - from] = t
    BY <1>1, <2>1
  <2> QED
    BY <2>1, <2>2
<1>4. place \in Surjection(DOMAIN seq, from + 1 .. Len(all))
  BY <1>1, <1>2, <1>3 DEF Surjection
<1>5. /\ \A m, n \in DOMAIN seq : m < n => place[m] < place[n]
      /\ \A n \in DOMAIN seq : seq[n] = all[place[n]]
  BY <1>1
<1> HIDE DEF place
<1> QED
  BY <1>4, <1>5 DEF Lists

LEMMA DirectGives ==
  ASSUME FeedInv, Direct, ~started
  PROVE  CandleInv
<1>1. ASSUME NEW i \in 1..nsub
      PROVE  /\ since[i] <= Len(taken[Subscriptions[i].key])
             /\ Lists(got[i] \o Pending(i), taken[Subscriptions[i].key], Due(i))
  <2> DEFINE k == Subscriptions[i].key
  <2>1. /\ k \in Key /\ since[i] \in Nat
        /\ got[i] \in Seq(FeedCandle) /\ Len(got[i]) \in Nat
        /\ taken[k] \in Seq(FeedCandle) /\ Len(taken[k]) \in Nat
        /\ since[i] + Len(got[i]) = Len(taken[k])
    BY Typed DEF FeedInv, SetUp
  <2>2. left[k] = {}
    BY <2>1 DEF FeedInv, SetUp, Calling
  <2>3. got[i] \o Pending(i) = got[i]
    BY <2>1, <2>2, SequenceFacts DEF Pending
  <2>4. \A n \in 1..Len(got[i]) :
          got[i][n] = taken[k][since[i] + n] /\ Given(i, got[i][n])
    BY DEF Direct
  <2> HIDE DEF k
  <2>5. ASSUME NEW m \in since[i] + 1 .. Len(taken[k])
        PROVE  Given(i, taken[k][m])
    <3>1. m - since[i] \in 1..Len(got[i]) /\ since[i] + (m - since[i]) = m
      BY <2>1
    <3> QED
      BY <2>4, <3>1
  <2>6. Due(i) = since[i] + 1 .. Len(taken[k])
    BY <2>5 DEF Due, k
  <2>7. Lists(got[i], taken[k], since[i] + 1 .. Len(taken[k]))
    BY <2>1, <2>4, ListsRest
  <2>8. since[i] <= Len(taken[k])
    BY <2>1
  <2> QED
    BY <2>3, <2>6, <2>7, <2>8 DEF k
<1> QED
  BY <1>1 DEF CandleInv, GetsItsCandles

LEMMA CandleBefore == (FeedInv /\ Direct /\ ~started => CandleInv)'
BY DirectGives, PTL

LEMMA CandleUnchanged ==
  ASSUME CandleInv, UNCHANGED <<nsub, since, got, taken, left, item>>,
         started => started'
  PROVE  CandleInv'
BY DEF CandleInv, Direct, GetsItsCandles, Pending, Due

LEMMA CandleSubscribe == FeedInv /\ Direct /\ Subscribe => Direct'
<1> SUFFICES ASSUME FeedInv, Direct, Subscribe
             PROVE  Direct'
  OBVIOUS
<1>0. UNCHANGED <<got, taken, started>> /\ ~started
  BY DEF Subscribe
<1>1. nsub \in Nat /\ nsub' = nsub + 1 /\ nsub' \in Sub
  BY KeysOfSubscriptions DEF FeedInv, TypeOK, Subscribe
<1>2. ASSUME NEW i \in 1..nsub', NEW n \in 1..Len(got[i])
      PROVE  /\ got[i][n] = taken[Subscriptions[i].key][since'[i] + n]
             /\ Given(i, got[i][n])
  <2>1. CASE i = nsub'
    <3>1. got[i] = <<>>
      BY <1>0, <1>1, <2>1 DEF FeedInv, SetUp
    <3> QED
      BY <1>2, <3>1
  <2>2. CASE i \in 1..nsub
    <3>1. since'[i] = since[i]
      BY <1>1, <2>2, KeysOfSubscriptions DEF FeedInv, TypeOK, Subscribe
    <3> QED
      BY <1>0, <1>2, <2>2, <3>1 DEF Direct
  <2> QED
    BY <1>1, <2>1, <2>2
<1> QED
  BY <1>0, <1>2 DEF Direct

LEMMA CandlePreload ==
  ASSUME FeedInv, Direct, NEW k \in Key, Preload(k)
  PROVE  Direct'
<1> DEFINE past == [n \in 1..History |-> Past(n)]
<1>0. /\ got' = [i \in Sub |-> IF i <= nsub /\ Subscriptions[i].key = k
                               THEN got[i] \o past ELSE got[i]]
      /\ taken' = [taken EXCEPT ![k] = @ \o past]
      /\ ~started /\ UNCHANGED <<nsub, since, started>>
  BY DEF Preload
<1>1. /\ past \in Seq(FeedCandle) /\ Len(past) = History /\ History \in Nat
      /\ \A n \in 1..History : past[n].complete
  BY PastIsCandles DEF Past
<1> HIDE DEF past
<1>8. ASSUME NEW s \in Seq(FeedCandle)
      PROVE  /\ Len(s \o past) = Len(s) + History
             /\ \A m \in 1..Len(s) : (s \o past)[m] = s[m]
             /\ \A m \in 1..History : (s \o past)[Len(s) + m] = past[m]
  <2>1. past \in Seq(FeedCandle)
    BY <1>1
  <2>2. /\ Len(s \o past) = Len(s) + Len(past)
        /\ \A m \in 1..Len(s) : (s \o past)[m] = s[m]
        /\ \A m \in 1..Len(past) : (s \o past)[Len(s) + m] = past[m]
    BY <2>1, ConcatFacts
  <2> QED
    BY <1>1, <2>2
<1>9. nsub' = nsub /\ since' = since /\ started' = started
  BY <1>0
<1> SUFFICES ASSUME NEW i \in 1..nsub, NEW n \in 1..Len(got'[i])
             PROVE  /\ got'[i][n] = taken'[Subscriptions[i].key][since[i] + n]
                    /\ Given(i, got'[i][n])
  BY <1>9 DEF Direct
<1>2. /\ i \in Sub /\ i <= nsub /\ Subscriptions[i].key \in Key
      /\ since[i] \in Nat /\ got[i] \in Seq(FeedCandle) /\ Len(got[i]) \in Nat
      /\ taken[Subscriptions[i].key] \in Seq(FeedCandle)
      /\ since[i] + Len(got[i]) = Len(taken[Subscriptions[i].key])
  BY <1>0, Typed DEF FeedInv, SetUp
<1>3. CASE Subscriptions[i].key # k
  BY <1>0, <1>2, <1>3 DEF Direct, FeedInv, TypeOK
<1>4. CASE Subscriptions[i].key = k
  <2>1. got'[i] = got[i] \o past /\ taken'[k] = taken[k] \o past
    BY <1>0, <1>2, <1>4 DEF FeedInv, TypeOK
  <2>2. /\ Len(got[i] \o past) = Len(got[i]) + History
        /\ \A m \in 1..Len(got[i]) : (got[i] \o past)[m] = got[i][m]
        /\ \A m \in 1..Len(taken[k]) : (taken[k] \o past)[m] = taken[k][m]
        /\ \A m \in 1..History : /\ (got[i] \o past)[Len(got[i]) + m] = past[m]
                                 /\ (taken[k] \o past)[Len(taken[k]) + m] = past[m]
    BY <1>2, <1>4, <1>8
  <2>3. CASE n \in 1..Len(got[i])
    <3>1. since[i] + n \in 1..Len(taken[k])
      BY <1>2, <1>4, <2>3
    <3>2. got'[i][n] = got[i][n] /\ taken'[k][since[i] + n] = taken[k][since[i] + n]
      BY <1>2, <1>4, <2>1, <2>2, <2>3, <3>1
    <3> QED
      BY <1>0, <1>4, <2>3, <3>2 DEF Direct
  <2>4. CASE n \notin 1..Len(got[i])
    <3> DEFINE m == n - Len(got[i])
    <3>1. Len(got'[i]) = Len(got[i]) + History
      BY <1>2, <2>1, <2>2
    <3>2. m \in 1..History /\ n = Len(got[i]) + m
      BY <1>1, <1>2, <2>4, <3>1
    <3>3. since[i] + n = Len(taken[k]) + m
      <4> DEFINE before == since[i]
      <4> DEFINE given == Len(got[i])
      <4> DEFINE all == Len(taken[k])
      <4>1. before + given = all /\ before \in Nat /\ given \in Nat /\ m \in Nat
        BY <1>2, <1>4, <3>2
      <4>2. n = given + m
        BY <3>2
      <4> HIDE DEF before, given, all, m
      <4>3. before + n = all + m
        BY <4>1, <4>2
      <4> QED
        BY <4>3 DEF before, all
    <3> HIDE DEF m
    <3>4. got'[i][n] = past[m] /\ taken'[k][since[i] + n] = past[m]
      BY <1>2, <1>4, <2>1, <2>2, <3>2, <3>3
    <3>5. Given(i, past[m])
      BY <1>1, <3>2 DEF Given, Wanted
    <3> QED
      BY <1>4, <3>4, <3>5
  <2> QED
    BY <2>3, <2>4
<1> QED
  BY <1>3, <1>4

\* The candle a goroutine hands out is the next of those to get.
LEMMA CandleHandOut ==
  ASSUME FeedInv, CandleInv, NEW k \in Key, NEW c \in FeedCandle, HandOut(k, c)
  PROVE  CandleInv'
<1>0. /\ UNCHANGED <<nsub, since, started, got>> /\ started
      /\ item' = [item EXCEPT ![k] = c]
      /\ left' = [left EXCEPT ![k] = Subscribers(k)]
      /\ taken' = [taken EXCEPT ![k] = Append(@, c)]
      /\ left[k] = {}
  BY DEF HandOut, FeedInv, SetUp, Calling
<1>1. ASSUME NEW i \in 1..nsub
      PROVE  /\ since[i] <= Len(taken'[Subscriptions[i].key])
             /\ Lists(got[i] \o Pending(i)', taken'[Subscriptions[i].key], Due(i)')
  <2>1. /\ i \in Sub /\ Subscriptions[i].key \in Key
        /\ since[i] \in Nat /\ got[i] \in Seq(FeedCandle)
        /\ taken[Subscriptions[i].key] \in Seq(FeedCandle)
        /\ Len(taken[Subscriptions[i].key]) \in Nat
        /\ since[i] <= Len(taken[Subscriptions[i].key])
        /\ Lists(got[i] \o Pending(i), taken[Subscriptions[i].key], Due(i))
    BY Typed DEF FeedInv, CandleInv, GetsItsCandles
  <2>2. CASE Subscriptions[i].key # k
    <3>1. /\ taken'[Subscriptions[i].key] = taken[Subscriptions[i].key]
          /\ left'[Subscriptions[i].key] = left[Subscriptions[i].key]
          /\ item'[Subscriptions[i].key] = item[Subscriptions[i].key]
      BY <1>0, <2>1, <2>2 DEF FeedInv, TypeOK
    <3>2. Pending(i)' = Pending(i)
      BY <3>1 DEF Pending
    <3>3. since' = since
      BY <1>0
    <3>4. Due(i)' = Due(i)
      BY <3>1, <3>3 DEF Due
    <3> QED
      BY <2>1, <3>1, <3>2, <3>4
  <2>3. CASE Subscriptions[i].key = k
    <3> DEFINE all == taken[k]
    <3>1. /\ taken'[k] = Append(all, c) /\ item'[k] = c /\ i \in left'[k]
          /\ all \in Seq(FeedCandle) /\ Len(all) \in Nat /\ since[i] <= Len(all)
      BY <1>0, <2>1, <2>3 DEF FeedInv, TypeOK, Subscribers
    <3>2. got[i] \o Pending(i) = got[i]
      BY <1>0, <2>1, <2>3, SequenceFacts DEF Pending
    <3>3. got[i] \o Pending(i)' = IF Given(i, c) THEN Append(got[i], c) ELSE got[i]
      <4>1. Pending(i)' = IF Given(i, c) THEN <<c>> ELSE <<>>
        BY <2>3, <3>1 DEF Pending
      <4>2. got[i] \o <<>> = got[i] /\ got[i] \o <<c>> = Append(got[i], c)
        BY <2>1, SequenceFacts
      <4>3. CASE Given(i, c)
        BY <4>1, <4>2, <4>3
      <4>4. CASE ~Given(i, c)
        BY <4>1, <4>2, <4>4
      <4> QED
        BY <4>3, <4>4
    <3>4. /\ Len(Append(all, c)) = Len(all) + 1
          /\ Append(all, c)[Len(all) + 1] = c
          /\ \A n \in 1..Len(all) : Append(all, c)[n] = all[n]
      BY <3>1, SequenceFacts
    <3>5. Due(i) = {n \in since[i] + 1 .. Len(all) : Given(i, all[n])}
      BY <2>3 DEF Due
    <3>6. Due(i)' = {n \in since[i] + 1 .. Len(all) + 1 : Given(i, Append(all, c)[n])}
      BY <1>0, <2>3, <3>1, <3>4 DEF Due
    <3> HIDE DEF all
    <3>7. Due(i)' = IF Given(i, c) THEN Due(i) \cup {Len(all) + 1} ELSE Due(i)
      <4>1. \A n \in since[i] + 1 .. Len(all) : n \in 1..Len(all) /\ n \in Nat
        BY <2>1, <3>1
      <4>2. since[i] + 1 .. Len(all) + 1 = (since[i] + 1 .. Len(all)) \cup {Len(all) + 1}
        BY <2>1, <3>1
      <4> QED
        BY <3>4, <3>5, <3>6, <4>1, <4>2
    <3>8. Due(i) \subseteq 1..Len(all)
      BY <2>1, <3>1, <3>5
    <3>9. Lists(got[i], all, Due(i))
      BY <2>1, <2>3, <3>2 DEF all
    <3>10. Lists(got[i] \o Pending(i)', taken'[k], Due(i)')
      <4>1. CASE Given(i, c)
        <5>1. Lists(Append(got[i], c), Append(all, c), Due(i) \cup {Len(all) + 1})
          BY <2>1, <3>1, <3>8, <3>9, ListsNext
        <5> QED
          BY <3>1, <3>3, <3>7, <4>1, <5>1
      <4>2. CASE ~Given(i, c)
        <5>1. Lists(got[i], Append(all, c), Due(i))
          BY <2>1, <3>1, <3>8, <3>9, ListsOthers
        <5> QED
          BY <3>1, <3>3, <3>7, <4>2, <5>1
      <4> QED
        BY <4>1, <4>2
    <3>11. since[i] <= Len(taken'[k])
      BY <2>1, <3>1, <3>4
    <3> QED
      BY <2>3, <3>10, <3>11
  <2> QED
    BY <2>2, <2>3
<1> QED
  BY <1>0, <1>1 DEF CandleInv, Direct, GetsItsCandles

\* What the goroutine held for the subscription it now has.
LEMMA CandleCall ==
  ASSUME FeedInv, CandleInv, NEW k \in Key, Call(k)
  PROVE  CandleInv'
<1>1. PICK m \in left[k] :
        /\ left' = [left EXCEPT ![k] = @ \ {m}]
        /\ got' = IF Given(m, item[k])
                  THEN [got EXCEPT ![m] = Append(@, item[k])] ELSE got
  BY DEF Call
<1>2. /\ UNCHANGED <<nsub, since, started, item, taken>> /\ started
  BY DEF Call, FeedInv, SetUp
<1>3. nsub \in Nat /\ m \in 1..nsub /\ m \in Sub /\ Subscriptions[m].key = k
  BY KeysOfSubscriptions DEF FeedInv, TypeOK, Subscribers, Calling
<1>4. ASSUME NEW i \in 1..nsub
      PROVE  got'[i] \o Pending(i)' = got[i] \o Pending(i)
  <2>1. /\ i \in Sub /\ Subscriptions[i].key \in Key
        /\ got[i] \in Seq(FeedCandle) /\ item[Subscriptions[i].key] \in FeedCandle
    BY Typed DEF FeedInv
  <2>2. CASE i = m
    <3>1. i \in left[k] /\ i \notin left'[k]
      BY <1>1, <2>2 DEF FeedInv, TypeOK
    <3>2. got'[i] = IF Given(i, item[k]) THEN Append(got[i], item[k]) ELSE got[i]
      BY <1>1, <2>1, <2>2 DEF FeedInv, TypeOK
    <3>3. Pending(i)' = <<>>
      BY <1>3, <2>2, <3>1 DEF Pending
    <3>4. Pending(i) = IF Given(i, item[k]) THEN <<item[k]>> ELSE <<>>
      BY <1>3, <2>2, <3>1 DEF Pending
    <3>5. item[k] \in FeedCandle /\ Append(got[i], item[k]) \in Seq(FeedCandle)
      BY <1>3, <2>1, <2>2, SequenceFacts
    <3>6. CASE Given(i, item[k])
      <4>1. got'[i] \o Pending(i)' = Append(got[i], item[k])
        BY <3>2, <3>3, <3>5, <3>6, SequenceFacts
      <4>2. got[i] \o Pending(i) = Append(got[i], item[k])
        BY <2>1, <3>4, <3>5, <3>6, SequenceFacts
      <4> QED
        BY <4>1, <4>2
    <3>7. CASE ~Given(i, item[k])
      BY <3>2, <3>3, <3>4, <3>7
    <3> QED
      BY <3>6, <3>7
  <2>3. CASE i # m
    <3>1. got'[i] = got[i]
      BY <1>1, <2>1, <2>3 DEF FeedInv, TypeOK
    <3>2. i \in left'[Subscriptions[i].key] <=> i \in left[Subscriptions[i].key]
      BY <1>1, <2>1, <2>3 DEF FeedInv, TypeOK
    <3> QED
      BY <1>2, <3>1, <3>2 DEF Pending
  <2> QED
    BY <2>2, <2>3
<1>5. \A i \in 1..nsub : Due(i)' = Due(i)
  BY <1>2 DEF Due
<1> QED
  BY <1>2, <1>4, <1>5 DEF CandleInv, Direct, GetsItsCandles

LEMMA CandleStep == FeedInv /\ CandleInv /\ [Next]_feedVars => CandleInv'
<1> SUFFICES ASSUME FeedInv, CandleInv, [Next]_feedVars  PROVE CandleInv'
  OBVIOUS
<1>0. FeedInv' /\ Direct
  BY FeedStep DEF CandleInv
<1>1. CASE Subscribe
  BY <1>0, <1>1, CandleSubscribe, CandleBefore DEF Subscribe
<1>2. CASE Start
  BY <1>2, CandleUnchanged DEF Start
<1>3. CASE Stop
  BY <1>3, CandleUnchanged DEF Stop
<1>4. ASSUME NEW k \in Key, Preload(k)
      PROVE  CandleInv'
  BY <1>0, <1>4, CandlePreload, CandleBefore DEF Preload
<1>5. ASSUME NEW k \in Key, Connect(k) \/ Called(k) \/ End(k)
      PROVE  CandleInv'
  BY <1>5, CandleUnchanged DEF Connect, Called, End
<1>6. ASSUME NEW k \in Key, Step(k)
      PROVE  CandleInv'
  BY <1>5, <1>6, CandleCall DEF Step, Done
<1>7. ASSUME NEW k \in Key, Sends(k) \/ ReceiveErr(k)
      PROVE  CandleInv'
  <2>1. Len(taken[k]) \in Nat
    BY DEF FeedInv, TypeOK
  <2> QED
    BY <1>7, <2>1, SentIsCandle, CandleHandOut DEF Sends, Receive, ReceiveErr
<1>8. CASE UNCHANGED feedVars
  BY <1>8, CandleUnchanged DEF feedVars
<1> QED
  BY <1>1, <1>2, <1>3, <1>4, <1>5, <1>6, <1>7, <1>8 DEF Next

LEMMA CandleInitial == Init => CandleInv
BY DEF Init, CandleInv, Direct, GetsItsCandles

LEMMA FeedInvariant == Spec => [](FeedInv /\ CandleInv)
BY FeedInitial, FeedStep, CandleInitial, CandleStep, PTL DEF Spec

\* The state of the data feed keeps its type, the places of its goroutines
\* and what they hold included.
THEOREM TypeCorrect == Spec => []TypeOK
<1>1. FeedInv => TypeOK
  BY DEF FeedInv
<1> QED
  BY <1>1, FeedInvariant, PTL

LEMMA AppendedIsPrefix ==
  ASSUME NEW S, NEW s \in Seq(S), NEW c \in S
  PROVE  /\ IsPrefix(s, s) /\ Len(s) <= Len(s) + 1
         /\ IsPrefix(s, Append(s, c)) /\ Len(Append(s, c)) <= Len(s) + 1
<1>1. SubSeq(Append(s, c), 1, Len(s)) = SubSeq(s, 1, Len(s))
  OBVIOUS
<1> QED
  BY <1>1 DEF IsPrefix

LEMMA InTurn == FeedInv => ServedInTurn
<1> SUFFICES ASSUME FeedInv, NEW i \in 1..nsub, NEW j \in 1..nsub, i < j, Like(i, j)
             PROVE  IsPrefix(got[j], got[i]) /\ Len(got[i]) <= Len(got[j]) + 1
  BY DEF ServedInTurn, Like
<1>1. PairInStep(i, j)
  BY DEF FeedInv, InStep
<1>2. /\ got[j] \in Seq(FeedCandle)
      /\ item[Subscriptions[i].key] \in FeedCandle
  BY Typed DEF FeedInv
<1> QED
  BY <1>1, <1>2, AppendedIsPrefix DEF PairInStep

\* Of two like subscriptions the earlier one is called first with every
\* candle, and neither falls further behind: the loop over
\* SubscriptionsByFeedKey ends before the next candle is received.
THEOREM SubscriptionsInTurn == Spec => []ServedInTurn
BY InTurn, FeedInvariant, PTL

\* A subscription is given the candles of its feed that it wants, and the
\* errors, each once and in the order the exchange sent them, from the
\* preloaded ones on: of what was handed out only the one under way is owing.
THEOREM SubscriptionsComplete == Spec => []GetsItsCandles
<1>1. CandleInv => GetsItsCandles
  BY DEF CandleInv
<1> QED
  BY <1>1, FeedInvariant, PTL
=============================================================================
