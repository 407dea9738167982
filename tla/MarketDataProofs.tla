-------------------------- MODULE MarketDataProofs --------------------------
(***************************************************************************)
(* What the websocket sends reaches the subscriptions, for any number of   *)
(* feeds, subscriptions, messages and failures.                            *)
(***************************************************************************)
EXTENDS MarketData, TLAPS

\* The websocket and the data feed with what is proved of each on its own.
Websocket == INSTANCE UpbitStreamProofs
Feeds == INSTANCE DataFeedProofs

\* A bar of the websocket carries the number of the message it was made of.
Bar == [msg : Nat \ {0}, complete : BOOLEAN]

\* The goroutines of the websocket: the candle they push was read.
StreamPart ==
  /\ nread \in Nat
  /\ pc \in [Stream!Runner -> Stream!Place]
  /\ outbox \in [Stream!Runner -> Seq([key : Key, candle : Bar])]
  /\ \A r \in Stream!Runner : pc[r] = "handle" => nread > 0

\* The goroutines of the feeds: the subscriptions that are yet to be called
\* are the feed's, and there are none unless a candle is handed out.
FeedPart ==
  /\ nsub \in 0..Len(Subscriptions)
  /\ at \in [Key -> {"none", "select", "deliver", "end"}]
  /\ item \in [Key -> Feed!FeedCandle]
  /\ left \in [Key -> SUBSET (1..nsub)]
  /\ got \in [Feed!Sub -> Seq(Feed!FeedCandle)]
  /\ sent \in [Key -> Seq(Feed!FeedCandle)]
  /\ \A k \in Key : /\ left[k] \subseteq Feed!Subscribers(k)
                    /\ at[k] # "deliver" => left[k] = {}
  /\ \A i \in Feed!Sub : i > nsub => got[i] = <<>>

\* Until the data feed is started nothing of the websocket is taken.
Quiet ==
  ~started => /\ \A k \in Key : at[k] = "none" /\ sent[k] = <<>>
              /\ \A i \in 1..nsub : Streamed(got[i]) = {}

MarketInv == StreamPart /\ FeedPart /\ Quiet /\ StreamReachesSubscription

-----------------------------------------------------------------------------
LEMMA SequenceFacts ==
  ASSUME NEW S, NEW s \in Seq(S)
  PROVE  /\ Len(s) \in Nat /\ DOMAIN s = 1..Len(s)
         /\ s \o <<>> = s
         /\ \A c \in S : /\ Append(s, c) \in Seq(S)
                         /\ s \o <<c>> = Append(s, c)
                         /\ Len(Append(s, c)) = Len(s) + 1
                         /\ DOMAIN Append(s, c) = 1..(Len(s) + 1)
                         /\ Append(s, c)[Len(s) + 1] = c
                         /\ \A n \in 1..Len(s) : Append(s, c)[n] = s[n]
OBVIOUS

LEMMA ConcatFacts ==
  ASSUME NEW S, NEW s \in Seq(S), NEW t \in Seq(S)
  PROVE  /\ s \o t \in Seq(S)
         /\ Len(s \o t) = Len(s) + Len(t)
         /\ DOMAIN (s \o t) = 1..(Len(s) + Len(t))
         /\ \A n \in 1..Len(s) : (s \o t)[n] = s[n]
         /\ \A n \in 1..Len(t) : (s \o t)[Len(s) + n] = t[n]
OBVIOUS

LEMMA ElementOfSequence ==
  ASSUME NEW S, NEW s \in Seq(S), NEW i \in DOMAIN s
  PROVE  s[i] \in S
OBVIOUS

LEMMA KeysOfSubscriptions ==
  /\ \A i \in Feed!Sub : Subscriptions[i].key \in Key
  /\ Feed!Sub = 1..Len(Subscriptions) /\ Len(Subscriptions) \in Nat
<1>1. Subscriptions \in Seq([key : Key, onCandleClose : BOOLEAN])
  BY MarketAssumption DEF MarketAssumption
<1>2. Feed!Sub = 1..Len(Subscriptions) /\ Len(Subscriptions) \in Nat
  BY <1>1 DEF Feed!Sub
<1>3. \A i \in Feed!Sub : Subscriptions[i] \in [key : Key, onCandleClose : BOOLEAN]
  BY <1>1, ElementOfSequence DEF Feed!Sub
<1> QED
  BY <1>2, <1>3

LEMMA CandleFacts ==
  /\ Feed!Empty \in Feed!FeedCandle /\ ~Live(Feed!Empty)
  /\ \A c \in Bar : c \in Feed!FeedCandle /\ Live(c) /\ c # Feed!Empty
BY DEF Feed!Empty, Feed!FeedCandle, Bar, Live

LEMMA PastIsNotLive ==
  /\ [n \in 1..History |-> Feed!Past(n)] \in Seq(Feed!FeedCandle)
  /\ Len([n \in 1..History |-> Feed!Past(n)]) = History /\ History \in Nat
  /\ \A n \in 1..History : ~Live([m \in 1..History |-> Feed!Past(m)][n])
<1>1. History \in Nat
  BY MarketAssumption DEF MarketAssumption
<1>2. \A n \in 1..History : Feed!Past(n) \in Feed!FeedCandle /\ ~Live(Feed!Past(n))
  BY <1>1 DEF Feed!Past, Feed!FeedCandle, Live
<1> QED
  BY <1>1, <1>2

-----------------------------------------------------------------------------
(* Two sequences that hold the same at places of each. *)

LEMMA SameWith ==
  ASSUME NEW s, NEW here, NEW t, NEW there, NEW place \in Surjection(here, there),
         \A m, n \in here : m < n => place[m] < place[n],
         \A n \in here : s[n] = t[place[n]]
  PROVE  SameAt(s, here, t, there)
BY DEF SameAt

LEMMA SameNowhere ==
  ASSUME NEW s, NEW t
  PROVE  SameAt(s, {}, t, {})
<1> DEFINE none == [n \in {} |-> n]
<1>1. none \in Surjection({}, {})
  BY DEF Surjection
<1> QED
  BY <1>1, SameWith

\* One of them grows by something that is at none of the places,
LEMMA SameOthers ==
  ASSUME NEW S, NEW s \in Seq(S), NEW t \in Seq(S), NEW c \in S,
         NEW here, here \subseteq 1..Len(s), NEW there, there \subseteq 1..Len(t),
         SameAt(s, here, t, there)
  PROVE  SameAt(Append(s, c), here, t, there)
<1>1. PICK place \in Surjection(here, there) :
        /\ \A m, n \in here : m < n => place[m] < place[n]
        /\ \A n \in here : s[n] = t[place[n]]
  BY DEF SameAt
<1> DEFINE longer == Append(s, c)
<1>2. \A n \in here : longer[n] = s[n]
  BY SequenceFacts
<1> HIDE DEF longer
<1>3. \A n \in here : longer[n] = t[place[n]]
  BY <1>1, <1>2
<1>4. SameAt(longer, here, t, there)
  BY <1>1, <1>3, SameWith
<1> QED
  BY <1>4 DEF longer

LEMMA SameThere ==
  ASSUME NEW s, NEW here, NEW t, NEW u, NEW there, SameAt(s, here, t, there),
         \A n \in there : u[n] = t[n]
  PROVE  SameAt(s, here, u, there)
<1>1. PICK place \in Surjection(here, there) :
        /\ \A m, n \in here : m < n => place[m] < place[n]
        /\ \A n \in here : s[n] = t[place[n]]
  BY DEF SameAt
<1>2. \A n \in here : s[n] = u[place[n]]
  BY <1>1 DEF Surjection
<1> QED
  BY <1>1, <1>2, SameWith

\* or both by the same.
LEMMA SameNext ==
  ASSUME NEW S, NEW s \in Seq(S), NEW t \in Seq(S), NEW c \in S,
         NEW here, here \subseteq 1..Len(s), NEW there, there \subseteq 1..Len(t),
         SameAt(s, here, t, there)
  PROVE  SameAt(Append(s, c), here \cup {Len(s) + 1},
                Append(t, c), there \cup {Len(t) + 1})
<1> DEFINE last == Len(s) + 1
           end == Len(t) + 1
<1>1. PICK place \in Surjection(here, there) :
        /\ \A m, n \in here : m < n => place[m] < place[n]
        /\ \A n \in here : s[n] = t[place[n]]
  BY DEF SameAt
<1>2. /\ Len(s) \in Nat /\ Len(t) \in Nat
      /\ Append(s, c)[last] = c /\ Append(t, c)[end] = c
      /\ \A n \in here : n \in Nat /\ n < last /\ Append(s, c)[n] = s[n]
      /\ \A n \in there : n \in Nat /\ n < end /\ Append(t, c)[n] = t[n]
  <2>1. \A n \in 1..Len(s) : n \in Nat /\ n < Len(s) + 1
    BY SequenceFacts
  <2>2. \A n \in 1..Len(t) : n \in Nat /\ n < Len(t) + 1
    BY SequenceFacts
  <2> QED
    BY <2>1, <2>2, SequenceFacts
<1>3. /\ \A n \in here : place[n] \in there
      /\ \A m \in there : \E n \in here : place[n] = m
  BY DEF Surjection
<1> DEFINE longer == [n \in here \cup {last} |-> IF n = last THEN end ELSE place[n]]
<1>4. last \notin here /\ last \in Nat
  BY <1>2
<1>5. longer[last] = end /\ \A n \in here : longer[n] = place[n]
  BY <1>4
<1>6. longer \in Surjection(here \cup {last}, there \cup {end})
  <2>1. longer \in [here \cup {last} -> there \cup {end}]
    BY <1>3
  <2>2. \A m \in there \cup {end} : \E n \in here \cup {last} : longer[n] = m
    BY <1>3, <1>5
  <2> HIDE DEF longer
  <2> QED
    BY <2>1, <2>2 DEF Surjection
<1> HIDE DEF longer
<1>7. ASSUME NEW m \in here \cup {last}, NEW n \in here \cup {last}, m < n
      PROVE  longer[m] < longer[n]
  <2>1. m \in here
    BY <1>2, <1>4, <1>7
  <2>2. CASE n = last
    BY <1>2, <1>3, <1>5, <2>1, <2>2
  <2>3. CASE n # last
    BY <1>1, <1>5, <1>7, <2>1, <2>3
  <2> QED
    BY <2>2, <2>3
<1>8. ASSUME NEW n \in here \cup {last}
      PROVE  Append(s, c)[n] = Append(t, c)[longer[n]]
  <2>1. CASE n = last
    BY <1>2, <1>5, <2>1
  <2>2. CASE n # last
    <3>1. n \in here /\ longer[n] = place[n] /\ place[n] \in there
      BY <1>3, <1>5, <2>2
    <3> QED
      BY <1>1, <1>2, <3>1
  <2> QED
    BY <2>1, <2>2
<1> DEFINE sc == Append(s, c)
           tc == Append(t, c)
           after == here \cup {last}
           beyond == there \cup {end}
<1>9. /\ longer \in Surjection(after, beyond)
      /\ \A m, n \in after : m < n => longer[m] < longer[n]
      /\ \A n \in after : sc[n] = tc[longer[n]]
  BY <1>6, <1>7, <1>8
<1> HIDE DEF sc, tc, after, beyond
<1>10. SameAt(sc, after, tc, beyond)
  BY <1>9, SameWith
<1> QED
  BY <1>10 DEF sc, tc, after, beyond

LEMMA StreamedNext ==
  ASSUME NEW s \in Seq(Feed!FeedCandle), NEW c \in Feed!FeedCandle
  PROVE  /\ Streamed(s) \subseteq 1..Len(s)
         /\ Streamed(Append(s, c)) =
              IF Live(c) THEN Streamed(s) \cup {Len(s) + 1} ELSE Streamed(s)
<1>1. /\ DOMAIN s = 1..Len(s) /\ DOMAIN Append(s, c) = 1..(Len(s) + 1)
      /\ Len(s) \in Nat /\ Append(s, c)[Len(s) + 1] = c
      /\ \A n \in 1..Len(s) : Append(s, c)[n] = s[n]
  BY SequenceFacts
<1>2. 1..(Len(s) + 1) = 1..Len(s) \cup {Len(s) + 1}
  BY <1>1
<1> QED
  BY <1>1, <1>2 DEF Streamed

LEMMA WantedNext ==
  ASSUME NEW i, NEW s \in Seq(Feed!FeedCandle), NEW c \in Feed!FeedCandle
  PROVE  /\ WantedOf(i, s) \subseteq 1..Len(s)
         /\ WantedOf(i, Append(s, c)) =
              IF Feed!Wanted(i, c) THEN WantedOf(i, s) \cup {Len(s) + 1}
                                   ELSE WantedOf(i, s)
<1>1. /\ DOMAIN s = 1..Len(s) /\ DOMAIN Append(s, c) = 1..(Len(s) + 1)
      /\ Len(s) \in Nat /\ Append(s, c)[Len(s) + 1] = c
      /\ \A n \in 1..Len(s) : Append(s, c)[n] = s[n]
  BY SequenceFacts
<1>2. 1..(Len(s) + 1) = 1..Len(s) \cup {Len(s) + 1}
  BY <1>1
<1> QED
  BY <1>1, <1>2 DEF WantedOf

-----------------------------------------------------------------------------
(* The websocket's goroutines. *)

\* A goroutine goes elsewhere; it handles what was read.
LEMMA StreamGoes ==
  ASSUME StreamPart, NEW r \in Stream!Runner, NEW from, NEW to \in Stream!Place,
         Stream!Goto(r, from, to), outbox' = outbox,
         nread' \in Nat, nread' >= nread,
         to = "handle" => nread' > 0
  PROVE  StreamPart'
<1>1. pc' = [pc EXCEPT ![r] = to]
  BY DEF Stream!Goto
<1>2. pc' \in [Stream!Runner -> Stream!Place]
  BY <1>1 DEF StreamPart
<1>3. ASSUME NEW q \in Stream!Runner, pc'[q] = "handle"
      PROVE  nread' > 0
  BY <1>1, <1>3 DEF StreamPart
<1> QED
  BY <1>2, <1>3 DEF StreamPart

LEMMA StreamRests ==
  ASSUME StreamPart, UNCHANGED <<pc, outbox, nread>>
  PROVE  StreamPart'
BY DEF StreamPart

LEMMA StreamPushes ==
  ASSUME StreamPart, NEW r \in Stream!Runner, NEW k \in Key, Stream!Push(r, k)
  PROVE  StreamPart' /\ sent' = sent
<1> DEFINE Out(bars) ==
      [i \in DOMAIN bars |->
         [key |-> k, candle |-> [msg |-> nread, complete |-> (bars[i] = "final")]]]
<1>1. /\ Stream!Goto(r, "handle", "handle") /\ nread' = nread /\ sent' = sent
      /\ \E bars \in Stream!Bars : outbox' = [outbox EXCEPT ![r] = Out(bars)]
  BY DEF Stream!Push, Stream!history
<1>2. pc[r] = "handle" /\ pc' = pc
  BY <1>1 DEF Stream!Goto, StreamPart
<1>3. nread \in Nat \ {0}
  BY <1>2 DEF StreamPart
<1>4. ASSUME NEW bars \in Stream!Bars
      PROVE  Out(bars) \in Seq([key : Key, candle : Bar])
  <2>1. \E n \in Nat : DOMAIN bars = 1..n
    BY DEF Stream!Bars
  <2>2. PICK n \in Nat : DOMAIN bars = 1..n
    BY <2>1
  <2>3. \A i \in 1..n : [key |-> k, candle |-> [msg |-> nread, complete |-> (bars[i] = "final")]]
                          \in [key : Key, candle : Bar]
    BY <1>3 DEF Bar
  <2> QED
    BY <2>2, <2>3
<1> HIDE DEF Out
<1>5. outbox' \in [Stream!Runner -> Seq([key : Key, candle : Bar])]
  BY <1>1, <1>4 DEF StreamPart
<1> QED
  BY <1>1, <1>2, <1>5 DEF StreamPart

LEMMA StreamSteps ==
  ASSUME StreamPart, NEW r \in Stream!Runner, Stream!RunnerStep(r)
  PROVE  StreamPart' /\ sent' = sent
<1>0. nread \in Nat
  BY DEF StreamPart
<1> USE DEF Stream!local, Stream!history
<1>1. CASE Stream!wsRunIfNeeded(r)
  <2> DEFINE to == IF wsRunning THEN "end" ELSE "begin"
  <2>1. Stream!Goto(r, "spawned", to) /\ UNCHANGED <<outbox, nread, sent>>
    BY <1>1 DEF Stream!wsRunIfNeeded
  <2>2. to \in Stream!Place /\ to # "handle"
    BY DEF Stream!Place
  <2> HIDE DEF to
  <2> QED
    BY <1>0, <2>1, <2>2, StreamGoes
<1>2. CASE Stream!Loop(r)
  <2> DEFINE to == IF cancelled THEN "unwind" ELSE "read"
  <2>1. Stream!Goto(r, "loop", to) /\ UNCHANGED <<outbox, nread, sent>>
    BY <1>2 DEF Stream!Loop
  <2>2. to \in Stream!Place /\ to # "handle"
    BY DEF Stream!Place
  <2> HIDE DEF to
  <2> QED
    BY <1>0, <2>1, <2>2, StreamGoes
<1>3. CASE Stream!ReadFails(r)
  <2> DEFINE to == IF retries[r] < MaxWSRetries THEN "sleep" ELSE "unwind"
  <2>1. Stream!Goto(r, "read", to) /\ UNCHANGED <<outbox, nread, sent>>
    BY <1>3 DEF Stream!ReadFails
  <2>2. to \in Stream!Place /\ to # "handle"
    BY DEF Stream!Place
  <2> HIDE DEF to
  <2> QED
    BY <1>0, <2>1, <2>2, StreamGoes
<1>4. ASSUME NEW p \in Pair, Stream!ReadCandle(r, p)
      PROVE  StreamPart' /\ sent' = sent
  <2>1. /\ Stream!Goto(r, "read", "handle") /\ UNCHANGED <<outbox, sent>>
        /\ nread' = nread + 1
    BY <1>4 DEF Stream!ReadCandle, Stream!Arrives
  <2>2. "handle" \in Stream!Place
    BY DEF Stream!Place
  <2> QED
    BY <1>0, <2>1, <2>2, StreamGoes
<1>5. CASE Stream!ReadErrorMessage(r)
  <2>1. /\ Stream!Goto(r, "read", "loop") /\ UNCHANGED <<outbox, sent>>
        /\ nread' = nread + 1
    BY <1>5 DEF Stream!ReadErrorMessage, Stream!Arrives
  <2>2. "loop" \in Stream!Place
    BY DEF Stream!Place
  <2> QED
    BY <1>0, <2>1, <2>2, StreamGoes
<1>6. ASSUME NEW k \in Key, Stream!Push(r, k)
      PROVE  StreamPart' /\ sent' = sent
  BY <1>6, StreamPushes
<1>7. CASE \/ Stream!Begin(r) \/ Stream!Dial(r) \/ Stream!DialFail(r)
           \/ Stream!WriteSubscription(r) \/ Stream!WriteFail(r)
           \/ Stream!Reconnect(r) \/ Stream!Handled(r)
           \/ Stream!Unwind(r) \/ Stream!Leave(r)
  <2> DEFINE others == {"dial", "subscribe", "unwind", "loop", "leave", "end"}
  <2>1. /\ \E from \in Stream!Place, to \in others : Stream!Goto(r, from, to)
        /\ UNCHANGED <<outbox, nread, sent>>
    BY <1>7 DEF Stream!Begin, Stream!Dial, Stream!DialFail, Stream!WriteSubscription,
                Stream!WriteFail, Stream!Reconnect, Stream!Handled, Stream!Unwind,
                Stream!Leave, Stream!Place
  <2>2. \A to \in others : to \in Stream!Place /\ to # "handle"
    BY DEF Stream!Place
  <2> HIDE DEF others
  <2> QED
    BY <1>0, <2>1, <2>2, StreamGoes
<1> QED
  BY <1>1, <1>2, <1>3, <1>4, <1>5, <1>6, <1>7 DEF Stream!RunnerStep

\* A bar is taken from a goroutine that holds one.
LEMMA StreamSends ==
  ASSUME StreamPart, NEW r \in Stream!Runner, Stream!Send(r)
  PROVE  /\ StreamPart'
         /\ Head(outbox[r]).key \in Key /\ Head(outbox[r]).candle \in Bar
<1> DEFINE box == [key : Key, candle : Bar]
<1>1. outbox[r] \in Seq(box) /\ outbox[r] # <<>>
  BY DEF StreamPart, Stream!Send
<1>2. ASSUME NEW s \in Seq(box), s # <<>>
      PROVE  Head(s) \in box /\ Tail(s) \in Seq(box)
  <2> HIDE DEF box
  <2> QED
    BY <1>2
<1>3. Head(outbox[r]) \in box /\ Tail(outbox[r]) \in Seq(box)
  BY <1>1, <1>2
<1>4. /\ outbox' = [outbox EXCEPT ![r] = Tail(@)] /\ nread' = nread
      /\ Stream!Goto(r, "handle", "handle")
  BY DEF Stream!Send
<1>5. pc' = pc
  BY <1>4 DEF Stream!Goto, StreamPart
<1>6. outbox' \in [Stream!Runner -> Seq(box)]
  BY <1>3, <1>4 DEF StreamPart
<1> QED
  BY <1>3, <1>4, <1>5, <1>6 DEF StreamPart

-----------------------------------------------------------------------------
(* The goroutines of the feeds. *)

LEMMA Typed ==
  ASSUME FeedPart, NEW i \in 1..nsub
  PROVE  /\ nsub \in Nat /\ i \in Feed!Sub /\ Subscriptions[i].key \in Key
         /\ got[i] \in Seq(Feed!FeedCandle)
         /\ sent[Subscriptions[i].key] \in Seq(Feed!FeedCandle)
         /\ item[Subscriptions[i].key] \in Feed!FeedCandle
<1>1. nsub \in Nat /\ i \in Feed!Sub
  BY KeysOfSubscriptions DEF FeedPart
<1>2. Subscriptions[i].key \in Key
  BY <1>1, KeysOfSubscriptions
<1> QED
  BY <1>1, <1>2 DEF FeedPart

\* What a subscription has and is about to get is what was sent for it.
Carried(i) ==
  LET held == got[i] \o Feed!Pending(i)
      all  == sent[Subscriptions[i].key]
  IN  SameAt(held, Streamed(held), all, WantedOf(i, all))

LEMMA CarriedMeans == StreamReachesSubscription <=> \A i \in 1..nsub : Carried(i)
BY DEF StreamReachesSubscription, Carried

LEMMA CarriedMeansNext ==
  StreamReachesSubscription' <=> \A i \in 1..nsub' : Carried(i)'
BY DEF StreamReachesSubscription, Carried

\* Nothing was sent and nothing taken.
LEMMA QuietCarries ==
  ASSUME FeedPart, Quiet, ~started
  PROVE  StreamReachesSubscription
<1>1. ASSUME NEW i \in 1..nsub  PROVE Carried(i)
  <2> DEFINE k == Subscriptions[i].key
  <2>1. k \in Key /\ got[i] \in Seq(Feed!FeedCandle)
    BY Typed
  <2>2. at[k] = "none" /\ sent[k] = <<>> /\ Streamed(got[i]) = {}
    BY <2>1 DEF Quiet
  <2>3. left[k] = {}
    BY <2>1, <2>2 DEF FeedPart
  <2>4. got[i] \o Feed!Pending(i) = got[i]
    BY <2>1, <2>3, SequenceFacts DEF Feed!Pending
  <2>5. WantedOf(i, <<>>) = {}
    BY DEF WantedOf
  <2> QED
    BY <2>2, <2>4, <2>5, SameNowhere DEF Carried
<1> QED
  BY <1>1, CarriedMeans

LEMMA QuietCarriesNext ==
  (FeedPart /\ Quiet /\ ~started => StreamReachesSubscription)'
BY QuietCarries, PTL

LEMMA FeedRests ==
  ASSUME FeedPart, Quiet, StreamReachesSubscription,
         UNCHANGED <<nsub, started, at, item, left, got, sent>>
  PROVE  FeedPart' /\ Quiet' /\ StreamReachesSubscription'
<1>1. FeedPart'
  BY DEF FeedPart, Feed!Subscribers
<1>2. Quiet'
  BY DEF Quiet
<1>3. StreamReachesSubscription'
  BY DEF StreamReachesSubscription, Feed!Pending, Feed!Given, Feed!Wanted, WantedOf
<1> QED
  BY <1>1, <1>2, <1>3

LEMMA FeedSubscribes ==
  ASSUME FeedPart, Quiet, Feed!Subscribe, sent' = sent
  PROVE  FeedPart' /\ Quiet' /\ StreamReachesSubscription'
<1>0. /\ nsub' = nsub + 1 /\ nsub < Len(Subscriptions) /\ ~started
      /\ UNCHANGED <<started, at, item, left, got, sent>>
  BY DEF Feed!Subscribe
<1>1. nsub \in Nat /\ nsub' \in 0..Len(Subscriptions) /\ nsub' \in Feed!Sub
  BY <1>0, KeysOfSubscriptions DEF FeedPart
<1>2. FeedPart'
  <2>1. left \in [Key -> SUBSET (1..nsub')]
    BY <1>0, <1>1 DEF FeedPart
  <2>2. \A k \in Key : left[k] = {}
    BY <1>0 DEF FeedPart, Quiet
  <2> QED
    BY <1>0, <1>1, <2>1, <2>2 DEF FeedPart
<1>3. Streamed(got[nsub']) = {}
  <2>1. got[nsub'] = <<>>
    BY <1>0, <1>1 DEF FeedPart
  <2> QED
    BY <2>1 DEF Streamed
<1>4. \A i \in 1..nsub' : i \in 1..nsub \/ i = nsub'
  BY <1>0, <1>1
<1>5. Quiet'
  BY <1>0, <1>3, <1>4 DEF Quiet
<1> QED
  BY <1>0, <1>2, <1>5, QuietCarriesNext

LEMMA FeedPreloads ==
  ASSUME FeedPart, Quiet, NEW k \in Key, Feed!Preload(k), sent' = sent
  PROVE  FeedPart' /\ Quiet' /\ StreamReachesSubscription'
<1> DEFINE past == [n \in 1..History |-> Feed!Past(n)]
<1>0. /\ got' = [i \in Feed!Sub |-> IF i <= nsub /\ Subscriptions[i].key = k
                                    THEN got[i] \o past ELSE got[i]]
      /\ ~started /\ UNCHANGED <<nsub, started, at, item, left, sent>>
  BY DEF Feed!Preload
<1>1. /\ past \in Seq(Feed!FeedCandle)
      /\ Len(past) = History /\ \A n \in 1..History : ~Live(past[n])
  BY PastIsNotLive
<1> HIDE DEF past
<1>2. ASSUME NEW s \in Seq(Feed!FeedCandle)
      PROVE  /\ s \o past \in Seq(Feed!FeedCandle)
             /\ Streamed(s) = {} => Streamed(s \o past) = {}
  <2>1. /\ s \o past \in Seq(Feed!FeedCandle)
        /\ DOMAIN (s \o past) = 1..(Len(s) + Len(past))
        /\ \A n \in 1..Len(s) : (s \o past)[n] = s[n]
        /\ \A n \in 1..Len(past) : (s \o past)[Len(s) + n] = past[n]
    <3> DEFINE S == Feed!FeedCandle
    <3>1. s \in Seq(S) /\ past \in Seq(S)
      BY <1>1
    <3> HIDE DEF S
    <3>2. s \o past \in Seq(S)
      BY <3>1, ConcatFacts
    <3> QED
      BY <3>1, <3>2, ConcatFacts DEF S
  <2>2. DOMAIN s = 1..Len(s) /\ Len(s) \in Nat /\ Len(past) \in Nat
    BY <1>1, SequenceFacts
  <2>3. ASSUME Streamed(s) = {}, NEW n \in 1..(Len(s) + Len(past))
        PROVE  ~Live((s \o past)[n])
    <3>1. CASE n \in 1..Len(s)
      BY <2>1, <2>2, <2>3, <3>1 DEF Streamed
    <3>2. CASE n \notin 1..Len(s)
      <4> DEFINE m == n - Len(s)
      <4>1. m \in 1..Len(past) /\ n = Len(s) + m
        BY <2>2, <3>2
      <4> HIDE DEF m
      <4>2. (s \o past)[n] = past[m]
        BY <2>1, <4>1
      <4> QED
        BY <1>1, <4>1, <4>2
    <3> QED
      BY <3>1, <3>2
  <2> QED
    BY <2>1, <2>3 DEF Streamed
<1>3. got' \in [Feed!Sub -> Seq(Feed!FeedCandle)]
  BY <1>0, <1>2 DEF FeedPart
<1>4. nsub \in Nat
  BY KeysOfSubscriptions DEF FeedPart
<1>5. FeedPart'
  <2>1. \A i \in Feed!Sub : i > nsub => got'[i] = <<>>
    BY <1>0, <1>4, KeysOfSubscriptions DEF FeedPart
  <2> QED
    BY <1>0, <1>3, <2>1 DEF FeedPart, Feed!Subscribers
<1>6. ASSUME NEW i \in 1..nsub
      PROVE  Streamed(got'[i]) = {}
  <2>1. i \in Feed!Sub /\ got[i] \in Seq(Feed!FeedCandle)
    BY Typed
  <2>2. Streamed(got[i]) = {}
    BY <1>0 DEF Quiet
  <2>3. Streamed(got[i] \o past) = {}
    BY <1>2, <2>1, <2>2
  <2>4. got'[i] = got[i] \o past \/ got'[i] = got[i]
    BY <1>0, <2>1
  <2> QED
    BY <2>2, <2>3, <2>4
<1>7. Quiet'
  BY <1>0, <1>6 DEF Quiet
<1> QED
  BY <1>0, <1>5, <1>7, QuietCarriesNext

LEMMA FeedStarts ==
  ASSUME FeedPart, Quiet, StreamReachesSubscription, Feed!Start, sent' = sent
  PROVE  FeedPart' /\ Quiet' /\ StreamReachesSubscription'
<1>0. /\ ~started /\ started' = TRUE
      /\ at' = [k \in Key |-> IF k \in connected THEN "select" ELSE "none"]
      /\ UNCHANGED <<nsub, item, left, got, sent>>
  BY DEF Feed!Start
<1>1. \A k \in Key : left[k] = {}
  BY <1>0 DEF FeedPart, Quiet
<1>2. at' \in [Key -> {"none", "select", "deliver", "end"}]
  BY <1>0
<1>3. FeedPart'
  BY <1>0, <1>1, <1>2 DEF FeedPart
<1>4. Quiet'
  BY <1>0 DEF Quiet
<1>5. StreamReachesSubscription'
  BY <1>0 DEF StreamReachesSubscription, Feed!Pending, Feed!Given, Feed!Wanted, WantedOf
<1> QED
  BY <1>3, <1>4, <1>5

\* A goroutine that waits or ends holds nothing for anyone.
LEMMA FeedWaits ==
  ASSUME FeedPart, Quiet, StreamReachesSubscription, NEW k \in Key,
         Feed!Called(k) \/ Feed!End(k), sent' = sent
  PROVE  FeedPart' /\ Quiet' /\ StreamReachesSubscription'
<1>0. /\ at[k] # "none" /\ left[k] = {}
      /\ \E to \in {"select", "end"} : at' = [at EXCEPT ![k] = to]
      /\ UNCHANGED <<nsub, started, item, left, got, sent>>
  BY DEF Feed!Called, Feed!End, FeedPart
<1>1. FeedPart'
  BY <1>0 DEF FeedPart, Feed!Subscribers
<1>2. Quiet'
  BY <1>0 DEF Quiet
<1>3. StreamReachesSubscription'
  BY <1>0 DEF StreamReachesSubscription, Feed!Pending, Feed!Given, Feed!Wanted, WantedOf
<1> QED
  BY <1>1, <1>2, <1>3

\* What the goroutine held for a subscription, it now has.
LEMMA FeedCalls ==
  ASSUME FeedPart, Quiet, StreamReachesSubscription, NEW k \in Key,
         Feed!Call(k), sent' = sent
  PROVE  FeedPart' /\ Quiet' /\ StreamReachesSubscription'
<1>1. PICK m \in left[k] :
        /\ left' = [left EXCEPT ![k] = @ \ {m}]
        /\ got' = IF Feed!Given(m, item[k])
                  THEN [got EXCEPT ![m] = Append(@, item[k])] ELSE got
  BY DEF Feed!Call
<1>2. UNCHANGED <<nsub, started, at, item, sent>> /\ at[k] = "deliver"
  BY DEF Feed!Call
<1>3. /\ nsub \in Nat /\ m \in 1..nsub /\ m \in Feed!Sub
      /\ Subscriptions[m].key = k /\ started
  BY <1>2, KeysOfSubscriptions DEF FeedPart, Feed!Subscribers, Quiet
<1>4. item[k] \in Feed!FeedCandle /\ got[m] \in Seq(Feed!FeedCandle)
  BY <1>3 DEF FeedPart
<1>5. FeedPart'
  <2>0. Append(got[m], item[k]) \in Seq(Feed!FeedCandle)
    BY <1>4, SequenceFacts
  <2>1. got' \in [Feed!Sub -> Seq(Feed!FeedCandle)]
    BY <1>1, <2>0 DEF FeedPart
  <2>2. left' \in [Key -> SUBSET (1..nsub)]
    BY <1>1 DEF FeedPart
  <2>3. \A l \in Key : left'[l] \subseteq left[l]
    BY <1>1 DEF FeedPart
  <2>4. \A i \in Feed!Sub : i > nsub => got'[i] = <<>>
    BY <1>1, <1>3, KeysOfSubscriptions DEF FeedPart
  <2> QED
    BY <1>2, <2>1, <2>2, <2>3, <2>4 DEF FeedPart, Feed!Subscribers
<1>6. Quiet'
  BY <1>2, <1>3 DEF Quiet
<1>7. ASSUME NEW i \in 1..nsub
      PROVE  got'[i] \o Feed!Pending(i)' = got[i] \o Feed!Pending(i)
  <2>1. /\ i \in Feed!Sub /\ Subscriptions[i].key \in Key
        /\ got[i] \in Seq(Feed!FeedCandle)
        /\ item[Subscriptions[i].key] \in Feed!FeedCandle
    BY Typed
  <2>2. CASE i = m
    <3>1. i \in left[k] /\ i \notin left'[k]
      BY <1>1, <2>2 DEF FeedPart
    <3>2. got'[i] = IF Feed!Given(i, item[k]) THEN Append(got[i], item[k]) ELSE got[i]
      BY <1>1, <2>1, <2>2 DEF FeedPart
    <3>3. Feed!Pending(i)' = <<>>
      BY <1>3, <2>2, <3>1 DEF Feed!Pending
    <3>4. Feed!Pending(i) = IF Feed!Given(i, item[k]) THEN <<item[k]>> ELSE <<>>
      BY <1>3, <2>2, <3>1 DEF Feed!Pending
    <3>5. item[k] \in Feed!FeedCandle /\ Append(got[i], item[k]) \in Seq(Feed!FeedCandle)
      BY <1>4, <2>1, SequenceFacts
    <3>6. CASE Feed!Given(i, item[k])
      <4>1. got'[i] \o Feed!Pending(i)' = Append(got[i], item[k])
        BY <3>2, <3>3, <3>5, <3>6, SequenceFacts
      <4>2. got[i] \o Feed!Pending(i) = Append(got[i], item[k])
        BY <2>1, <3>4, <3>5, <3>6, SequenceFacts
      <4> QED
        BY <4>1, <4>2
    <3>7. CASE ~Feed!Given(i, item[k])
      BY <3>2, <3>3, <3>4, <3>7
    <3> QED
      BY <3>6, <3>7
  <2>3. CASE i # m
    <3>1. got'[i] = got[i]
      BY <1>1, <2>1, <2>3 DEF FeedPart
    <3>2. i \in left'[Subscriptions[i].key] <=> i \in left[Subscriptions[i].key]
      BY <1>1, <2>1, <2>3 DEF FeedPart
    <3> QED
      BY <1>2, <3>1, <3>2 DEF Feed!Pending, Feed!Given, Feed!Wanted
  <2> QED
    BY <2>2, <2>3
<1>8. \A i \in 1..nsub : Carried(i)'
  BY <1>2, <1>7, CarriedMeans DEF Carried, WantedOf, Feed!Wanted
<1> QED
  BY <1>2, <1>5, <1>6, <1>8, CarriedMeansNext

\* The goroutine takes a candle: what a subscription of the feed wants of it
\* is what it is about to get.
LEMMA FeedTakes ==
  ASSUME FeedPart, Quiet, StreamReachesSubscription, NEW k \in Key,
         NEW c \in Feed!FeedCandle, Feed!HandOut(k, c),
         \/ Live(c) /\ c # Feed!Empty /\ sent' = [sent EXCEPT ![k] = Append(@, c)]
         \/ c = Feed!Empty /\ sent' = sent
  PROVE  FeedPart' /\ Quiet' /\ StreamReachesSubscription'
<1>0. /\ UNCHANGED <<nsub, started, got>>
      /\ at[k] = "select" /\ at' = [at EXCEPT ![k] = "deliver"]
      /\ item' = [item EXCEPT ![k] = c]
      /\ left' = [left EXCEPT ![k] = Feed!Subscribers(k)]
  BY DEF Feed!HandOut
<1>1. started /\ left[k] = {}
  BY <1>0 DEF FeedPart, Quiet
<1>2. nsub \in Nat /\ Feed!Subscribers(k) \subseteq 1..nsub
  BY KeysOfSubscriptions DEF FeedPart, Feed!Subscribers
<1>3. FeedPart'
  <2>1. Append(sent[k], c) \in Seq(Feed!FeedCandle)
    BY SequenceFacts DEF FeedPart
  <2>2. sent' \in [Key -> Seq(Feed!FeedCandle)]
    BY <2>1 DEF FeedPart
  <2>3. item' \in [Key -> Feed!FeedCandle] /\ left' \in [Key -> SUBSET (1..nsub)]
    BY <1>0, <1>2 DEF FeedPart
  <2>4. at' \in [Key -> {"none", "select", "deliver", "end"}]
    BY <1>0 DEF FeedPart
  <2>5. \A l \in Key : /\ left'[l] \subseteq Feed!Subscribers(l)
                        /\ at'[l] # "deliver" => left'[l] = {}
    BY <1>0 DEF FeedPart
  <2> QED
    BY <1>0, <2>2, <2>3, <2>4, <2>5 DEF FeedPart, Feed!Subscribers
<1>4. Quiet'
  BY <1>0, <1>1 DEF Quiet
<1>5. ASSUME NEW i \in 1..nsub
      PROVE  Carried(i)'
  <2> DEFINE key == Subscriptions[i].key
             all == sent[key]
  <2>1. /\ i \in Feed!Sub /\ key \in Key
        /\ got[i] \in Seq(Feed!FeedCandle) /\ all \in Seq(Feed!FeedCandle)
    BY Typed
  <2>2. Carried(i)
    BY CarriedMeans
  <2>3. CASE key # k
    <3>1. sent'[key] = all /\ left'[key] = left[key] /\ item'[key] = item[key]
      BY <1>0, <2>1, <2>3 DEF FeedPart
    <3>2. Feed!Pending(i)' = Feed!Pending(i)
      BY <3>1 DEF Feed!Pending, Feed!Given, Feed!Wanted
    <3> QED
      BY <1>0, <2>2, <3>1, <3>2 DEF Carried
  <2>4. CASE key = k
    <3>1. i \in left'[k] /\ item'[k] = c /\ i \notin left[k]
      BY <1>0, <1>1, <2>1, <2>4 DEF FeedPart, Feed!Subscribers
    <3>2. got[i] \o Feed!Pending(i) = got[i]
      BY <2>1, <2>4, <3>1, SequenceFacts DEF Feed!Pending
    <3>3. Feed!Pending(i)' = IF Feed!Given(i, c) THEN <<c>> ELSE <<>>
      BY <2>4, <3>1 DEF Feed!Pending
    <3>4. SameAt(got[i], Streamed(got[i]), all, WantedOf(i, all))
      BY <2>2, <3>2 DEF Carried
    <3>5. /\ Streamed(got[i]) \subseteq 1..Len(got[i])
          /\ WantedOf(i, all) \subseteq 1..Len(all)
          /\ Streamed(Append(got[i], c)) =
               IF Live(c) THEN Streamed(got[i]) \cup {Len(got[i]) + 1}
                          ELSE Streamed(got[i])
          /\ WantedOf(i, Append(all, c)) =
               IF Feed!Wanted(i, c) THEN WantedOf(i, all) \cup {Len(all) + 1}
                                    ELSE WantedOf(i, all)
      BY <2>1, StreamedNext, WantedNext
    <3>6. got[i] \o <<>> = got[i] /\ got[i] \o <<c>> = Append(got[i], c)
      BY <2>1, SequenceFacts
    <3> HIDE DEF all, key
    <3>7. CASE c = Feed!Empty
      <4>1. sent'[key] = all /\ ~Live(c) /\ Feed!Given(i, c)
        BY <3>7, CandleFacts DEF Feed!Given, all
      <4>2. got[i] \o Feed!Pending(i)' = Append(got[i], c)
        BY <3>3, <3>6, <4>1
      <4>3. SameAt(Append(got[i], c), Streamed(got[i]), all, WantedOf(i, all))
        BY <2>1, <3>4, <3>5, SameOthers
      <4> QED
        BY <1>0, <3>5, <4>1, <4>2, <4>3 DEF Carried, WantedOf, Feed!Wanted, key
    <3>8. CASE c # Feed!Empty
      <4>1. sent'[key] = Append(all, c) /\ Live(c)
        BY <2>1, <2>4, <3>8 DEF FeedPart, all
      <4>2. Feed!Given(i, c) <=> Feed!Wanted(i, c)
        BY <3>8 DEF Feed!Given
      <4>3. got'[i] \o Feed!Pending(i)' =
              IF Feed!Wanted(i, c) THEN Append(got[i], c) ELSE got[i]
        <5>1. CASE Feed!Wanted(i, c)
          BY <1>0, <3>3, <3>6, <4>2, <5>1
        <5>2. CASE ~Feed!Wanted(i, c)
          BY <1>0, <3>3, <3>6, <4>2, <5>2
        <5> QED
          BY <5>1, <5>2
      <4>4. CASE Feed!Wanted(i, c)
        <5>1. SameAt(Append(got[i], c), Streamed(got[i]) \cup {Len(got[i]) + 1},
                     Append(all, c), WantedOf(i, all) \cup {Len(all) + 1})
          BY <2>1, <3>4, <3>5, SameNext
        <5>2. SameAt(Append(got[i], c), Streamed(Append(got[i], c)),
                     Append(all, c), WantedOf(i, Append(all, c)))
          BY <3>5, <4>1, <4>4, <5>1
        <5> QED
          BY <4>1, <4>3, <4>4, <5>2 DEF Carried, WantedOf, Feed!Wanted, key
      <4>5. CASE ~Feed!Wanted(i, c)
        <5>1. \A n \in WantedOf(i, all) : Append(all, c)[n] = all[n]
          BY <2>1, <3>5, SequenceFacts
        <5>2. SameAt(got[i], Streamed(got[i]), Append(all, c), WantedOf(i, all))
          BY <3>4, <5>1, SameThere
        <5>3. SameAt(got[i], Streamed(got[i]), Append(all, c), WantedOf(i, Append(all, c)))
          BY <3>5, <4>5, <5>2
        <5> QED
          BY <4>1, <4>3, <4>5, <5>3 DEF Carried, WantedOf, Feed!Wanted, key
      <4> QED
        BY <4>4, <4>5
    <3> QED
      BY <3>7, <3>8
  <2> QED
    BY <2>3, <2>4
<1> QED
  BY <1>0, <1>3, <1>4, <1>5, CarriedMeansNext

-----------------------------------------------------------------------------
LEMMA MarketInitial == Init => MarketInv
<1> SUFFICES ASSUME Init  PROVE MarketInv
  OBVIOUS
<1> USE DEF Init, Stream!Init, Feed!Init
<1>1. StreamPart
  <2>1. "idle" \in Stream!Place
    BY DEF Stream!Place
  <2> QED
    BY <2>1 DEF StreamPart
<1>2. FeedPart
  <2>1. Feed!Empty \in Feed!FeedCandle
    BY CandleFacts
  <2>2. nsub \in 0..Len(Subscriptions)
    BY KeysOfSubscriptions
  <2>3. item \in [Key -> Feed!FeedCandle] /\ left \in [Key -> SUBSET (1..nsub)]
    BY <2>1
  <2>4. got \in [Feed!Sub -> Seq(Feed!FeedCandle)] /\ sent \in [Key -> Seq(Feed!FeedCandle)]
    OBVIOUS
  <2> QED
    BY <2>2, <2>3, <2>4 DEF FeedPart
<1>3. Quiet /\ StreamReachesSubscription
  BY DEF Quiet, StreamReachesSubscription
<1> QED
  BY <1>1, <1>2, <1>3 DEF MarketInv

\* Both ends of a channel: the websocket's bar is the one the feed takes.
LEMMA CandleKeeps ==
  ASSUME MarketInv, NEW r \in Stream!Runner, Candle(r)
  PROVE  MarketInv'
<1> DEFINE k == Head(outbox[r]).key
           c == Head(outbox[r]).candle
<1>1. Stream!Send(r) /\ Feed!HandOut(k, c)
  BY DEF Candle, Feed!Receive
<1>2. StreamPart' /\ k \in Key /\ c \in Bar
  BY <1>1, StreamSends DEF MarketInv
<1>3. sent' = [sent EXCEPT ![k] = Append(@, c)]
  BY <1>1 DEF Stream!Send
<1> HIDE DEF k, c
<1>4. c \in Feed!FeedCandle /\ Live(c) /\ c # Feed!Empty
  BY <1>2, CandleFacts
<1> QED
  BY <1>1, <1>2, <1>3, <1>4, FeedTakes DEF MarketInv

LEMMA ErrorKeeps ==
  ASSUME MarketInv, NEW k \in Key, Error(k)
  PROVE  MarketInv'
<1>1. UNCHANGED <<pc, outbox, nread, sent>>
  BY DEF Error, Stream!SendErr, Stream!local, Stream!history
<1>2. StreamPart'
  BY <1>1, StreamRests DEF MarketInv
<1>3. CASE Feed!ReceiveErr(k)
  <2>1. Feed!HandOut(k, Feed!Empty) /\ Feed!Empty \in Feed!FeedCandle
    BY <1>3, CandleFacts DEF Feed!ReceiveErr
  <2> QED
    BY <1>1, <1>2, <2>1, FeedTakes DEF MarketInv
<1>4. CASE UNCHANGED feedVars
  BY <1>1, <1>2, <1>4, FeedRests DEF MarketInv, feedVars
<1> QED
  BY <1>3, <1>4 DEF Error

LEMMA MarketStep == MarketInv /\ [Next]_vars => MarketInv'
<1> SUFFICES ASSUME MarketInv, [Next]_vars  PROVE MarketInv'
  OBVIOUS
<1> USE DEF MarketInv
<1>1. CASE SetupSubscriptions
  <2>1. StreamPart' /\ sent' = sent
    BY <1>1, StreamRests DEF SetupSubscriptions, streamVars
  <2> QED
    BY <1>1, <2>1, FeedSubscribes, FeedPreloads DEF SetupSubscriptions
<1>2. CASE ExchangeStart
  <2>1. Stream!Goto("start", "idle", "spawned") /\ UNCHANGED <<outbox, nread, sent>>
    BY <1>2 DEF ExchangeStart, Stream!Start, Stream!local, Stream!history
  <2>2. "start" \in Stream!Runner /\ "spawned" \in Stream!Place /\ nread \in Nat
    BY DEF Stream!Runner, Stream!Place, StreamPart
  <2>3. StreamPart'
    BY <2>1, <2>2, StreamGoes
  <2> QED
    BY <1>2, <2>1, <2>3, FeedRests DEF ExchangeStart, feedVars
<1>3. CASE DataFeedStart
  <2>1. StreamPart' /\ sent' = sent
    BY <1>3, StreamRests DEF DataFeedStart, streamVars
  <2> QED
    BY <1>3, <2>1, FeedStarts DEF DataFeedStart
<1>4. CASE DataFeedStop
  <2>1. StreamPart' /\ sent' = sent
    BY <1>4, StreamRests DEF DataFeedStop, streamVars
  <2> QED
    BY <1>4, <2>1, FeedRests DEF DataFeedStop, Feed!Stop
<1>5. CASE ExchangeStop
  <2>1. UNCHANGED <<pc, outbox, nread, sent>>
    BY <1>5 DEF ExchangeStop, Stream!Stop, Stream!StopCancel, Stream!StopClose,
                Stream!StopWait, Stream!StopChannels, Stream!local, Stream!history
  <2>2. StreamPart'
    BY <2>1, StreamRests
  <2> QED
    BY <1>5, <2>1, <2>2, FeedRests DEF ExchangeStop, feedVars
<1>6. ASSUME NEW k \in Key, Connect(k) \/ Connected(k)
      PROVE  MarketInv'
  <2>1. /\ \E from, to \in {"idle", "preload", "spawned"} : Stream!Goto(k, from, to)
        /\ UNCHANGED <<outbox, nread, sent>>
    BY <1>6 DEF Connect, Connected, Stream!CandlesSubscription,
                Stream!CandlesSubscriptionReturn, Stream!local, Stream!history
  <2>2. k \in Stream!Runner /\ {"idle", "preload", "spawned"} \subseteq Stream!Place
    BY DEF Stream!Runner, Stream!Place
  <2>3. nread \in Nat
    BY DEF StreamPart
  <2>4. StreamPart'
    BY <2>1, <2>2, <2>3, StreamGoes
  <2>5. UNCHANGED <<nsub, started, at, item, left, got>>
    BY <1>6 DEF Connect, Connected, Feed!Connect, feedVars
  <2> QED
    BY <2>1, <2>4, <2>5, FeedRests
<1>7. ASSUME NEW k \in Key, Feeder(k)
      PROVE  MarketInv'
  <2>1. StreamPart' /\ sent' = sent
    BY <1>7, StreamRests DEF Feeder, streamVars
  <2>2. Feed!Call(k) \/ Feed!Called(k) \/ Feed!End(k)
    BY <1>7 DEF Feeder, Feed!Step, Feed!Done
  <2> QED
    BY <2>1, <2>2, FeedCalls, FeedWaits
<1>8. ASSUME NEW r \in Stream!Runner, Runner(r)
      PROVE  MarketInv'
  <2>1. StreamPart' /\ sent' = sent
    BY <1>8, StreamSteps DEF Runner
  <2> QED
    BY <1>8, <2>1, FeedRests DEF Runner, feedVars
<1>9. CASE UNCHANGED vars
  BY <1>9, StreamRests, FeedRests DEF vars, streamVars, feedVars
<1> QED
  BY <1>1, <1>2, <1>3, <1>4, <1>5, <1>6, <1>7, <1>8, <1>9, CandleKeeps, ErrorKeeps
     DEF Next

\* In the bot a bar of the websocket reaches each subscription of its feed
\* that wants it, once and in the order of the stream, whatever errors come
\* between and whenever goroutines are scheduled or the bot is stopped: the
\* unbuffered channels and the loop over the subscriptions lose nothing.
THEOREM StreamReachesAll == Spec => []StreamReachesSubscription
<1>1. MarketInv => StreamReachesSubscription
  BY DEF MarketInv
<1> QED
  BY <1>1, MarketInitial, MarketStep, PTL DEF Spec

-----------------------------------------------------------------------------
(* The websocket of the bot is that of UpbitStream, and keeps its promises. *)

LEMMA StreamAssumed == Stream!StreamAssumption /\ Websocket!StreamAssumption
BY MarketAssumption DEF MarketAssumption, Stream!StreamAssumption,
   Websocket!StreamAssumption

\* Both instances are of one specification.
LEMMA SameSpecification ==
  /\ Stream!Init <=> Websocket!Init
  /\ Stream!Next <=> Websocket!Next
  /\ Stream!streamVars = Websocket!streamVars
<1> USE DEF
     Stream!Runner, Websocket!Runner, Stream!local, Websocket!local,
     Stream!history, Websocket!history, Stream!Goto, Websocket!Goto,
     Stream!NetworkFails, Websocket!NetworkFails,
     Stream!broadcastErr, Websocket!broadcastErr
<1>1. ASSUME NEW r
      PROVE  Stream!RunnerStep(r) <=> Websocket!RunnerStep(r)
  BY Zenon DEF
     Stream!RunnerStep, Websocket!RunnerStep,
     Stream!wsRunIfNeeded, Websocket!wsRunIfNeeded,
     Stream!Begin, Websocket!Begin, Stream!Dial, Websocket!Dial,
     Stream!DialFail, Websocket!DialFail,
     Stream!WriteSubscription, Websocket!WriteSubscription,
     Stream!WriteFail, Websocket!WriteFail, Stream!Loop, Websocket!Loop,
     Stream!ReadErrorMessage, Websocket!ReadErrorMessage,
     Stream!Arrives, Websocket!Arrives,
     Stream!ReadCandle, Websocket!ReadCandle,
     Stream!ReadFails, Websocket!ReadFails,
     Stream!Reconnect, Websocket!Reconnect,
     Stream!Bars, Websocket!Bars, Stream!Push, Websocket!Push,
     Stream!Handled, Websocket!Handled,
     Stream!Unwind, Websocket!Unwind, Stream!Leave, Websocket!Leave
<1>2. ASSUME NEW r
      PROVE  Stream!Send(r) <=> Websocket!Send(r)
  BY DEF Stream!Send, Websocket!Send
<1>3. ASSUME NEW k
      PROVE  /\ Stream!CandlesSubscription(k) <=> Websocket!CandlesSubscription(k)
             /\ Stream!CandlesSubscriptionReturn(k)
                  <=> Websocket!CandlesSubscriptionReturn(k)
             /\ Stream!SendErr(k) <=> Websocket!SendErr(k)
  BY DEF Stream!CandlesSubscription, Websocket!CandlesSubscription,
         Stream!CandlesSubscriptionReturn, Websocket!CandlesSubscriptionReturn,
         Stream!SendErr, Websocket!SendErr
<1>4. Stream!Stop <=> Websocket!Stop
  BY DEF Stream!Stop, Websocket!Stop, Stream!StopFrom, Websocket!StopFrom,
         Stream!StopCancel, Websocket!StopCancel,
         Stream!StopClose, Websocket!StopClose, Stream!Waited, Websocket!Waited,
         Stream!StopWait, Websocket!StopWait,
         Stream!StopChannels, Websocket!StopChannels
<1>5. Stream!Start <=> Websocket!Start
  BY DEF Stream!Start, Websocket!Start
<1>6. Stream!Next <=> Websocket!Next
  BY <1>1, <1>2, <1>3, <1>4, <1>5 DEF Stream!Next, Websocket!Next
<1>7. Stream!Init <=> Websocket!Init
  BY DEF Stream!Init, Websocket!Init
<1>8. Stream!streamVars = Websocket!streamVars
  BY DEF Stream!streamVars, Websocket!streamVars
<1> QED
  BY <1>6, <1>7, <1>8

LEMMA StreamStep == [Next]_vars => [Stream!Next]_(Stream!streamVars)
<1> SUFFICES ASSUME [Next]_vars  PROVE Stream!Next \/ UNCHANGED Stream!streamVars
  OBVIOUS
<1> USE DEF streamVars, Stream!streamVars
<1>1. CASE SetupSubscriptions \/ DataFeedStart \/ DataFeedStop
  BY <1>1 DEF SetupSubscriptions, DataFeedStart, DataFeedStop
<1>2. CASE ExchangeStart \/ ExchangeStop
  BY <1>2 DEF ExchangeStart, ExchangeStop, Stream!Next
<1>3. ASSUME NEW k \in Key, Connect(k) \/ Connected(k) \/ Error(k)
      PROVE  Stream!Next
  BY <1>3 DEF Connect, Connected, Error, Stream!Next
<1>4. ASSUME NEW k \in Key, Feeder(k)
      PROVE  UNCHANGED Stream!streamVars
  BY <1>4 DEF Feeder
<1>5. ASSUME NEW r \in Stream!Runner, Runner(r) \/ Candle(r)
      PROVE  Stream!Next
  BY <1>5 DEF Runner, Candle, Stream!Next
<1>6. CASE UNCHANGED vars
  BY <1>6 DEF vars
<1> QED
  BY <1>1, <1>2, <1>3, <1>4, <1>5, <1>6 DEF Next

\* What Raccoon and the data feed do to the websocket is what UpbitStream
\* lets anyone do: it starts once, is subscribed to, and is stopped; its
\* sends are taken when the feed is ready.
THEOREM StreamImplemented == Spec => Stream!Spec
<1>1. Init => Stream!Init
  BY DEF Init
<1> QED
  BY <1>1, StreamStep, PTL DEF Spec, Stream!Spec

StreamKept == Websocket!TypeOK /\ Websocket!Exclusion /\ Websocket!OrderInv

LEMMA StreamInitial == Init => StreamKept
<1>1. Init => Websocket!Init
  BY SameSpecification DEF Init
<1> QED
  BY <1>1, StreamAssumed, Websocket!TypeInit, Websocket!ExclusionInit,
     Websocket!OrderInit DEF StreamKept

LEMMA StreamKeeps == StreamKept /\ [Next]_vars => StreamKept'
<1>1. [Next]_vars => [Websocket!Next]_(Websocket!streamVars)
  BY StreamStep, SameSpecification DEF Stream!streamVars, Websocket!streamVars
<1> QED
  BY <1>1, StreamAssumed, Websocket!TypeNext, Websocket!ExclusionNext,
     Websocket!OrderNext DEF StreamKept

\* In the bot, too, one goroutine runs the websocket, what it sends to a
\* channel is in order, and a channel is closed after its last candle.
THEOREM StreamKeepsItsPromises ==
  Spec => [](Stream!OneStream /\ Stream!SentInOrder /\ Stream!NoCandleAfterClose)
<1>1. StreamKept => Stream!OneStream /\ Stream!SentInOrder /\ Stream!NoCandleAfterClose
  <2> SUFFICES ASSUME StreamKept
               PROVE  Stream!OneStream /\ Stream!SentInOrder /\ Stream!NoCandleAfterClose
    OBVIOUS
  <2>1. Websocket!OneStream /\ Websocket!StreamInv /\ Websocket!SentInOrder
    BY DEF StreamKept, Websocket!Exclusion, Websocket!OrderInv
  <2>2. Stream!OneStream
    BY <2>1 DEF Stream!OneStream, Websocket!OneStream, Stream!Active,
                Websocket!Active, Stream!Runner, Websocket!Runner
  <2>3. Stream!SentInOrder
    BY <2>1 DEF Stream!SentInOrder, Websocket!SentInOrder
  <2>4. Stream!NoCandleAfterClose
    BY <2>1 DEF Stream!NoCandleAfterClose, Websocket!StreamInv, Stream!Runner,
                Websocket!Runner
  <2> QED
    BY <2>2, <2>3, <2>4
<1> QED
  BY <1>1, StreamInitial, StreamKeeps, PTL DEF Spec

\* A subscription has each message of the websocket at most once as a bar
\* under way and once as a complete one, in this order, and the messages in
\* theirs.
GetsInOrder ==
  \A i \in 1..nsub : \A m, n \in Streamed(got[i]) :
    m < n => \/ got[i][m].msg < got[i][n].msg
             \/ /\ got[i][m].msg = got[i][n].msg
                /\ ~got[i][m].complete /\ got[i][n].complete

\* From the websocket's goroutine, over the channel and the goroutine of the
\* feed, to the strategy and the web page: a subscription sees the stream's
\* bars in the order of the messages, each once, through reconnections,
\* errors and the stop.
THEOREM SubscriptionsInStreamOrder == Spec => []GetsInOrder
<1>1. MarketInv /\ StreamKept => GetsInOrder
  <2> SUFFICES ASSUME MarketInv, StreamKept, NEW i \in 1..nsub,
                      NEW m \in Streamed(got[i]), NEW n \in Streamed(got[i]), m < n
               PROVE  \/ got[i][m].msg < got[i][n].msg
                      \/ /\ got[i][m].msg = got[i][n].msg
                         /\ ~got[i][m].complete /\ got[i][n].complete
    BY DEF GetsInOrder
  <2> DEFINE held == got[i] \o Feed!Pending(i)
             all  == sent[Subscriptions[i].key]
  <2>1. /\ got[i] \in Seq(Feed!FeedCandle) /\ Subscriptions[i].key \in Key
        /\ item[Subscriptions[i].key] \in Feed!FeedCandle
        /\ all \in Seq(Feed!FeedCandle)
    BY Typed DEF MarketInv
  <2>2. Feed!Pending(i) \in Seq(Feed!FeedCandle)
    BY <2>1 DEF Feed!Pending
  <2>3. /\ DOMAIN got[i] = 1..Len(got[i])
        /\ DOMAIN held = 1..(Len(got[i]) + Len(Feed!Pending(i)))
        /\ \A l \in 1..Len(got[i]) : held[l] = got[i][l]
        /\ Len(got[i]) \in Nat /\ Len(Feed!Pending(i)) \in Nat
    <3> DEFINE S == Feed!FeedCandle
               t == Feed!Pending(i)
               s == got[i]
    <3>1. s \in Seq(S) /\ t \in Seq(S)
      BY <2>1, <2>2
    <3> HIDE DEF S, t, s
    <3>2. /\ DOMAIN s = 1..Len(s) /\ Len(s) \in Nat /\ Len(t) \in Nat
          /\ DOMAIN (s \o t) = 1..(Len(s) + Len(t))
          /\ \A l \in 1..Len(s) : (s \o t)[l] = s[l]
      BY <3>1, ConcatFacts, SequenceFacts
    <3> QED
      BY <3>2 DEF s, t
  <2>4. /\ m \in Streamed(held) /\ n \in Streamed(held)
        /\ held[m] = got[i][m] /\ held[n] = got[i][n]
    BY <2>3 DEF Streamed
  <2>5. SameAt(held, Streamed(held), all, WantedOf(i, all))
    BY DEF MarketInv, StreamReachesSubscription
  <2> HIDE DEF held
  <2>6. PICK place \in Surjection(Streamed(held), WantedOf(i, all)) :
          /\ \A a, b \in Streamed(held) : a < b => place[a] < place[b]
          /\ \A a \in Streamed(held) : held[a] = all[place[a]]
    BY <2>5 DEF SameAt
  <2>7. /\ place[m] \in DOMAIN all /\ place[n] \in DOMAIN all
        /\ place[m] < place[n]
        /\ got[i][m] = all[place[m]] /\ got[i][n] = all[place[n]]
    BY <2>4, <2>6 DEF Surjection, WantedOf
  <2>8. Websocket!SentInOrder
    BY DEF StreamKept, Websocket!OrderInv
  <2> QED
    BY <2>1, <2>7, <2>8 DEF Websocket!SentInOrder
<1> QED
  BY <1>1, MarketInitial, MarketStep, StreamInitial, StreamKeeps, PTL DEF Spec

-----------------------------------------------------------------------------
(* The data feed of the bot keeps its promises, whatever it is sent. *)

LEMMA FeedAssumed == Feeds!FeedAssumption
<1>1. History + 2 * MaxRead \in Nat /\ History \in Nat
  BY MarketAssumption DEF MarketAssumption
<1> QED
  BY <1>1, MarketAssumption DEF MarketAssumption, Feeds!FeedAssumption, MaxTaken

FeedKept == Feeds!FeedInv /\ Feeds!CandleInv

LEMMA FeedInitial == Init => FeedKept
<1>1. Feed!Init <=> Feeds!Init
  BY DEF Feed!Init, Feeds!Init, Feed!Empty, Feeds!Empty, Feed!Sub, Feeds!Sub
<1> QED
  BY <1>1, FeedAssumed, Feeds!FeedInitial, Feeds!CandleInitial DEF Init, FeedKept

\* A step of the feed is one of DataFeed's, or takes what the websocket sent.
LEMMA FeedMoves ==
  ASSUME MarketInv, [Next]_vars
  PROVE  \/ [Feeds!Next]_(Feeds!feedVars)
         \/ \E k \in Key, c \in Feeds!FeedCandle : Feeds!HandOut(k, c)
<1> USE DEF Feeds!Next
<1>1. CASE SetupSubscriptions
  BY <1>1 DEF SetupSubscriptions, Feed!Subscribe, Feeds!Subscribe, Feed!Preload,
     Feeds!Preload, Feed!Past, Feeds!Past, Feed!Sub, Feeds!Sub
<1>2. CASE DataFeedStart \/ DataFeedStop
  BY <1>2 DEF DataFeedStart, DataFeedStop, Feed!Start, Feeds!Start, Feed!Stop,
     Feeds!Stop, Feed!Feeds, Feeds!Feeds
<1>3. CASE ExchangeStart \/ ExchangeStop
  BY <1>3 DEF ExchangeStart, ExchangeStop, feedVars, Feeds!feedVars
<1>4. ASSUME NEW k \in Key, Connect(k)
      PROVE  Feeds!Next
  BY <1>4 DEF Connect, Feed!Connect, Feeds!Connect, Feed!Feeds, Feeds!Feeds
<1>5. ASSUME NEW k \in Key, Connected(k)
      PROVE  UNCHANGED Feeds!feedVars
  BY <1>5 DEF Connected, feedVars, Feeds!feedVars
<1>6. ASSUME NEW k \in Key, Feeder(k)
      PROVE  Feeds!Next
  BY <1>6 DEF Feeder, Feed!Step, Feeds!Step, Feed!Call, Feeds!Call, Feed!Called,
     Feeds!Called, Feed!Done, Feeds!Done, Feed!End, Feeds!End, Feed!Given,
     Feeds!Given, Feed!Wanted, Feeds!Wanted, Feed!Empty, Feeds!Empty
<1>7. \A k, c : Feed!HandOut(k, c) <=> Feeds!HandOut(k, c)
  BY DEF Feed!HandOut, Feeds!HandOut, Feed!Subscribers, Feeds!Subscribers
<1>8. Feed!FeedCandle = Feeds!FeedCandle
  BY DEF Feed!FeedCandle, Feeds!FeedCandle
<1>9. ASSUME NEW k \in Key, Error(k)
      PROVE  \/ UNCHANGED Feeds!feedVars
             \/ \E c \in Feeds!FeedCandle : Feeds!HandOut(k, c)
  BY <1>7, <1>8, <1>9, CandleFacts DEF Error, Feed!ReceiveErr, feedVars, Feeds!feedVars
<1>10. ASSUME NEW r \in Stream!Runner, Candle(r)
       PROVE  \E k \in Key, c \in Feeds!FeedCandle : Feeds!HandOut(k, c)
  BY <1>7, <1>8, <1>10, StreamSends, CandleFacts DEF Candle, Feed!Receive, MarketInv
<1>11. ASSUME NEW r \in Stream!Runner, Runner(r)
       PROVE  UNCHANGED Feeds!feedVars
  BY <1>11 DEF Runner, feedVars, Feeds!feedVars
<1>12. CASE UNCHANGED vars
  BY <1>12 DEF vars, feedVars, Feeds!feedVars
<1> QED
  BY <1>1, <1>2, <1>3, <1>4, <1>5, <1>6, <1>9, <1>10, <1>11, <1>12 DEF Next

LEMMA FeedKeeps == MarketInv /\ FeedKept /\ [Next]_vars => FeedKept'
<1> SUFFICES ASSUME MarketInv, FeedKept, [Next]_vars  PROVE FeedKept'
  OBVIOUS
<1>1. CASE [Feeds!Next]_(Feeds!feedVars)
  BY <1>1, FeedAssumed, Feeds!FeedStep, Feeds!CandleStep DEF FeedKept
<1>2. ASSUME NEW k \in Key, NEW c \in Feeds!FeedCandle, Feeds!HandOut(k, c)
      PROVE  FeedKept'
  BY <1>2, FeedAssumed, Feeds!HandOutKeeps, Feeds!CandleHandOut DEF FeedKept
<1> QED
  BY <1>1, <1>2, FeedMoves

\* In the bot, too, a subscription is given what its feed took that it wants,
\* errors included, each once and in order, and like subscriptions are served
\* in turn.
THEOREM FeedKeepsItsPromises ==
  Spec => [](Feed!GetsItsCandles /\ Feed!ServedInTurn)
<1>1. FeedKept => Feed!GetsItsCandles
  <2>1. \A s, t, places : Feed!Lists(s, t, places) <=> Feeds!Lists(s, t, places)
    BY DEF Feed!Lists, Feeds!Lists, Feed!Surjection, Feeds!Surjection
  <2>2. \A i, c : Feed!Given(i, c) <=> Feeds!Given(i, c)
    BY DEF Feed!Given, Feeds!Given, Feed!Wanted, Feeds!Wanted, Feed!Empty, Feeds!Empty
  <2>3. \A i : Feed!Pending(i) = Feeds!Pending(i) /\ Feed!Due(i) = Feeds!Due(i)
    BY <2>2 DEF Feed!Pending, Feeds!Pending, Feed!Due, Feeds!Due
  <2> QED
    BY <2>1, <2>3 DEF FeedKept, Feeds!CandleInv, Feed!GetsItsCandles,
                      Feeds!GetsItsCandles
<1>2. FeedKept => Feed!ServedInTurn
  BY FeedAssumed, Feeds!InTurn DEF FeedKept, Feed!ServedInTurn, Feeds!ServedInTurn,
     Feed!IsPrefix, Feeds!IsPrefix
<1> QED
  BY <1>1, <1>2, MarketInitial, MarketStep, FeedInitial, FeedKeeps, PTL DEF Spec
=============================================================================
