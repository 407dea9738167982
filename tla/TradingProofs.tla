---------------------------- MODULE TradingProofs ----------------------------
(***************************************************************************)
(* How orders reach the account, for any amounts, capacity and number of   *)
(* bars: what is placed and told keeps the order of the decisions, and an  *)
(* order is wanting in coins or won only when it was decided on while      *)
(* earlier ones were under way.                                            *)
(***************************************************************************)
EXTENDS Trading, FiniteSetTheorems, SequenceTheorems, TLAPS

\* Orders are numbered in the order of the decisions, along the way from the
\* callbacks back to OnCandle.
Numbered ==
  /\ issued = Len(told) + Len(order) + Len(queue) + Len(out)
  /\ \A i \in DOMAIN order : order[i].id = Len(told) + i
  /\ \A i \in DOMAIN queue : queue[i].id = Len(told) + Len(order) + i
  /\ \A i \in DOMAIN out : out[i].id = Len(told) + Len(order) + Len(queue) + i

\* The exchange has seen the orders told of, and perhaps the one in hand.
Seen(id) == id <= Len(told) + (IF broker \in {"executed", "failed"} THEN 1 ELSE 0)

Requested ==
  /\ \A o \in open : Seen(o.id)
  /\ \A i \in DOMAIN placed : Seen(placed[i])
  /\ broker = "executed" => \E i \in DOMAIN placed : placed[i] = Len(told) + 1

\* The won an order is worth, one by one.
Units(S) == {u \in S \X Nat : u[2] < u[1].amount}

OpenOn(side) == {o \in open : o.side = side}

\* What is locked is what the open orders need.
Locked ==
  /\ IsFiniteSet(Units(OpenOn("sell"))) /\ IsFiniteSet(Units(OpenOn("buy")))
  /\ account.coinsLocked = Cardinality(Units(OpenOn("sell")))
  /\ account.wonLocked = Cardinality(Units(OpenOn("buy")))

\* Two orders of one position.
Apart(o, p) == o.settled /\ p.settled => o.side # p.side

\* Until an order of a settled position is requested, the account can pay it.
StillFits ==
  /\ strategy = "decide" /\ settled =>
       /\ out = <<>> /\ queue = <<>> /\ order = <<>> /\ open = {}
       /\ position.coins = account.coins /\ position.won = account.won
  /\ \A i \in DOMAIN out : out[i].settled => Affordable(out[i])
  /\ \A i \in DOMAIN queue : queue[i].settled => Affordable(queue[i])
  /\ broker = "request" /\ order[1].settled => Affordable(order[1])
  /\ \A i, j \in DOMAIN out : i # j => Apart(out[i], out[j])
  /\ \A i, j \in DOMAIN queue : i # j => Apart(queue[i], queue[j])
  /\ \A i \in DOMAIN out, j \in DOMAIN queue : Apart(out[i], queue[j])
  /\ order # <<>> => /\ \A i \in DOMAIN out : Apart(order[1], out[i])
                     /\ \A i \in DOMAIN queue : Apart(order[1], queue[i])

\* An order of a settled position has only such orders before it.
SettledFirst ==
  /\ \A i, j \in DOMAIN out : out[i].settled => out[j].settled
  /\ \A i, j \in DOMAIN queue : i < j /\ queue[j].settled => queue[i].settled
  /\ \A i \in DOMAIN out, j \in DOMAIN queue : out[i].settled => queue[j].settled
  /\ order # <<>> =>
       /\ \A i \in DOMAIN out : out[i].settled => order[1].settled
       /\ \A i \in DOMAIN queue : queue[i].settled => order[1].settled

\* Where an order is, and what is locked for it.
PlaceInv == TypeOK /\ Numbered /\ Requested /\ Locked
OrderInv == PlacedInOrder /\ ToldOfPlaced
FitInv   == StillFits /\ SettledFirst /\ RefusedWhenStale

-----------------------------------------------------------------------------
LEMMA BoundsAreNat == MaxBars \in Nat /\ Capacity \in Nat /\ Minimum \in Nat
BY TradingAssumption DEF TradingAssumption

LEMMA ElementOfSequence ==
  ASSUME NEW S, NEW s \in Seq(S), NEW i \in DOMAIN s
  PROVE  s[i] \in S
OBVIOUS

LEMMA LargerSeq ==
  ASSUME NEW S, NEW T, S \subseteq T, NEW s \in Seq(S)
  PROVE  s \in Seq(T)
OBVIOUS

LEMMA HalfNat ==
  ASSUME NEW n \in Nat
  PROVE  Half(n) \in Nat /\ Half(n) <= n
BY DEF Half

Accounts == [coins : Nat, coinsLocked : Nat, won : Nat, wonLocked : Nat]

\* Two amounts of the account change.
LEMMA AccountKept ==
  ASSUME NEW acc \in Accounts, NEW m \in Nat, NEW n \in Nat
  PROVE  /\ [acc EXCEPT !.coins = m, !.coinsLocked = n] \in Accounts
         /\ [acc EXCEPT !.won = m, !.wonLocked = n] \in Accounts
         /\ [acc EXCEPT !.coinsLocked = m, !.won = n] \in Accounts
         /\ [acc EXCEPT !.wonLocked = m, !.coins = n] \in Accounts
BY DEF Accounts

LEMMA OneElement ==
  ASSUME NEW S, NEW s \in Seq(S), s # <<>>, Len(s) <= 1
  PROVE  Len(s) = 1 /\ 1 \in DOMAIN s /\ s[1] \in S
<1>1. Len(s) \in Nat /\ DOMAIN s = 1..Len(s)
  OBVIOUS
<1>2. CASE Len(s) = 0
  <2>1. s = <<>>
    BY <1>2, EmptySeq
  <2> QED
    BY <2>1
<1>3. CASE Len(s) # 0
  <2>1. Len(s) = 1
    BY <1>1, <1>3
  <2> QED
    BY <1>1, <2>1
<1> QED
  BY <1>2, <1>3

\* Another order is worth its amount.
LEMMA UnitsAdded ==
  ASSUME NEW S, IsFiniteSet(Units(S)), NEW o, o \notin S, o.amount \in Nat
  PROVE  /\ IsFiniteSet(Units(S \cup {o}))
         /\ Cardinality(Units(S)) \in Nat
         /\ Cardinality(Units(S \cup {o})) = Cardinality(Units(S)) + o.amount
<1> DEFINE a == o.amount
<1> DEFINE T == {o} \X (0..(a - 1))
<1>1. IsFiniteSet(0..(a - 1)) /\ Cardinality(0..(a - 1)) = a
  <2>1. 0 \in Int /\ a - 1 \in Int
    OBVIOUS
  <2>2. /\ IsFiniteSet(0..(a - 1))
        /\ Cardinality(0..(a - 1)) = IF 0 > a - 1 THEN 0 ELSE (a - 1) - 0 + 1
    BY <2>1, FS_Interval
  <2> QED
    BY <2>2
<1>2. IsFiniteSet({o}) /\ Cardinality({o}) = 1
  BY FS_Singleton
<1>3. IsFiniteSet(T) /\ Cardinality(T) = a
  <2>1. IsFiniteSet(T) /\ Cardinality(T) = Cardinality({o}) * Cardinality(0..(a - 1))
    BY <1>1, <1>2, FS_Product
  <2> QED
    BY <1>1, <1>2, <2>1
<1>4. Units(S \cup {o}) = Units(S) \cup T
  BY DEF Units
<1>5. Units(S) \cap T = {}
  BY DEF Units
<1>6. Cardinality(Units(S)) \in Nat
  BY FS_CardinalityType
<1> HIDE DEF T
<1>7. /\ IsFiniteSet(Units(S) \cup T)
      /\ Cardinality(Units(S) \cup T)
           = Cardinality(Units(S)) + Cardinality(T) - Cardinality(Units(S) \cap T)
  BY <1>3, FS_Union
<1>8. Cardinality(Units(S) \cap T) = 0
  BY <1>5, FS_EmptySet
<1> DEFINE n == Cardinality(Units(S))
<1>9. n \in Nat /\ a \in Nat /\ Cardinality(Units(S) \cup T) = n + a - 0
  BY <1>3, <1>6, <1>7, <1>8
<1> HIDE DEF n, a
<1>10. Cardinality(Units(S) \cup T) = n + a
  BY <1>9
<1> QED
  BY <1>4, <1>6, <1>7, <1>10 DEF n, a

\* One order less gives it back.
LEMMA UnitsRemoved ==
  ASSUME NEW S, IsFiniteSet(Units(S)), NEW o \in S, o.amount \in Nat
  PROVE  /\ IsFiniteSet(Units(S \ {o}))
         /\ Cardinality(Units(S \ {o})) \in Nat
         /\ Cardinality(Units(S)) = Cardinality(Units(S \ {o})) + o.amount
<1>1. Units(S \ {o}) \in SUBSET Units(S)
  BY DEF Units
<1>2. IsFiniteSet(Units(S \ {o}))
  BY <1>1, FS_Subset
<1>3. o \notin S \ {o} /\ (S \ {o}) \cup {o} = S
  OBVIOUS
<1> QED
  BY <1>2, <1>3, UnitsAdded

LEMMA NoUnits == Units({}) = {} /\ IsFiniteSet({}) /\ Cardinality({}) = 0
BY FS_EmptySet DEF Units

-----------------------------------------------------------------------------
\* What OnCandle decides on: at most a sale within the coins of the position
\* and a purchase within its won.
Draft == [side : Side, amount : Nat]

Within(o) ==
  /\ o \in Draft
  /\ o.amount <= (IF o.side = "sell" THEN position.coins ELSE position.won)

Decision(orders) ==
  /\ orders \in Seq(Draft)
  /\ \A i \in DOMAIN orders : Within(orders[i])
  /\ \A i, j \in DOMAIN orders : i # j => orders[i].side # orders[j].side

LEMMA DecideNone == Decision(<<>>)
BY DEF Decision

LEMMA DecideOne ==
  ASSUME NEW o, Within(o)
  PROVE  Decision(<<o>>)
<1>1. DOMAIN <<o>> = {1} /\ <<o>>[1] = o
  OBVIOUS
<1>2. <<o>> \in Seq(Draft)
  BY DEF Within
<1> QED
  BY <1>1, <1>2 DEF Decision

LEMMA DecideTwo ==
  ASSUME NEW o, NEW p, Within(o), Within(p), o.side # p.side
  PROVE  Decision(<<o>> \o <<p>>)
<1>1. o \in Draft /\ p \in Draft
  BY DEF Within
<1> HIDE DEF Draft
<1>2. <<o>> \o <<p>> \in Seq(Draft)
  BY <1>1
<1>3. /\ DOMAIN (<<o>> \o <<p>>) = {1, 2}
      /\ (<<o>> \o <<p>>)[1] = o /\ (<<o>> \o <<p>>)[2] = p
  OBVIOUS
<1> QED
  BY <1>2, <1>3 DEF Decision

\* Any sale with any purchase.
LEMMA DecideBoth ==
  ASSUME NEW sale, NEW purchase,
         sale = <<>> \/ \E n \in Nat : n <= position.coins /\ sale = executeSell(n),
         purchase = <<>> \/ \E n \in Nat : n <= position.won /\ purchase = executeBuy(n)
  PROVE  Decision(sale \o purchase)
<1> DEFINE SellOf(n) == [side |-> "sell", amount |-> n]
<1> DEFINE BuyOf(n) == [side |-> "buy", amount |-> n]
<1>1. ASSUME NEW n \in Nat, n <= position.coins
      PROVE  Within(SellOf(n))
  BY <1>1 DEF Draft, Within, Side
<1>2. ASSUME NEW n \in Nat, n <= position.won
      PROVE  Within(BuyOf(n))
  BY <1>2 DEF Draft, Within, Side
<1>3. CASE sale = <<>> /\ purchase = <<>>
  BY <1>3, DecideNone
<1>4. CASE sale = <<>> /\ purchase # <<>>
  <2>1. PICK n \in Nat : n <= position.won /\ purchase = <<BuyOf(n)>>
    BY <1>4 DEF executeBuy
  <2>2. sale \o purchase = <<BuyOf(n)>>
    BY <1>4, <2>1
  <2> QED
    BY <1>2, <2>1, <2>2, DecideOne
<1>5. CASE sale # <<>> /\ purchase = <<>>
  <2>1. PICK n \in Nat : n <= position.coins /\ sale = <<SellOf(n)>>
    BY <1>5 DEF executeSell
  <2>2. sale \o purchase = <<SellOf(n)>>
    BY <1>5, <2>1
  <2> QED
    BY <1>1, <2>1, <2>2, DecideOne
<1>6. CASE sale # <<>> /\ purchase # <<>>
  <2>1. PICK n \in Nat : n <= position.coins /\ sale = <<SellOf(n)>>
    BY <1>6 DEF executeSell
  <2>2. PICK m \in Nat : m <= position.won /\ purchase = <<BuyOf(m)>>
    BY <1>6 DEF executeBuy
  <2> QED
    BY <1>1, <1>2, <2>1, <2>2, DecideTwo
<1> QED
  BY <1>3, <1>4, <1>5, <1>6

LEMMA SignalsDecide ==
  ASSUME TypeOK, NEW s
  PROVE  Decision(Sale(s) \o Purchase(s))
<1>1. /\ position.coins \in Nat /\ position.won \in Nat
      /\ Half(position.coins) \in Nat /\ Half(position.coins) <= position.coins
      /\ Half(position.won) \in Nat /\ Half(position.won) <= position.won
  BY HalfNat DEF TypeOK
<1>2. Sale(s) = <<>> \/ \E n \in Nat : n <= position.coins /\ Sale(s) = executeSell(n)
  BY <1>1 DEF Sale
<1>3. Purchase(s) = <<>> \/ \E n \in Nat : n <= position.won /\ Purchase(s) = executeBuy(n)
  BY <1>1 DEF Purchase
<1> QED
  BY <1>2, <1>3, DecideBoth

LEMMA PSHDecides ==
  ASSUME TypeOK, NEW s
  PROVE  Decision((IF s.sell /\ position.coins > 0
                   THEN executeSell(position.coins) ELSE <<>>)
                  \o (IF s.buy /\ position.won >= Minimum
                      THEN executeBuy(position.won) ELSE <<>>))
<1>1. position.coins \in Nat /\ position.won \in Nat
  BY DEF TypeOK
<1> DEFINE sale == IF s.sell /\ position.coins > 0
                   THEN executeSell(position.coins) ELSE <<>>
<1> DEFINE purchase == IF s.buy /\ position.won >= Minimum
                       THEN executeBuy(position.won) ELSE <<>>
<1>2. sale = <<>> \/ \E n \in Nat : n <= position.coins /\ sale = executeSell(n)
  BY <1>1
<1>3. purchase = <<>> \/ \E n \in Nat : n <= position.won /\ purchase = executeBuy(n)
  BY <1>1
<1> HIDE DEF sale, purchase
<1>4. Decision(sale \o purchase)
  BY <1>2, <1>3, DecideBoth
<1> QED
  BY <1>4 DEF sale, purchase

LEMMA RiskDecides ==
  ASSUME TypeOK
  PROVE  Decision(executeSell(Half(position.coins)))
<1>1. Half(position.coins) \in Nat /\ Half(position.coins) <= position.coins
  BY HalfNat DEF TypeOK
<1>2. Within([side |-> "sell", amount |-> Half(position.coins)])
  BY <1>1 DEF Within, Draft, Side
<1> QED
  BY <1>2, DecideOne DEF executeSell

\* Every decision of a strategy is issued.
LEMMA StrategyIssues ==
  ASSUME TypeOK, LimitRisk \/ FollowSignals \/ FollowPSH
  PROVE  strategy = "decide" /\ \E orders : Decision(orders) /\ Issue(orders)
<1>1. CASE LimitRisk
  BY <1>1, RiskDecides DEF LimitRisk
<1>2. CASE FollowSignals
  BY <1>2, SignalsDecide DEF FollowSignals
<1>3. CASE FollowPSH
  BY <1>3, PSHDecides DEF FollowPSH
<1> QED
  BY <1>1, <1>2, <1>3

-----------------------------------------------------------------------------
LEMMA TradingInitial == Init => PlaceInv /\ OrderInv /\ FitInv
<1> SUFFICES ASSUME Init  PROVE PlaceInv /\ OrderInv /\ FitInv
  OBVIOUS
<1> USE TradingAssumption DEF TradingAssumption, Init
<1>1. TypeOK
  BY DEF TypeOK, Position
<1>2. Numbered
  BY DEF Numbered
<1>3. Requested
  BY DEF Requested
<1>4. Locked
  <2>1. OpenOn("sell") = {} /\ OpenOn("buy") = {}
    BY DEF OpenOn
  <2> QED
    BY <2>1, NoUnits DEF Locked
<1>5. StillFits /\ SettledFirst
  BY DEF StillFits, SettledFirst
<1>6. RefusedWhenStale /\ PlacedInOrder /\ ToldOfPlaced
  BY DEF RefusedWhenStale, PlacedInOrder, ToldOfPlaced
<1> QED
  BY <1>1, <1>2, <1>3, <1>4, <1>5, <1>6 DEF PlaceInv, OrderInv, FitInv

\* What is locked changes with the open orders only.
LEMMA LockedKept ==
  ASSUME Locked, UNCHANGED <<account, open>>
  PROVE  Locked'
BY DEF Locked, OpenOn, Units

\* OnCandle reads a position, or nothing.
LEMMA ReadKeeps ==
  ASSUME PlaceInv, OrderInv, FitInv, OnCandle \/ OnCandleFails
  PROVE  PlaceInv' /\ OrderInv' /\ FitInv'
<1> USE DEF PlaceInv, OrderInv, FitInv, exchangeVars
<1>1. UNCHANGED <<account, open, placed, refused, strat, out, queue, broker,
                  order, issued, told>>
  BY DEF OnCandle, OnCandleFails
<1>2. TypeOK'
  <2>1. bars' \in 0..MaxBars
    BY BoundsAreNat DEF TypeOK, OnCandle, OnCandleFails
  <2>2. Position \in [coins : Nat, won : Nat]
    BY SMTT(30) DEF TypeOK, Position
  <2> QED
    BY <1>1, <2>1, <2>2 DEF TypeOK, OnCandle, OnCandleFails, Settled
<1>3. Numbered' /\ Requested' /\ Locked'
  BY <1>1, LockedKept DEF Numbered, Requested, Seen
<1>4. RefusedWhenStale' /\ PlacedInOrder' /\ ToldOfPlaced' /\ SettledFirst'
  BY <1>1 DEF RefusedWhenStale, PlacedInOrder, ToldOfPlaced, SettledFirst
<1>5. StillFits'
  <2>1. CASE OnCandleFails
    BY <1>1, <2>1 DEF OnCandleFails, StillFits, Affordable, Apart
  <2>2. CASE OnCandle
    <3>1. Settled => position'.coins = account.coins /\ position'.won = account.won
      <4> SUFFICES ASSUME Settled
                   PROVE  position'.coins = account.coins /\ position'.won = account.won
        OBVIOUS
      <4>1. OpenOn("sell") = {} /\ OpenOn("buy") = {}
        BY DEF Settled, OpenOn
      <4>2. account.coinsLocked = 0 /\ account.wonLocked = 0
        BY <4>1, NoUnits DEF Locked
      <4>3. account.coins \in Nat /\ account.won \in Nat
        BY DEF TypeOK
      <4> QED
        BY <2>2, <4>2, <4>3 DEF OnCandle, Position
    <3> QED
      BY <1>1, <2>2, <3>1, ZenonT(40) DEF OnCandle, StillFits, Affordable, Apart, Settled
  <2> QED
    BY <2>1, <2>2
<1> QED
  BY <1>2, <1>3, <1>4, <1>5

\* What OnCandle decides on comes last.
LEMMA IssueKeeps ==
  ASSUME PlaceInv, OrderInv, FitInv, strategy = "decide",
         NEW orders, Decision(orders), Issue(orders)
  PROVE  PlaceInv' /\ OrderInv' /\ FitInv'
<1> USE DEF PlaceInv, OrderInv, FitInv, exchangeVars
<1>0. /\ out = <<>> /\ issued \in Nat /\ settled \in BOOLEAN
      /\ UNCHANGED <<account, open, placed, refused, strat, queue, broker,
                     order, told, position, settled, bars>>
  BY DEF TypeOK, Issue
<1>1. orders \in Seq(Draft) /\ Len(orders) \in Nat
  BY DEF Decision
<1>2. \A i \in 1..Len(orders) :
        [id |-> issued + i, side |-> orders[i].side,
         amount |-> orders[i].amount, settled |-> settled] \in Order
  <2>1. \A i \in 1..Len(orders) : orders[i] \in Draft
    BY <1>1, ElementOfSequence
  <2>2. \A i \in 1..Len(orders) : issued + i \in Nat \ {0}
    BY <1>0, <1>1
  <2> QED
    BY <1>0, <2>1, <2>2 DEF Draft, Order
<1>3. /\ out' \in Seq(Order) /\ Len(out') = Len(orders) /\ DOMAIN out' = DOMAIN orders
      /\ \A i \in DOMAIN out' :
           /\ i \in Nat \ {0}
           /\ out'[i] = [id |-> issued + i, side |-> orders[i].side,
                         amount |-> orders[i].amount, settled |-> settled]
  <2>1. DOMAIN orders = 1..Len(orders)
    BY <1>1
  <2> QED
    BY <1>1, <1>2, <2>1 DEF Issue
<1>4. out' = <<>> <=> orders = <<>>
  BY <1>1, <1>3
<1>5. issued' = issued + Len(out')
  BY <1>3 DEF Issue
<1>6. TypeOK'
  <2>1. issued' \in Nat /\ issued' >= issued
    BY <1>0, <1>1 DEF Issue
  <2>2. 1..issued \subseteq 1..issued'
    BY <1>0, <2>1
  <2>3. placed' \in Seq(1..issued') /\ told' \in Seq([id : 1..issued', executed : BOOLEAN])
    <3>1. [id : 1..issued, executed : BOOLEAN] \subseteq [id : 1..issued', executed : BOOLEAN]
      BY <2>2
    <3>2. placed \in Seq(1..issued) /\ told \in Seq([id : 1..issued, executed : BOOLEAN])
      BY DEF TypeOK
    <3> QED
      BY <1>0, <2>2, <3>1, <3>2, LargerSeq
  <2>4. strategy' = IF out' = <<>> THEN "idle" ELSE "publish"
    BY <1>4 DEF Issue
  <2> QED
    BY <1>0, <1>3, <2>1, <2>3, <2>4 DEF TypeOK
<1>7. Numbered'
  <2>1. issued = Len(told) + Len(order) + Len(queue)
    BY <1>0 DEF Numbered, TypeOK
  <2>2. issued' = Len(told) + Len(order) + Len(queue) + Len(out')
    BY <1>5, <2>1
  <2>3. \A i \in DOMAIN out' : out'[i].id = Len(told) + Len(order) + Len(queue) + i
    BY <1>3, <2>1
  <2> QED
    BY <1>0, <2>2, <2>3 DEF Numbered
<1>8. Requested' /\ Locked'
  BY <1>0, LockedKept DEF Requested, Seen
<1>9. OrderInv' /\ RefusedWhenStale'
  BY <1>0 DEF PlacedInOrder, ToldOfPlaced, RefusedWhenStale
<1>10. settled => /\ queue = <<>> /\ order = <<>>
                  /\ position.coins = account.coins /\ position.won = account.won
  BY DEF StillFits
<1>11. StillFits'
  <2>1. (\A i \in DOMAIN out : out[i].settled => Affordable(out[i]))'
    <3>1. \A i \in DOMAIN out' : Within(orders[i])
      BY <1>3 DEF Decision
    <3> QED
      BY <1>0, <1>3, <1>10, <3>1 DEF Within, Affordable
  <2>2. \A i, j \in DOMAIN out' : i # j => Apart(out'[i], out'[j])
    BY <1>3 DEF Decision, Apart
  <2>3. \A i \in DOMAIN out', j \in DOMAIN queue' : Apart(out'[i], queue'[j])
    BY <1>0, <1>3, <1>10 DEF Apart
  <2>4. order' # <<>> => /\ \A i \in DOMAIN out' : Apart(order'[1], out'[i])
                         /\ \A i \in DOMAIN queue' : Apart(order'[1], queue'[i])
    BY <1>0, <1>3, <1>10 DEF StillFits, Apart
  <2>5. strategy' # "decide"
    BY DEF Issue
  <2>6. /\ (\A i \in DOMAIN queue : queue[i].settled => Affordable(queue[i]))'
        /\ (broker = "request" /\ order[1].settled => Affordable(order[1]))'
        /\ \A i, j \in DOMAIN queue' : i # j => Apart(queue'[i], queue'[j])
    BY <1>0 DEF StillFits, Affordable
  <2> QED
    BY <2>1, <2>2, <2>3, <2>4, <2>5, <2>6 DEF StillFits, Apart
<1>12. SettledFirst'
  BY <1>0, <1>3, <1>10 DEF SettledFirst
<1> QED
  BY <1>6, <1>7, <1>8, <1>9, <1>11, <1>12

\* An order goes from OnCandle into the channel, and out of it to OnOrder.
LEMMA PublishKeeps ==
  ASSUME PlaceInv, OrderInv, FitInv, Publish
  PROVE  PlaceInv' /\ OrderInv' /\ FitInv'
<1> USE DEF PlaceInv, OrderInv, FitInv, exchangeVars
<1>0. /\ out \in Seq(Order) /\ out # <<>> /\ queue \in Seq(Order)
      /\ out' = Tail(out) /\ queue' = Append(queue, Head(out))
      /\ UNCHANGED <<account, open, placed, refused, strat, position, settled,
                     broker, order, bars, issued, told>>
  BY DEF TypeOK, Publish
<1>1. /\ \A i \in DOMAIN out' : /\ i + 1 \in DOMAIN out /\ out'[i] = out[i + 1]
                                /\ i \in Nat \ {0}
      /\ Len(out') = Len(out) - 1 /\ out' \in Seq(Order)
  BY <1>0
<1>2. /\ \A i \in DOMAIN queue' :
           \/ i \in DOMAIN queue /\ queue'[i] = queue[i]
           \/ i = Len(queue) + 1 /\ queue'[i] = out[1]
      /\ Len(queue') = Len(queue) + 1 /\ queue' \in Seq(Order)
  BY <1>0
<1>3. 1 \in DOMAIN out /\ Len(out) \in Nat /\ Len(queue) \in Nat
  BY <1>0
<1>4. Len(queue) + 1 \notin DOMAIN queue
  BY <1>0
<1>5. TypeOK'
  <2>1. Len(queue') <= Capacity
    BY <1>2, <1>3, BoundsAreNat DEF Publish
  <2>2. strategy' = IF out' = <<>> THEN "idle" ELSE "publish"
    BY DEF Publish
  <2> QED
    BY <1>0, <1>1, <1>2, <2>1, <2>2 DEF TypeOK
<1>6. Numbered'
  <2>1. Len(told) \in Nat /\ Len(order) \in Nat
    BY DEF TypeOK
  <2>2. issued' = Len(told) + Len(order) + Len(queue') + Len(out')
    <3>1. /\ issued' = Len(told) + Len(order) + Len(queue) + Len(out)
          /\ Len(queue') = Len(queue) + 1 /\ Len(out') = Len(out) - 1
      BY <1>0, <1>1, <1>2 DEF Numbered
    <3> DEFINE earlier == Len(told) + Len(order)
    <3> DEFINE q == Len(queue)
    <3> DEFINE n == Len(out)
    <3>2. earlier \in Nat /\ q \in Nat /\ n \in Nat
      BY <1>3, <2>1
    <3>3. issued' = earlier + q + n /\ Len(queue') = q + 1 /\ Len(out') = n - 1
      BY <3>1
    <3> HIDE DEF earlier, q, n
    <3>4. issued' = earlier + Len(queue') + Len(out')
      BY <3>2, <3>3
    <3>5. earlier = Len(told) + Len(order)
      BY DEF earlier
    <3> QED
      BY <3>4, <3>5
  <2>3. \A i \in DOMAIN queue' : queue'[i].id = Len(told) + Len(order) + i
    <3>1. out[1].id = Len(told) + Len(order) + (Len(queue) + 1)
      <4>1. out[1].id = Len(told) + Len(order) + Len(queue) + 1
        BY <1>3 DEF Numbered
      <4> QED
        BY <1>3, <2>1, <4>1
    <3>2. \A i \in DOMAIN queue : queue[i].id = Len(told) + Len(order) + i
      BY DEF Numbered
    <3> QED
      BY <1>2, <3>1, <3>2
  <2>4. \A i \in DOMAIN out' : out'[i].id = Len(told) + Len(order) + Len(queue') + i
    <3> SUFFICES ASSUME NEW i \in DOMAIN out'
                 PROVE  out'[i].id = Len(told) + Len(order) + Len(queue') + i
      OBVIOUS
    <3>1. /\ i \in Nat
          /\ out'[i].id = Len(told) + Len(order) + Len(queue) + (i + 1)
      BY <1>1 DEF Numbered
    <3> QED
      BY <1>2, <1>3, <2>1, <3>1
  <2> QED
    BY <1>0, <2>2, <2>3, <2>4 DEF Numbered
<1>7. Requested' /\ Locked'
  BY <1>0, LockedKept DEF Requested, Seen
<1>8. OrderInv' /\ RefusedWhenStale'
  BY <1>0 DEF PlacedInOrder, ToldOfPlaced, RefusedWhenStale
<1>9. StillFits'
  <2>1. (\A i \in DOMAIN out : out[i].settled => Affordable(out[i]))'
    BY <1>0, <1>1 DEF StillFits, Affordable
  <2>2. (\A i \in DOMAIN queue : queue[i].settled => Affordable(queue[i]))'
    BY <1>0, <1>2, <1>3 DEF StillFits, Affordable
  <2>3. \A i, j \in DOMAIN out' : i # j => Apart(out'[i], out'[j])
    <3> SUFFICES ASSUME NEW i \in DOMAIN out', NEW j \in DOMAIN out', i # j
                 PROVE  Apart(out'[i], out'[j])
      OBVIOUS
    <3>1. i + 1 # j + 1
      BY <1>1
    <3> QED
      BY <1>1, <3>1 DEF StillFits
  <2>4. \A i, j \in DOMAIN queue' : i # j => Apart(queue'[i], queue'[j])
    <3> SUFFICES ASSUME NEW i \in DOMAIN queue', NEW j \in DOMAIN queue', i # j
                 PROVE  Apart(queue'[i], queue'[j])
      OBVIOUS
    <3> QED
      BY <1>2, <1>3, <1>4 DEF StillFits, Apart
  <2>5. \A i \in DOMAIN out', j \in DOMAIN queue' : Apart(out'[i], queue'[j])
    <3> SUFFICES ASSUME NEW i \in DOMAIN out', NEW j \in DOMAIN queue'
                 PROVE  Apart(out'[i], queue'[j])
      OBVIOUS
    <3>1. i + 1 # 1 /\ i + 1 \in DOMAIN out /\ out'[i] = out[i + 1]
      BY <1>1
    <3>2. Apart(out[i + 1], out[1])
      BY <1>3, <3>1 DEF StillFits
    <3> QED
      BY <1>2, <3>1, <3>2 DEF StillFits
  <2>6. order' # <<>> => /\ \A i \in DOMAIN out' : Apart(order'[1], out'[i])
                         /\ \A i \in DOMAIN queue' : Apart(order'[1], queue'[i])
    BY <1>0, <1>1, <1>2, <1>3 DEF StillFits
  <2>7. strategy' # "decide" /\ (broker = "request" /\ order[1].settled => Affordable(order[1]))'
    BY <1>0 DEF Publish, StillFits, Affordable
  <2> QED
    BY <2>1, <2>2, <2>3, <2>4, <2>5, <2>6, <2>7 DEF StillFits, Apart
<1>10. SettledFirst'
  <2>1. \A i, j \in DOMAIN queue' : i < j => i \in DOMAIN queue /\ queue'[i] = queue[i]
    BY <1>0
  <2>2. \A i, j \in DOMAIN out' : out'[i].settled => out'[j].settled
    BY <1>1 DEF SettledFirst
  <2>3. \A i, j \in DOMAIN queue' : i < j /\ queue'[j].settled => queue'[i].settled
    BY <1>2, <1>3, <2>1 DEF SettledFirst
  <2>4. \A i \in DOMAIN out', j \in DOMAIN queue' : out'[i].settled => queue'[j].settled
    BY <1>1, <1>2, <1>3 DEF SettledFirst
  <2>5. order' # <<>> =>
          /\ \A i \in DOMAIN out' : out'[i].settled => order'[1].settled
          /\ \A i \in DOMAIN queue' : queue'[i].settled => order'[1].settled
    BY <1>0, <1>1, <1>2, <1>3 DEF SettledFirst
  <2> QED
    BY <2>2, <2>3, <2>4, <2>5 DEF SettledFirst
<1> QED
  BY <1>5, <1>6, <1>7, <1>8, <1>9, <1>10

LEMMA OnOrderKeeps ==
  ASSUME PlaceInv, OrderInv, FitInv, OnOrder
  PROVE  PlaceInv' /\ OrderInv' /\ FitInv'
<1> USE DEF PlaceInv, OrderInv, FitInv, exchangeVars, strategyVars
<1>0. /\ queue \in Seq(Order) /\ queue # <<>> /\ order = <<>>
      /\ broker = "idle" /\ broker' = "request"
      /\ order' = <<Head(queue)>> /\ queue' = Tail(queue)
      /\ UNCHANGED <<account, open, placed, refused, strat, strategy, position,
                     settled, out, bars, issued, told>>
  BY DEF TypeOK, OnOrder
<1>1. 1 \in DOMAIN queue /\ queue[1] \in Order /\ Head(queue) = queue[1] /\ Len(queue) \in Nat
  BY <1>0
<1>2. /\ order' \in Seq(Order) /\ Len(order') = 1 /\ order' # <<>>
      /\ order'[1] = queue[1] /\ DOMAIN order' = {1}
  BY <1>0, <1>1
<1>3. /\ \A i \in DOMAIN queue' : /\ i + 1 \in DOMAIN queue /\ queue'[i] = queue[i + 1]
                                  /\ i \in Nat \ {0}
      /\ Len(queue') = Len(queue) - 1 /\ queue' \in Seq(Order)
  BY <1>0
<1>4. TypeOK'
  BY <1>0, <1>1, <1>2, <1>3, BoundsAreNat DEF TypeOK
<1>5. Numbered'
  <2>1. Len(told) \in Nat /\ Len(out) \in Nat /\ Len(order) = 0
    BY <1>0 DEF TypeOK
  <2>2. issued' = Len(told) + Len(order') + Len(queue') + Len(out)
    BY <1>0, <1>1, <1>2, <1>3, <2>1 DEF Numbered
  <2>3. \A i \in DOMAIN order' : order'[i].id = Len(told) + i
    BY <1>1, <1>2, <2>1 DEF Numbered
  <2>4. \A i \in DOMAIN queue' : queue'[i].id = Len(told) + Len(order') + i
    <3> SUFFICES ASSUME NEW i \in DOMAIN queue'
                 PROVE  queue'[i].id = Len(told) + Len(order') + i
      OBVIOUS
    <3>1. i \in Nat /\ queue'[i].id = Len(told) + Len(order) + (i + 1)
      BY <1>3 DEF Numbered
    <3> QED
      BY <1>2, <2>1, <3>1
  <2>5. \A i \in DOMAIN out : i \in Nat
    BY DEF TypeOK
  <2>6. \A i \in DOMAIN out : out[i].id = Len(told) + Len(order') + Len(queue') + i
    BY <1>1, <1>2, <1>3, <2>1, <2>5 DEF Numbered
  <2> QED
    BY <1>0, <2>2, <2>3, <2>4, <2>6 DEF Numbered
<1>6. Requested' /\ Locked'
  BY <1>0, LockedKept DEF Requested, Seen
<1>7. OrderInv' /\ RefusedWhenStale'
  BY <1>0 DEF PlacedInOrder, ToldOfPlaced, RefusedWhenStale
<1>8. StillFits'
  <2>1. (\A i \in DOMAIN out : out[i].settled => Affordable(out[i]))'
    BY <1>0 DEF StillFits, Affordable
  <2>2. (\A i \in DOMAIN queue : queue[i].settled => Affordable(queue[i]))'
    BY <1>0, <1>3 DEF StillFits, Affordable
  <2>3. (order[1].settled => Affordable(order[1]))'
    BY <1>0, <1>1, <1>2 DEF StillFits, Affordable
  <2>4. \A i, j \in DOMAIN queue' : i # j => Apart(queue'[i], queue'[j])
    <3> SUFFICES ASSUME NEW i \in DOMAIN queue', NEW j \in DOMAIN queue', i # j
                 PROVE  Apart(queue'[i], queue'[j])
      OBVIOUS
    <3>1. i + 1 # j + 1
      BY <1>3
    <3> QED
      BY <1>3, <3>1 DEF StillFits
  <2>5. \A i \in DOMAIN out, j \in DOMAIN queue' : Apart(out[i], queue'[j])
    BY <1>3 DEF StillFits
  <2>6. \A i \in DOMAIN out : Apart(order'[1], out[i])
    BY <1>1, <1>2 DEF StillFits, Apart
  <2>7. \A i \in DOMAIN queue' : Apart(order'[1], queue'[i])
    <3> SUFFICES ASSUME NEW i \in DOMAIN queue'  PROVE Apart(order'[1], queue'[i])
      OBVIOUS
    <3>1. i + 1 \in DOMAIN queue /\ i + 1 # 1 /\ queue'[i] = queue[i + 1]
      BY <1>3
    <3>2. Apart(queue[1], queue[i + 1])
      BY <1>1, <3>1 DEF StillFits
    <3> QED
      BY <1>2, <3>1, <3>2
  <2>8. ~(strategy' = "decide" /\ settled')
    BY <1>0 DEF StillFits
  <2>9. \A i, j \in DOMAIN out : i # j => Apart(out[i], out[j])
    BY DEF StillFits
  <2> QED
    BY <1>0, <2>1, <2>2, <2>3, <2>4, <2>5, <2>6, <2>7, <2>8, <2>9 DEF StillFits, Apart
<1>9. SettledFirst'
  <2>1. /\ \A i \in DOMAIN queue' : 1 < i + 1
        /\ \A i, j \in DOMAIN queue' : i < j => i + 1 < j + 1
    BY <1>3
  <2> QED
    BY <1>0, <1>1, <1>2, <1>3, <2>1 DEF SettledFirst
<1> QED
  BY <1>4, <1>5, <1>6, <1>7, <1>8, <1>9

-----------------------------------------------------------------------------
\* While OnOrder has an order, OnCandle's position is no settled one.
LEMMA InHand ==
  ASSUME PlaceInv, StillFits, broker # "idle"
  PROVE  /\ ~(strategy = "decide" /\ settled)
         /\ order \in Seq(Order) /\ order # <<>> /\ Len(order) = 1
         /\ 1 \in DOMAIN order /\ order[1] \in Order
         /\ order[1].amount \in Nat /\ order[1].side \in Side
         /\ order[1].id = Len(told) + 1 /\ Len(told) \in Nat
         /\ order[1].id \in 1..issued
<1>1. order \in Seq(Order) /\ order # <<>> /\ Len(order) = 1
  <2>1. order \in Seq(Order) /\ order # <<>> /\ Len(order) <= 1
    BY DEF PlaceInv, TypeOK
  <2> QED
    BY <2>1, OneElement
<1>2. 1 \in DOMAIN order /\ order[1] \in Order
  BY <1>1
<1>3. order[1].amount \in Nat /\ order[1].side \in Side
  BY <1>2 DEF Order
<1>4. Len(told) \in Nat /\ Len(queue) \in Nat /\ Len(out) \in Nat
  BY DEF PlaceInv, TypeOK
<1>5. order[1].id = Len(told) + 1
  BY <1>2 DEF PlaceInv, Numbered
<1>6. issued = Len(told) + 1 + Len(queue) + Len(out)
  BY <1>1 DEF PlaceInv, Numbered
<1>7. order[1].id \in 1..issued
  BY <1>4, <1>5, <1>6
<1> QED
  BY <1>1, <1>2, <1>3, <1>4, <1>5, <1>7 DEF StillFits

\* CreateOrderMarket: the exchange takes the order in hand,
LEMMA PlaceKeeps ==
  ASSUME PlaceInv, OrderInv, FitInv, Place
  PROVE  PlaceInv' /\ OrderInv' /\ FitInv'
<1> USE DEF PlaceInv, OrderInv, FitInv
<1> DEFINE o == order[1]
<1>0. /\ broker = "request" /\ broker' \in {"executed", "failed"}
      /\ Affordable(o) /\ Lock(o)
      /\ open' = open \cup {o} /\ placed' = Append(placed, o.id)
      /\ UNCHANGED <<strat, strategy, position, settled, out, bars, issued,
                     queue, order, refused, told>>
  BY DEF Place, strategyVars
<1>1. /\ ~(strategy = "decide" /\ settled)
      /\ order # <<>> /\ Len(order) = 1 /\ o \in Order
      /\ o.amount \in Nat /\ o.side \in Side
      /\ o.id = Len(told) + 1 /\ Len(told) \in Nat /\ o.id \in 1..issued
  BY <1>0, InHand
<1> HIDE DEF o
<1>2. /\ account \in [coins : Nat, coinsLocked : Nat, won : Nat, wonLocked : Nat]
      /\ open \subseteq Order /\ placed \in Seq(1..issued)
  BY DEF TypeOK
<1>3. /\ o.side = "sell" =>
           /\ account'.coins = account.coins - o.amount
           /\ account'.coinsLocked = account.coinsLocked + o.amount
           /\ account'.won = account.won /\ account'.wonLocked = account.wonLocked
      /\ o.side = "buy" =>
           /\ account'.won = account.won - o.amount
           /\ account'.wonLocked = account.wonLocked + o.amount
           /\ account'.coins = account.coins /\ account'.coinsLocked = account.coinsLocked
  BY <1>0, <1>2 DEF Lock
<1>4. account' \in Accounts
  <2>1. /\ account \in Accounts
        /\ account.coins \in Nat /\ account.coinsLocked \in Nat
        /\ account.won \in Nat /\ account.wonLocked \in Nat
    BY <1>2 DEF Accounts
  <2>2. CASE o.side = "sell"
    <3> DEFINE m == account.coins - o.amount
    <3> DEFINE n == account.coinsLocked + o.amount
    <3>1. m \in Nat /\ n \in Nat
      BY <1>0, <1>1, <2>1, <2>2 DEF Affordable
    <3>2. account' = [account EXCEPT !.coins = m, !.coinsLocked = n]
      BY <1>0, <1>2, <2>2 DEF Lock
    <3> HIDE DEF m, n
    <3> QED
      BY <2>1, <3>1, <3>2, AccountKept
  <2>3. CASE o.side = "buy"
    <3> DEFINE m == account.won - o.amount
    <3> DEFINE n == account.wonLocked + o.amount
    <3>1. m \in Nat /\ n \in Nat
      BY <1>0, <1>1, <2>1, <2>3 DEF Affordable
    <3>2. account' = [account EXCEPT !.won = m, !.wonLocked = n]
      BY <1>0, <1>2, <2>3 DEF Lock
    <3> HIDE DEF m, n
    <3> QED
      BY <2>1, <3>1, <3>2, AccountKept
  <2> QED
    BY <1>1, <2>2, <2>3 DEF Side
<1>5. placed' \in Seq(1..issued) /\ Len(placed') = Len(placed) + 1
  BY <1>0, <1>1, <1>2
<1>6. TypeOK'
  BY <1>0, <1>1, <1>2, <1>4, <1>5 DEF TypeOK, Accounts
<1>7. Numbered'
  BY <1>0 DEF Numbered
<1>8. \A p \in open : p.id <= Len(told)
  <2>1. \A p \in open : p.id \in Nat
    BY <1>2 DEF Order
  <2> QED
    BY <1>0, <1>1, <2>1 DEF Requested, Seen
<1>9. \A i \in DOMAIN placed : placed[i] <= Len(told) /\ placed[i] \in Nat
  <2>1. \A i \in DOMAIN placed : placed[i] \in Nat
    <3>1. \A i \in DOMAIN placed : placed[i] \in 1..issued
      BY <1>2, ElementOfSequence
    <3>2. 1..issued \subseteq Nat
      BY <1>1
    <3> QED
      BY <3>1, <3>2
  <2> QED
    BY <1>0, <1>1, <2>1 DEF Requested, Seen
<1>10. /\ \A i \in DOMAIN placed' :
            \/ i \in DOMAIN placed /\ placed'[i] = placed[i]
            \/ i = Len(placed) + 1 /\ placed'[i] = o.id
       /\ Len(placed) + 1 \in DOMAIN placed' /\ placed'[Len(placed) + 1] = o.id
       /\ DOMAIN placed \subseteq DOMAIN placed'
       /\ \A i \in DOMAIN placed : i <= Len(placed) /\ i \in Nat /\ placed'[i] = placed[i]
       /\ Len(placed) \in Nat
  BY <1>0, <1>1, <1>2
<1>11. Requested'
  <2>1. \A p \in open' : p.id <= Len(told) + 1
    <3>1. \A p \in open : p.id \in Nat
      BY <1>2 DEF Order
    <3> QED
      BY <1>0, <1>1, <1>8, <3>1
  <2>2. \A i \in DOMAIN placed' : placed'[i] <= Len(told) + 1
    BY <1>1, <1>9, <1>10
  <2>3. \E i \in DOMAIN placed' : placed'[i] = Len(told) + 1
    BY <1>1, <1>10
  <2> QED
    BY <1>0, <2>1, <2>2, <2>3 DEF Requested, Seen
<1>12. Locked'
  <2>1. o \notin open
    BY <1>1, <1>8
  <2>2. CASE o.side = "sell"
    <3>1. OpenOn("sell")' = OpenOn("sell") \cup {o} /\ OpenOn("buy")' = OpenOn("buy")
      BY <1>0, <2>2 DEF OpenOn
    <3>2. o \notin OpenOn("sell")
      BY <2>1 DEF OpenOn
    <3>3. Units(OpenOn("buy"))' = Units(OpenOn("buy"))
      BY <3>1 DEF Units
    <3>4. Units(OpenOn("sell"))' = Units(OpenOn("sell") \cup {o})
      BY <3>1 DEF Units
    <3>5. /\ IsFiniteSet(Units(OpenOn("sell") \cup {o}))
          /\ Cardinality(Units(OpenOn("sell") \cup {o}))
               = Cardinality(Units(OpenOn("sell"))) + o.amount
      BY <1>1, <3>2, UnitsAdded DEF Locked
    <3> QED
      BY <1>3, <2>2, <3>3, <3>4, <3>5 DEF Locked
  <2>3. CASE o.side = "buy"
    <3>1. OpenOn("buy")' = OpenOn("buy") \cup {o} /\ OpenOn("sell")' = OpenOn("sell")
      BY <1>0, <2>3 DEF OpenOn
    <3>2. o \notin OpenOn("buy")
      BY <2>1 DEF OpenOn
    <3>3. Units(OpenOn("sell"))' = Units(OpenOn("sell"))
      BY <3>1 DEF Units
    <3>4. Units(OpenOn("buy"))' = Units(OpenOn("buy") \cup {o})
      BY <3>1 DEF Units
    <3>5. /\ IsFiniteSet(Units(OpenOn("buy") \cup {o}))
          /\ Cardinality(Units(OpenOn("buy") \cup {o}))
               = Cardinality(Units(OpenOn("buy"))) + o.amount
      BY <1>1, <3>2, UnitsAdded DEF Locked
    <3> QED
      BY <1>3, <2>3, <3>3, <3>4, <3>5 DEF Locked
  <2> QED
    BY <1>1, <2>2, <2>3 DEF Side
<1>13. PlacedInOrder'
  <2> SUFFICES ASSUME NEW i \in DOMAIN placed', NEW j \in DOMAIN placed', i < j
               PROVE  placed'[i] < placed'[j]
    BY DEF PlacedInOrder
  <2>1. i \in DOMAIN placed
    BY <1>5, <1>10
  <2>2. CASE j \in DOMAIN placed
    BY <1>10, <2>1, <2>2 DEF PlacedInOrder
  <2>3. CASE j = Len(placed) + 1
    BY <1>1, <1>9, <1>10, <2>1, <2>3
  <2> QED
    BY <1>10, <2>2, <2>3
<1>14. ToldOfPlaced'
  BY <1>0, <1>10 DEF ToldOfPlaced
\* What else of a settled position is under way is of the other side.
<1>15. ASSUME NEW p \in Order, p.settled => o.settled, Apart(o, p),
              p.settled => Affordable(p), p.settled
       PROVE  p.amount <= (IF p.side = "sell" THEN account'.coins ELSE account'.won)
  <2>1. p.side \in Side /\ p.side # o.side
    BY <1>15 DEF Apart, Order
  <2> QED
    BY <1>1, <1>3, <1>15, <2>1 DEF Affordable, Side
<1>16. StillFits'
  <2>1. /\ \A i \in DOMAIN out : out[i] \in Order
        /\ \A i \in DOMAIN queue : queue[i] \in Order
    BY DEF TypeOK
  <2>2. \A i \in DOMAIN out : out[i].settled => Affordable(out[i])'
    BY <1>0, <1>1, <1>15, <2>1 DEF StillFits, SettledFirst, Affordable, o
  <2>3. \A i \in DOMAIN queue : queue[i].settled => Affordable(queue[i])'
    BY <1>0, <1>1, <1>15, <2>1 DEF StillFits, SettledFirst, Affordable, o
  <2> QED
    BY <1>0, <1>1, <2>2, <2>3 DEF StillFits, Apart
<1>17. SettledFirst' /\ RefusedWhenStale'
  BY <1>0 DEF SettledFirst, RefusedWhenStale
<1> QED
  BY <1>6, <1>7, <1>11, <1>12, <1>13, <1>14, <1>16, <1>17

\* or refuses it, which it does not do for want of coins or won if the
\* position was settled, or is not reached.
LEMMA RefuseKeeps ==
  ASSUME PlaceInv, OrderInv, FitInv, Refuse \/ RequestFails
  PROVE  PlaceInv' /\ OrderInv' /\ FitInv'
<1> USE DEF PlaceInv, OrderInv, FitInv, strategyVars, exchangeVars
<1>0. /\ broker = "request" /\ broker' = "failed"
      /\ UNCHANGED <<account, open, placed, strat, strategy, position, settled,
                     out, bars, issued, queue, order, told>>
      /\ \/ refused' = refused
         \/ ~Affordable(order[1]) /\ refused' = refused \cup {order[1]}
  BY DEF Refuse, RequestFails
<1>1. /\ ~(strategy = "decide" /\ settled)
      /\ order # <<>> /\ order[1] \in Order /\ Len(told) \in Nat
  BY <1>0, InHand
<1>2. TypeOK'
  BY <1>0, <1>1 DEF TypeOK
<1>3. Numbered' /\ Locked'
  BY <1>0, LockedKept DEF Numbered
<1>4. Requested'
  <2>1. \A p \in open : p.id \in Nat
    BY DEF TypeOK, Order
  <2>2. \A i \in DOMAIN placed : placed[i] \in Nat
    BY SMTT(30) DEF TypeOK
  <2> QED
    BY <1>0, <1>1, <2>1, <2>2 DEF Requested, Seen
<1>5. OrderInv' /\ SettledFirst'
  BY <1>0 DEF PlacedInOrder, ToldOfPlaced, SettledFirst
<1>6. StillFits'
  BY <1>0, <1>1 DEF StillFits, Affordable, Apart
<1>7. RefusedWhenStale'
  BY <1>0 DEF RefusedWhenStale, StillFits
<1> QED
  BY <1>2, <1>3, <1>4, <1>5, <1>6, <1>7

\* The callbacks.
LEMMA ReportKeeps ==
  ASSUME PlaceInv, OrderInv, FitInv, Report
  PROVE  PlaceInv' /\ OrderInv' /\ FitInv'
<1> USE DEF PlaceInv, OrderInv, FitInv, strategyVars, exchangeVars
<1> DEFINE report == [id |-> order[1].id, executed |-> (broker = "executed")]
<1>0. /\ broker \in {"executed", "failed"} /\ broker' = "idle" /\ order' = <<>>
      /\ told' = Append(told, report)
      /\ UNCHANGED <<account, open, placed, refused, strat, strategy, position,
                     settled, out, bars, issued, queue>>
  BY DEF Report
<1>1. /\ ~(strategy = "decide" /\ settled) /\ Len(order) = 1
      /\ Len(told) \in Nat /\ order[1].id = Len(told) + 1 /\ order[1].id \in 1..issued
  BY <1>0, InHand
<1>2. report \in [id : 1..issued, executed : BOOLEAN]
  BY <1>1
<1>3. report.id = Len(told) + 1 /\ (report.executed => broker = "executed")
  BY <1>1
<1> HIDE DEF report
<1>4. told \in Seq([id : 1..issued, executed : BOOLEAN])
  BY DEF TypeOK
<1>5. /\ told' \in Seq([id : 1..issued, executed : BOOLEAN])
      /\ Len(told') = Len(told) + 1 /\ Len(order') = 0
      /\ \A i \in DOMAIN told' :
           \/ i \in DOMAIN told /\ told'[i] = told[i]
           \/ i = Len(told) + 1 /\ told'[i] = report
  BY <1>0, <1>2, <1>4
<1>6. TypeOK'
  BY <1>0, <1>5 DEF TypeOK
<1>7. Len(queue) \in Nat /\ Len(out) \in Nat
  BY DEF TypeOK
<1>8. Numbered'
  <2>1. Len(told') + Len(order') = Len(told) + Len(order)
    BY <1>1, <1>5
  <2>2. DOMAIN order' = {}
    BY <1>0
  <2> QED
    BY <1>0, <2>1, <2>2 DEF Numbered
<1>9. Requested'
  BY <1>0, <1>1, <1>5 DEF Requested, Seen
<1>10. Locked' /\ PlacedInOrder' /\ RefusedWhenStale'
  BY <1>0, LockedKept DEF PlacedInOrder, RefusedWhenStale
<1>11. ToldOfPlaced'
  <2> SUFFICES ASSUME NEW i \in DOMAIN told'
               PROVE  /\ told'[i].id = i
                      /\ told'[i].executed => \E j \in DOMAIN placed : placed[j] = told'[i].id
    BY <1>0 DEF ToldOfPlaced
  <2>1. CASE i \in DOMAIN told /\ told'[i] = told[i]
    BY <2>1 DEF ToldOfPlaced
  <2>2. CASE i = Len(told) + 1 /\ told'[i] = report
    BY <1>3, <2>2 DEF Requested
  <2> QED
    BY <1>5, <2>1, <2>2
<1>12. StillFits' /\ SettledFirst'
  BY <1>0, <1>1 DEF StillFits, Affordable, Apart, SettledFirst
<1> QED
  BY <1>6, <1>8, <1>9, <1>10, <1>11, <1>12

\* The exchange executes an open order: what was locked for it goes, and the
\* account has more free than before.
LEMMA ExecuteKeeps ==
  ASSUME PlaceInv, OrderInv, FitInv, NEW o \in open, Execute(o)
  PROVE  PlaceInv' /\ OrderInv' /\ FitInv'
<1> USE DEF PlaceInv, OrderInv, FitInv
<1>0. /\ open' = open \ {o}
      /\ UNCHANGED <<strat, strategy, position, settled, out, bars, issued,
                     queue, broker, order, placed, refused, told>>
  BY DEF Execute, strategyVars
<1>1. o \in Order /\ o.amount \in Nat /\ o.side \in Side
  BY DEF TypeOK, Order
<1>2. account \in [coins : Nat, coinsLocked : Nat, won : Nat, wonLocked : Nat]
  BY DEF TypeOK
<1>3. /\ o.side = "sell" =>
           /\ account'.coinsLocked = account.coinsLocked - o.amount
           /\ account'.won = account.won + o.amount
           /\ account'.coins = account.coins /\ account'.wonLocked = account.wonLocked
      /\ o.side = "buy" =>
           /\ account'.wonLocked = account.wonLocked - o.amount
           /\ account'.coins = account.coins + o.amount
           /\ account'.won = account.won /\ account'.coinsLocked = account.coinsLocked
  BY <1>2 DEF Execute
<1>4. ASSUME o.side = "sell"  PROVE  Locked' /\ account' \in Accounts
  <2>1. OpenOn("sell")' = OpenOn("sell") \ {o} /\ OpenOn("buy")' = OpenOn("buy")
    BY <1>0, <1>4 DEF OpenOn
  <2>2. o \in OpenOn("sell")
    BY <1>4 DEF OpenOn
  <2>3. /\ IsFiniteSet(Units(OpenOn("sell") \ {o}))
        /\ Cardinality(Units(OpenOn("sell") \ {o})) \in Nat
        /\ account.coinsLocked = Cardinality(Units(OpenOn("sell") \ {o})) + o.amount
    BY <1>1, <2>2, UnitsRemoved DEF Locked
  <2>4. account'.coinsLocked = Cardinality(Units(OpenOn("sell") \ {o}))
    BY <1>1, <1>3, <1>4, <2>3
  <2>5. /\ Units(OpenOn("sell"))' = Units(OpenOn("sell") \ {o})
        /\ Units(OpenOn("buy"))' = Units(OpenOn("buy"))
    BY <2>1 DEF Units
  <2>6. Locked'
    BY <1>3, <1>4, <2>3, <2>4, <2>5 DEF Locked
  <2>7. account.coinsLocked - o.amount \in Nat
    BY <1>3, <1>4, <2>3, <2>4
  <2>8. account' \in Accounts
    <3> DEFINE m == account.coinsLocked - o.amount
    <3> DEFINE n == account.won + o.amount
    <3>1. m \in Nat /\ n \in Nat
      BY <1>1, <1>2, <2>7
    <3>2. account' = [account EXCEPT !.coinsLocked = m, !.won = n]
      BY <1>2, <1>4 DEF Execute
    <3>3. account \in Accounts
      BY <1>2 DEF Accounts
    <3> HIDE DEF m, n
    <3> QED
      BY <3>1, <3>2, <3>3, AccountKept
  <2> QED
    BY <2>6, <2>8
<1>5. ASSUME o.side = "buy"  PROVE  Locked' /\ account' \in Accounts
  <2>1. OpenOn("buy")' = OpenOn("buy") \ {o} /\ OpenOn("sell")' = OpenOn("sell")
    BY <1>0, <1>5 DEF OpenOn
  <2>2. o \in OpenOn("buy")
    BY <1>5 DEF OpenOn
  <2>3. /\ IsFiniteSet(Units(OpenOn("buy") \ {o}))
        /\ Cardinality(Units(OpenOn("buy") \ {o})) \in Nat
        /\ account.wonLocked = Cardinality(Units(OpenOn("buy") \ {o})) + o.amount
    BY <1>1, <2>2, UnitsRemoved DEF Locked
  <2>4. account'.wonLocked = Cardinality(Units(OpenOn("buy") \ {o}))
    BY <1>1, <1>3, <1>5, <2>3
  <2>5. /\ Units(OpenOn("buy"))' = Units(OpenOn("buy") \ {o})
        /\ Units(OpenOn("sell"))' = Units(OpenOn("sell"))
    BY <2>1 DEF Units
  <2>6. Locked'
    BY <1>3, <1>5, <2>3, <2>4, <2>5 DEF Locked
  <2>7. account.wonLocked - o.amount \in Nat
    BY <1>3, <1>5, <2>3, <2>4
  <2>8. account' \in Accounts
    <3> DEFINE m == account.wonLocked - o.amount
    <3> DEFINE n == account.coins + o.amount
    <3>1. m \in Nat /\ n \in Nat
      BY <1>1, <1>2, <2>7
    <3>2. account' = [account EXCEPT !.wonLocked = m, !.coins = n]
      BY <1>2, <1>5 DEF Execute
    <3>3. account \in Accounts
      BY <1>2 DEF Accounts
    <3> HIDE DEF m, n
    <3> QED
      BY <3>1, <3>2, <3>3, AccountKept
  <2> QED
    BY <2>6, <2>8
<1>6. Locked' /\ account' \in Accounts
  BY <1>1, <1>4, <1>5 DEF Side
<1>7. TypeOK'
  BY <1>0, <1>6 DEF TypeOK, Accounts
<1>8. Numbered' /\ Requested'
  BY <1>0 DEF Numbered, Requested, Seen
<1>9. OrderInv' /\ SettledFirst' /\ RefusedWhenStale'
  BY <1>0 DEF PlacedInOrder, ToldOfPlaced, SettledFirst, RefusedWhenStale
<1>10. ASSUME NEW p \in Order, Affordable(p)
       PROVE  p.amount <= (IF p.side = "sell" THEN account'.coins ELSE account'.won)
  <2>1. /\ account.coins \in Nat /\ account.won \in Nat
        /\ account'.coins \in Nat /\ account'.won \in Nat /\ p.amount \in Nat
    BY <1>2, <1>6 DEF Order, Accounts
  <2>2. account.coins <= account'.coins /\ account.won <= account'.won
    BY <1>1, <1>3, <2>1 DEF Side
  <2> QED
    BY <1>10, <2>1, <2>2 DEF Affordable
<1>11. StillFits'
  <2>1. /\ \A i \in DOMAIN out : out[i] \in Order
        /\ \A i \in DOMAIN queue : queue[i] \in Order
        /\ order # <<>> => order[1] \in Order
        /\ broker = "request" => order # <<>>
    BY DEF TypeOK
  <2>2. ~(strategy = "decide" /\ settled)
    BY DEF StillFits
  <2>3. (\A i \in DOMAIN out : out[i].settled => Affordable(out[i]))'
    BY <1>0, <1>10, <2>1 DEF StillFits, Affordable
  <2>4. (\A i \in DOMAIN queue : queue[i].settled => Affordable(queue[i]))'
    BY <1>0, <1>10, <2>1 DEF StillFits, Affordable
  <2>5. (broker = "request" /\ order[1].settled => Affordable(order[1]))'
    BY <1>0, <1>10, <2>1 DEF StillFits, Affordable
  <2> QED
    BY <1>0, <2>2, <2>3, <2>4, <2>5 DEF StillFits, Apart, Affordable
<1> QED
  BY <1>6, <1>7, <1>8, <1>9, <1>11

-----------------------------------------------------------------------------
LEMMA TradingStep ==
  PlaceInv /\ OrderInv /\ FitInv /\ [Next]_vars => PlaceInv' /\ OrderInv' /\ FitInv'
<1> SUFFICES ASSUME PlaceInv, OrderInv, FitInv, [Next]_vars
             PROVE  PlaceInv' /\ OrderInv' /\ FitInv'
  OBVIOUS
<1>1. CASE OnCandle \/ OnCandleFails
  BY <1>1, ReadKeeps
<1>2. CASE LimitRisk \/ FollowSignals \/ FollowPSH
  BY <1>2, StrategyIssues, IssueKeeps DEF PlaceInv
<1>3. CASE Publish
  BY <1>3, PublishKeeps
<1>4. CASE OnOrder
  BY <1>4, OnOrderKeeps
<1>5. CASE Place
  BY <1>5, PlaceKeeps
<1>6. CASE Refuse \/ RequestFails
  BY <1>6, RefuseKeeps
<1>7. CASE Report
  BY <1>7, ReportKeeps
<1>8. CASE \E o \in open : Execute(o)
  BY <1>8, ExecuteKeeps
<1>9. CASE UNCHANGED vars
  <2> USE <1>9 DEF vars, PlaceInv, OrderInv, FitInv
  <2>1. PlaceInv'
    BY LockedKept DEF TypeOK, Numbered, Requested, Seen
  <2>2. OrderInv' /\ SettledFirst' /\ RefusedWhenStale'
    BY DEF PlacedInOrder, ToldOfPlaced, SettledFirst, RefusedWhenStale
  <2>3. StillFits'
    BY DEF StillFits, Affordable, Apart
  <2> QED
    BY <2>1, <2>2, <2>3
<1> QED
  BY <1>1, <1>2, <1>3, <1>4, <1>5, <1>6, <1>7, <1>8, <1>9
  DEF Next, StrategyStep, BrokerStep

LEMMA TradingInvariant == Spec => [](PlaceInv /\ OrderInv /\ FitInv)
BY TradingInitial, TradingStep, PTL DEF Spec

\* The state keeps its type: no amount of the account, free or locked, goes
\* below zero, however position, orders and executions interleave.
THEOREM TypeCorrect == Spec => []TypeOK
<1>1. PlaceInv => TypeOK
  BY DEF PlaceInv
<1> QED
  BY <1>1, TradingInvariant, PTL

\* An order that the exchange refuses for want of coins or won was decided on
\* by OnCandle while earlier orders were under way: the sale and the purchase
\* of one position, whatever the signals, are within it together.
THEOREM RefusalsStale == Spec => []RefusedWhenStale
<1>1. FitInv => RefusedWhenStale
  BY DEF FitInv
<1> QED
  BY <1>1, TradingInvariant, PTL

\* CreateOrderMarket is called in the order of the decisions and once for
\* each, also when answers are lost.
THEOREM OrdersPlacedInOrder == Spec => []PlacedInOrder
<1>1. OrderInv => PlacedInOrder
  BY DEF OrderInv
<1> QED
  BY <1>1, TradingInvariant, PTL

\* The callbacks of OnOrder are told of every order in turn, and of an
\* execution only when the exchange took the order.
THEOREM CallbacksTold == Spec => []ToldOfPlaced
<1>1. OrderInv => ToldOfPlaced
  BY DEF OrderInv
<1> QED
  BY <1>1, TradingInvariant, PTL
=============================================================================
